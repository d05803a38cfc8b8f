---------------------------- MODULE TeamworkProofs ----------------------------
(***************************************************************************)
(* Formations, votes and discussions in Teamwork, for all AgentTeams,      *)
(* Agents, requests, messages and bounds.                                  *)
(*                                                                         *)
(*   Shaped    a discussion has read letters to its own AgentTeam only;    *)
(*             only its success, after the last round, consumes them       *)
(*   Agreeing  inboxes and delivery states agree: whatever a step takes    *)
(*             out of the one it changes in the other                      *)
(*   Counted   restarts, failures and acknowledgements are counted         *)
(*   Same      while no commit has failed and no alert wakes a discussion, *)
(*             the database has the inboxes that memory has                *)
(*   Balloted  a proposal that is executed has been decided                *)
(*   Formed    the registries and the copies of every rollback have their  *)
(*             types                                                       *)
(*   Moved     all that a step makes of one formation: a lemma for each    *)
(*             operation shows that it makes no more (Advance)             *)
(*   Consents  a formation's status, decisions, late invitations and       *)
(*             members fit, and so do those that a rollback would restore; *)
(*             of two commits no request is locked twice (Locks)           *)
(*   Solo      of an AgentTeam's discussions at most one is in a round     *)
(*   Tidy      while no commit has failed every draft fits its formation   *)
(*             and the revisions that come from it (Sound): an operation   *)
(*             works on one draft at most and makes others stale (Works)   *)
(***************************************************************************)
EXTENDS Teamwork, TLAPS, FiniteSetTheorems, FiniteSetsExt, SequenceTheorems

-----------------------------------------------------------------------------
(* Induction over finite sets, as the existence of least ones, and folds. *)

\* Some subset is least among any subsets of a finite set.
LEMMA LeastSubset ==
  ASSUME NEW S, IsFiniteSet(S), NEW F, F \subseteq SUBSET S, F # {}
  PROVE  \E A \in F : \A B \in F : B \subseteq A => B = A
<1>1. IsWellFoundedOn(StrictSubsetOrdering(S), SUBSET S)
  BY FS_StrictSubsetOrderingWellFounded, FS_FiniteSubsetsOfFinite
<1>2. PICK A \in F : \A B \in F : ~ (<<B, A>> \in StrictSubsetOrdering(S))
  BY <1>1, WFMin
<1>3. QED
  BY <1>2 DEF StrictSubsetOrdering

One(s) == CHOOSE x \in s : TRUE
Rest(s) == s \ {One(s)}

LEMMA RestIsLess ==
  ASSUME NEW s, s # {}
  PROVE  One(s) \in s /\ Rest(s) \subseteq s /\ Rest(s) # s
BY DEF One, Rest

\* The recursion of FoldSet, with its operation as a function of pairs.
Folds(step, b, S, g) ==
    g = [s \in SUBSET S |-> IF s = {} THEN b ELSE step[<<One(s), g[Rest(s)]>>]]
Folded(step, b, S) == CHOOSE g : Folds(step, b, S, g)

LEMMA FoldsStep ==
  ASSUME NEW step, NEW b, NEW S, NEW g, Folds(step, b, S, g), NEW s, s \subseteq S
  PROVE  g[s] = IF s = {} THEN b ELSE step[<<One(s), g[Rest(s)]>>]
<1>1. s \in SUBSET S
  OBVIOUS
<1>q. QED
  BY <1>1 DEF Folds

LEMMA FoldsUnique ==
  ASSUME NEW step, NEW b, NEW S, IsFiniteSet(S), NEW g, NEW h, NEW R, R \subseteq S,
         Folds(step, b, R, g), Folds(step, b, S, h)
  PROVE  \A s \in SUBSET R : g[s] = h[s]
<1>1. DEFINE F == {s \in SUBSET R : g[s] # h[s]}
<1>2. SUFFICES ASSUME F # {} PROVE FALSE
  OBVIOUS
<1>3. F \subseteq SUBSET S
  OBVIOUS
<1>4. PICK s \in F : \A B \in F : B \subseteq s => B = s
  <2> HIDE DEF F
  <2> QED
    BY <1>2, <1>3, LeastSubset
<1>5. s \subseteq R /\ s \subseteq S /\ g[s] # h[s]
  OBVIOUS
<1>6. g[s] = IF s = {} THEN b ELSE step[<<One(s), g[Rest(s)]>>]
  BY <1>5, FoldsStep
<1>7. h[s] = IF s = {} THEN b ELSE step[<<One(s), h[Rest(s)]>>]
  BY <1>5, FoldsStep
<1>8. s # {} /\ g[Rest(s)] # h[Rest(s)]
  BY <1>5, <1>6, <1>7
<1>9. Rest(s) \subseteq s /\ Rest(s) # s
  BY <1>8, RestIsLess
<1>10. Rest(s) \in F
  BY <1>5, <1>8, <1>9
<1>q. QED
  BY <1>4, <1>9, <1>10

LEMMA FoldsExist ==
  ASSUME NEW step, NEW b, NEW S, IsFiniteSet(S)
  PROVE  \E g : Folds(step, b, S, g)
<1>1. DEFINE F == {A \in SUBSET S : ~ \E g : Folds(step, b, A, g)}
<1>2. SUFFICES ASSUME F # {} PROVE FALSE
  OBVIOUS
<1>3. F \subseteq SUBSET S
  OBVIOUS
<1>4. PICK A \in F : \A B \in F : B \subseteq A => B = A
  <2> HIDE DEF F
  <2> QED
    BY <1>2, <1>3, LeastSubset
<1>5. IsFiniteSet(A)
  BY FS_Subset
<1>6. ASSUME NEW r, r \subseteq A, r # A PROVE Folds(step, b, r, Folded(step, b, r))
  <2>1. r \in SUBSET S /\ r \notin F
    BY <1>4, <1>6
  <2>2. PICK g : Folds(step, b, r, g)
    BY <2>1
  <2>q. QED
    BY <2>2 DEF Folded
<1>7. DEFINE V(r) == Folded(step, b, r)[r]
<1>8. DEFINE h == [s \in SUBSET A |-> IF s = {} THEN b ELSE step[<<One(s), V(Rest(s))>>]]
<1>9. ASSUME NEW r, r \subseteq A, r # A PROVE h[r] = V(r)
  <2>1. Folds(step, b, r, Folded(step, b, r))
    BY <1>6, <1>9
  <2>2. V(r) = IF r = {} THEN b ELSE step[<<One(r), Folded(step, b, r)[Rest(r)]>>]
    BY <2>1, FoldsStep
  <2>3. h[r] = IF r = {} THEN b ELSE step[<<One(r), V(Rest(r))>>]
    BY <1>9
  <2>4. CASE r = {}
    BY <2>2, <2>3, <2>4
  <2>5. CASE r # {}
    <3>1. Rest(r) \subseteq r /\ Rest(r) # r
      BY <2>5, RestIsLess
    <3>2. Rest(r) \subseteq A /\ Rest(r) # A
      BY <3>1, <1>9
    <3>3. Folds(step, b, Rest(r), Folded(step, b, Rest(r)))
      BY <1>6, <3>2
    <3>4. IsFiniteSet(r)
      BY <1>5, <1>9, FS_Subset
    <3>5. \A s \in SUBSET Rest(r) : Folded(step, b, Rest(r))[s] = Folded(step, b, r)[s]
      BY <2>1, <3>1, <3>3, <3>4, FoldsUnique
    <3>6. V(Rest(r)) = Folded(step, b, r)[Rest(r)]
      BY <3>5
    <3>q. QED
      BY <2>2, <2>3, <2>5, <3>6
  <2>q. QED
    BY <2>4, <2>5
<1>10. Folds(step, b, A, h)
  <2>1. ASSUME NEW s \in SUBSET A, s # {} PROVE V(Rest(s)) = h[Rest(s)]
    <3>1. Rest(s) \subseteq A /\ Rest(s) # A
      BY <2>1, RestIsLess
    <3>q. QED
      BY <1>9, <3>1
  <2>2. \A s \in SUBSET A : h[s] = IF s = {} THEN b ELSE step[<<One(s), V(Rest(s))>>]
    OBVIOUS
  <2>3. h = [s \in SUBSET A |-> h[s]]
    OBVIOUS
  <2> HIDE DEF h, V
  <2>4. \A s \in SUBSET A : h[s] = IF s = {} THEN b ELSE step[<<One(s), h[Rest(s)]>>]
    BY <2>1, <2>2
  <2>q. QED
    BY <2>3, <2>4 DEF Folds
<1>q. QED
  BY <1>4, <1>10

\* Its values stay where the operation has its own.
LEMMA FoldsType ==
  ASSUME NEW S, IsFiniteSet(S), NEW D, NEW b \in D, NEW step \in [S \X D -> D]
  PROVE  \E g : Folds(step, b, S, g) /\ \A s \in SUBSET S : g[s] \in D
<1>0. PICK g : Folds(step, b, S, g)
  BY FoldsExist
<1>1. DEFINE F == {A \in SUBSET S : g[A] \notin D}
<1>2. SUFFICES ASSUME F # {} PROVE FALSE
  BY <1>0
<1>3. F \subseteq SUBSET S
  OBVIOUS
<1>4. PICK A \in F : \A B \in F : B \subseteq A => B = A
  <2> HIDE DEF F
  <2> QED
    BY <1>2, <1>3, LeastSubset
<1>5. g[A] = IF A = {} THEN b ELSE step[<<One(A), g[Rest(A)]>>]
  BY <1>0, FoldsStep
<1>6. A # {}
  BY <1>5
<1>7. One(A) \in A /\ Rest(A) \subseteq A /\ Rest(A) # A
  BY <1>6, RestIsLess
<1>8. g[Rest(A)] \in D /\ One(A) \in S
  BY <1>4, <1>7
<1>9. step[<<One(A), g[Rest(A)]>>] \in D
  BY <1>8
<1>q. QED
  BY <1>5, <1>6, <1>9

-----------------------------------------------------------------------------
(* Discussions. *)

\* The fields of a discussion.
IsSession(s) ==
    /\ s = [team |-> s.team, wake |-> s.wake, audited |-> s.audited, lost |-> s.lost,
            round |-> s.round, errors |-> s.errors, dirty |-> s.dirty, claims |-> s.claims,
            shown |-> s.shown]
    /\ s.team \in Scopes /\ s.round \in Nat
    /\ s.shown \subseteq {m \in Messages : To[m] = s.team}

Delivered(inboxes) == \A t \in Scopes : inboxes[t] \subseteq {m \in Messages : To[m] = t}

Shaped ==
    /\ limit.rounds \in Nat \ {0}
    /\ letters = [t \in Scopes |-> letters[t]]
    /\ Delivered(letters) /\ Delivered(disk.letters)
    /\ disk.letters = [t \in Scopes |-> disk.letters[t]]
    /\ peer = [m \in Messages |-> peer[m]]
    /\ disk.peer = [m \in Messages |-> disk.peer[m]]
    /\ disk = [alerts |-> disk.alerts, letters |-> disk.letters, peer |-> disk.peer]
    /\ \A x \in sending : x.message \in Messages
    /\ \A s \in sessions : IsSession(s)

LEMMA ShapedInit == Init => Shaped
<1> SUFFICES ASSUME Init PROVE Shaped
  OBVIOUS
<1>1. limit.rounds \in Nat \ {0}
  BY TeamworkAssumption DEF Init
<1>2. /\ letters = [t \in Scopes |-> {}] /\ peer = [m \in Messages |-> "none"]
      /\ sending = {} /\ sessions = {}
      /\ disk = [alerts |-> alerts, letters |-> letters, peer |-> peer]
  BY DEF Init
<1> QED
  BY <1>1, <1>2 DEF Shaped, Delivered

\* Formations and votes touch none of it.
LEMMA ShapedStutter == ASSUME Shaped, UNCHANGED <<talkVars, limit>> PROVE Shaped'
BY DEF Shaped, talkVars, Delivered, IsSession

LEMMA NewSessionShaped ==
    ASSUME NEW t \in Scopes, NEW wake, NEW lost
    PROVE  IsSession(NewSession(t, wake, lost)) /\ ~Running(NewSession(t, wake, lost))
BY DEF NewSession, IsSession, Running

LEMMA RoundField ==
    ASSUME NEW s, IsSession(s), NEW v \in Nat
    PROVE  LET r == [s EXCEPT !.round = v] IN
             IsSession(r) /\ r.team = s.team /\ r.wake = s.wake /\ r.round = v
<1>1. s = [team |-> s.team, wake |-> s.wake, audited |-> s.audited, lost |-> s.lost,
           round |-> s.round, errors |-> s.errors, dirty |-> s.dirty, claims |-> s.claims,
           shown |-> s.shown]
  BY DEF IsSession
<1>2. [s EXCEPT !.round = v] =
        [team |-> s.team, wake |-> s.wake, audited |-> s.audited, lost |-> s.lost, round |-> v,
         errors |-> s.errors, dirty |-> s.dirty, claims |-> s.claims, shown |-> s.shown]
  BY <1>1
<1> QED
  BY <1>2 DEF IsSession

LEMMA ShownField ==
    ASSUME NEW s, IsSession(s), NEW v \in SUBSET {m \in Messages : To[m] = s.team}
    PROVE  LET r == [s EXCEPT !.shown = v] IN
             IsSession(r) /\ r.team = s.team /\ r.wake = s.wake /\ r.round = s.round
<1>1. s = [team |-> s.team, wake |-> s.wake, audited |-> s.audited, lost |-> s.lost,
           round |-> s.round, errors |-> s.errors, dirty |-> s.dirty, claims |-> s.claims,
           shown |-> s.shown]
  BY DEF IsSession
<1>2. [s EXCEPT !.shown = v] =
        [team |-> s.team, wake |-> s.wake, audited |-> s.audited, lost |-> s.lost, round |-> s.round,
         errors |-> s.errors, dirty |-> s.dirty, claims |-> s.claims, shown |-> v]
  BY <1>1
<1> QED
  BY <1>2 DEF IsSession

LEMMA OtherFields ==
    ASSUME NEW s, IsSession(s), NEW v
    PROVE  /\ LET r == [s EXCEPT !.claims = v] IN
             IsSession(r) /\ r.team = s.team /\ r.wake = s.wake /\ r.round = s.round
           /\ LET r == [s EXCEPT !.dirty = v] IN
             IsSession(r) /\ r.team = s.team /\ r.wake = s.wake /\ r.round = s.round
           /\ LET r == [s EXCEPT !.errors = v] IN
             IsSession(r) /\ r.team = s.team /\ r.wake = s.wake /\ r.round = s.round
<1>1. s = [team |-> s.team, wake |-> s.wake, audited |-> s.audited, lost |-> s.lost,
           round |-> s.round, errors |-> s.errors, dirty |-> s.dirty, claims |-> s.claims,
           shown |-> s.shown]
  BY DEF IsSession
<1>2. [s EXCEPT !.claims = v] =
        [team |-> s.team, wake |-> s.wake, audited |-> s.audited, lost |-> s.lost, round |-> s.round,
         errors |-> s.errors, dirty |-> s.dirty, claims |-> v, shown |-> s.shown]
  BY <1>1
<1>3. [s EXCEPT !.dirty = v] =
        [team |-> s.team, wake |-> s.wake, audited |-> s.audited, lost |-> s.lost, round |-> s.round,
         errors |-> s.errors, dirty |-> v, claims |-> s.claims, shown |-> s.shown]
  BY <1>1
<1>4. [s EXCEPT !.errors = v] =
        [team |-> s.team, wake |-> s.wake, audited |-> s.audited, lost |-> s.lost, round |-> s.round,
         errors |-> v, dirty |-> s.dirty, claims |-> s.claims, shown |-> s.shown]
  BY <1>1
<1> QED
  BY <1>2, <1>3, <1>4 DEF IsSession

LEMMA PreparedShaped ==
    ASSUME Shaped, NEW s, IsSession(s)
    PROVE  /\ IsSession(Prepared(s))
           /\ Prepared(s).team = s.team /\ Prepared(s).wake = s.wake
           /\ Prepared(s).round = s.round + 1
<1>1. PICK c, d, S :
        /\ Prepared(s) = [s EXCEPT !.round = s.round + 1, !.claims = c, !.shown = S, !.dirty = d]
        /\ S = s.shown \cup letters[s.team]
  BY Zenon DEF Prepared
<1>2. s.round + 1 \in Nat /\ S \in SUBSET {m \in Messages : To[m] = s.team}
  BY <1>1 DEF Shaped, Delivered, IsSession
<1> DEFINE a == [s EXCEPT !.round = s.round + 1]
           b == [a EXCEPT !.claims = c]
           e == [b EXCEPT !.shown = S]
<1>3. Prepared(s) = [e EXCEPT !.dirty = d]
  BY <1>1
<1>4. IsSession(a) /\ a.team = s.team /\ a.wake = s.wake /\ a.round = s.round + 1
  BY <1>2, RoundField
<1> HIDE DEF a
<1>5. IsSession(b) /\ b.team = s.team /\ b.wake = s.wake /\ b.round = s.round + 1
  BY <1>4, OtherFields
<1> HIDE DEF b
<1>6. IsSession(e) /\ e.team = s.team /\ e.wake = s.wake /\ e.round = s.round + 1
  BY <1>2, <1>5, ShownField
<1> HIDE DEF e
<1>7. LET r == [e EXCEPT !.dirty = d] IN
        IsSession(r) /\ r.team = e.team /\ r.wake = e.wake /\ r.round = e.round
  BY <1>6, OtherFields
<1> QED
  BY <1>3, <1>6, <1>7, Zenon

LEMMA SaveShaped ==
    ASSUME Shaped, NEW ts, NEW ms, Save(ts, ms), Delivered(letters'),
           letters' = [t \in Scopes |-> letters'[t]], peer' = [m \in Messages |-> peer'[m]]
    PROVE  /\ Delivered(disk'.letters)
           /\ disk'.letters = [t \in Scopes |-> disk'.letters[t]]
           /\ disk'.peer = [m \in Messages |-> disk'.peer[m]]
           /\ disk' = [alerts |-> disk'.alerts, letters |-> disk'.letters, peer |-> disk'.peer]
BY DEF Shaped, Save, Delivered

\* The discussions that an ending one schedules have not begun.
LEMMA CloseSessions ==
    ASSUME Shaped, NEW s \in sessions, NEW kinds, NEW ok, Close(s, kinds, ok)
    PROVE  \A r \in sessions' : \/ r \in sessions \ {s}
                                \/ IsSession(r) /\ ~Running(r)
<1> DEFINE up == Parent[s.team]
           told == IF up = NoTeam THEN {} ELSE kinds
           mine == Released(alerts[s.team], s.claims, ok)
           woken == {NewSession(up, <<k, s.team>>, TRUE) :
                       k \in {k \in told : Idle(up) /\ Wakes(up, <<k, s.team>>)}}
           next == {NewSession(s.team, id, s.lost) : id \in Followup(s.team, mine)}
<1>1. sessions' = (sessions \ {s}) \cup woken \cup next
  BY DEF Close
<1>2. s.team \in Scopes
  BY DEF Shaped, IsSession
<1>3. told # {} => up \in Scopes
  BY <1>2, FormationAssumption
<1>4. \A r \in woken : IsSession(r) /\ ~Running(r)
  BY <1>3, NewSessionShaped
<1>5. \A r \in next : IsSession(r) /\ ~Running(r)
  BY <1>2, NewSessionShaped
<1> QED
  BY <1>1, <1>4, <1>5

LEMMA CloseShaped ==
    ASSUME Shaped, UNCHANGED limit, NEW s \in sessions, NEW kinds, NEW ok, Close(s, kinds, ok)
    PROVE  Shaped'
<1> DEFINE consumed == IF ok THEN Read(s) ELSE {}
<1>1. /\ letters' = [letters EXCEPT ![s.team] = @ \ consumed]
      /\ peer' = [m \in Messages |-> IF m \in consumed /\ peer[m] # "none" THEN "consumed" ELSE peer[m]]
      /\ UNCHANGED sending
      /\ \/ UNCHANGED disk
         \/ \E ts, ms : Save(ts, ms)
  BY DEF Close
<1>2. /\ letters' = [t \in Scopes |-> letters'[t]] /\ Delivered(letters')
      /\ peer' = [m \in Messages |-> peer'[m]]
  BY <1>1 DEF Shaped, Delivered
<1>3. /\ Delivered(disk'.letters)
      /\ disk'.letters = [t \in Scopes |-> disk'.letters[t]]
      /\ disk'.peer = [m \in Messages |-> disk'.peer[m]]
      /\ disk' = [alerts |-> disk'.alerts, letters |-> disk'.letters, peer |-> disk'.peer]
  BY <1>1, <1>2, SaveShaped DEF Shaped
<1>4. \A r \in sessions' : IsSession(r)
  BY CloseSessions DEF Shaped
<1> QED
  BY <1>1, <1>2, <1>3, <1>4 DEF Shaped, Delivered, IsSession

\* A discussion reads its inbox and goes on.
LEMMA GoOnShaped ==
    ASSUME Shaped, NEW r, IsSession(r), NEW s,
           sessions' = (sessions \ {s}) \cup {r},
           UNCHANGED <<letters, peer, sending, disk, limit>>
    PROVE  Shaped'
BY DEF Shaped, Delivered, IsSession

LEMMA ProceedShaped ==
    ASSUME Shaped, UNCHANGED limit, NEW s \in sessions, Proceed(s)
    PROVE  Shaped'
<1>1. IsSession(s)
  BY DEF Shaped
<1>2. CASE Enter(s)
  BY <1>1, <1>2, PreparedShaped, GoOnShaped DEF Enter, Prepare
<1>3. ASSUME NEW errors \in BOOLEAN, EndRound(s, errors) PROVE Shaped'
  <2> DEFINE x == [s EXCEPT !.errors = @ \/ errors]
  <2>1. IsSession(x)
    <3>1. PICK v : x = [s EXCEPT !.errors = v]
      BY Zenon
    <3> QED
      BY <1>1, <3>1, OtherFields
  <2>2. IsSession(Prepared(x)) /\ IsSession([x EXCEPT !.round = @ + 1])
    <3>1. x.round + 1 \in Nat
      BY <2>1 DEF IsSession
    <3> HIDE DEF x
    <3> QED
      BY <2>1, <3>1, PreparedShaped, RoundField
  <2>3. \/ /\ \/ sessions' = (sessions \ {s}) \cup {Prepared(x)}
              \/ sessions' = (sessions \ {s}) \cup {[x EXCEPT !.round = @ + 1]}
           /\ UNCHANGED <<letters, peer, sending, disk>>
        \/ Close(s, {}, TRUE)
    BY <1>3 DEF EndRound
  <2> QED
    BY <2>2, <2>3, GoOnShaped, CloseShaped
<1>4. CASE Abort(s) \/ Break(s) \/ \E kind \in {"healthy", "unknown", "failure"} : Audited(s, kind)
  BY <1>4, CloseShaped DEF Abort, Break, Audited
<1> QED
  BY <1>2, <1>3, <1>4 DEF Proceed

LEMMA TalkShaped ==
    ASSUME Shaped, UNCHANGED limit, TalkStep
    PROVE  Shaped'
<1>1. ASSUME NEW t \in Scopes, Call(t) PROVE Shaped'
  <2> DEFINE n == NewSession(t, Called, FALSE)
  <2>1. IsSession(n)
    BY NewSessionShaped, Zenon
  <2>2. sessions' = sessions \cup {n} /\ UNCHANGED <<letters, peer, sending, disk>>
    BY <1>1, Zenon DEF Call
  <2> HIDE DEF n
  <2> QED
    BY <2>1, <2>2 DEF Shaped, Delivered, IsSession
<1>2. ASSUME NEW s \in sessions, Proceed(s) PROVE Shaped'
  BY <1>2, ProceedShaped
<1>3. ASSUME NEW t \in Scopes, NEW id \in Alert, Acknowledge(t, id) PROVE Shaped'
  <2>1. UNCHANGED <<letters, peer, sending, sessions>> /\ Save({t}, {})
    BY <1>3 DEF Acknowledge
  <2>2. Delivered(letters') /\ letters' = [u \in Scopes |-> letters'[u]] /\ peer' = [m \in Messages |-> peer'[m]]
    BY <2>1 DEF Shaped
  <2> QED
    BY <2>1, <2>2, SaveShaped DEF Shaped, Delivered, IsSession
<1>4. ASSUME NEW m \in Messages, Send(m) PROVE Shaped'
  <2>1. /\ letters' = [letters EXCEPT ![To[m]] = @ \cup {m}]
        /\ peer' = [peer EXCEPT ![m] = "pending"]
        /\ UNCHANGED sessions
        /\ \A x \in sending' : x.message = m
        /\ UNCHANGED disk \/ \E ts, ms : Save(ts, ms)
    BY <1>4 DEF Send
  <2>2. Delivered(letters') /\ letters' = [u \in Scopes |-> letters'[u]] /\ peer' = [k \in Messages |-> peer'[k]]
    BY <2>1 DEF Shaped, Delivered
  <2>3. /\ Delivered(disk'.letters)
        /\ disk'.letters = [t \in Scopes |-> disk'.letters[t]]
        /\ disk'.peer = [k \in Messages |-> disk'.peer[k]]
        /\ disk' = [alerts |-> disk'.alerts, letters |-> disk'.letters, peer |-> disk'.peer]
    BY <2>1, <2>2, SaveShaped DEF Shaped
  <2> QED
    BY <2>1, <2>2, <2>3 DEF Shaped, Delivered, IsSession
<1>5. ASSUME NEW x \in sending, SendReturns(x) PROVE Shaped'
  <2>1. /\ sending' = {} /\ UNCHANGED <<sessions, disk>>
        /\ \/ UNCHANGED <<letters, peer>>
           \/ /\ letters' = [letters EXCEPT ![To[x.message]] = @ \ {x.message}]
              /\ peer' = [peer EXCEPT ![x.message] = "none"]
    BY <1>5 DEF SendReturns
  <2> QED
    BY <2>1, SMTT(60) DEF Shaped, Delivered, IsSession
<1>6. ASSUME NEW p \in Proposals, Vote(p) PROVE Shaped'
  <2>1. UNCHANGED <<letters, peer, sending, sessions, disk>>
    BY <1>6, ZenonT(60) DEF Vote, Initiate, Retract, CastVote
  <2> QED
    BY <2>1 DEF Shaped, Delivered, IsSession
<1> QED
  BY <1>1, <1>2, <1>3, <1>4, <1>5, <1>6 DEF TalkStep

LEMMA ShapedInvariant == Spec => []Shaped
<1>1. ASSUME Shaped, [Next]_vars PROVE Shaped'
  <2>1. CASE FormationStep /\ UNCHANGED limit
    BY <1>1, <2>1, ShapedStutter DEF FormationStep
  <2>2. CASE TalkStep /\ UNCHANGED limit
    BY <1>1, <2>2, TalkShaped
  <2>3. ASSUME NEW frozen, Restart(frozen), UNCHANGED limit PROVE Shaped'
    BY <1>1, <2>3 DEF Restart, Recover, Shaped, Delivered
  <2>4. CASE UNCHANGED vars
    BY <1>1, <2>4, ShapedStutter DEF vars
  <2> QED
    BY <1>1, <2>1, <2>2, <2>3, <2>4 DEF Next
<1> QED
  BY <1>1, ShapedInit, PTL DEF Spec


-----------------------------------------------------------------------------
(* Restarts, departures, acknowledgements and failed commits are counted.*)

Counted ==
    /\ {"restarts", "faults", "acks", "leaves"} \subseteq DOMAIN spent
    /\ spent.restarts \in Nat /\ spent.faults \in Nat
    /\ spent.acks \in Nat /\ spent.leaves \in Nat

Adds(field) == spent' = [spent EXCEPT ![field] = @ + 1]

LEMMA Counting ==
    ASSUME [Next]_vars
    PROVE  \/ UNCHANGED spent
           \/ \E field \in {"faults", "cancels", "leaves", "calls", "acks"} : Adds(field)
           \/ Adds("restarts") /\ \E frozen : Restart(frozen)
<1> DEFINE Goal == \/ UNCHANGED spent
                   \/ \E field \in {"faults", "cancels", "leaves", "calls", "acks"} : Adds(field)
<1>1. ASSUME NEW q, Request(q) PROVE Goal
  <2>1. ASSUME NEW c, Propose(q, c) \/ ReviseFormation(q, c) PROVE Goal
    BY <2>1, Zenon DEF Propose, ReviseFormation
  <2>2. ASSUME NEW a, NEW n, NEW answer, Respond(q, a, n, answer) PROVE Goal
    BY <2>2, Zenon DEF Respond
  <2>3. ASSUME NEW a, NEW n, NEW answer, RespondLate(q, a, n, answer) PROVE Goal
    BY <2>3, Zenon DEF RespondLate, Join
  <2>4. CASE Create(q) \/ Abandon(q)
    BY <2>4, Zenon DEF Create, Abandon
  <2>5. ASSUME NEW a, NEW approved, DecideLate(q, a, approved) PROVE Goal
    BY <2>5, Zenon DEF DecideLate, Join
  <2> QED
    BY <1>1, <2>1, <2>2, <2>3, <2>4, <2>5, Zenon DEF Request, Answer
<1>2. ASSUME NEW q, AutoStep(q) PROVE Goal
  BY <1>2, Zenon DEF AutoStep, AutoCreate
<1>3. ASSUME NEW d, Draft(d) PROVE Goal
  <2>1. ASSUME NEW q, NewDraft(d, q) PROVE Goal
    BY <2>1, Zenon DEF NewDraft
  <2>2. CASE RetryDraft(d)
    BY <2>2, Zenon DEF RetryDraft, SetDraft
  <2>3. CASE PublishRevision(d)
    BY <2>3, Zenon DEF PublishRevision, PublishHeld
  <2>4. ASSUME NEW q, PublishInitial(d, q) PROVE Goal
    BY <2>4, Zenon DEF PublishInitial
  <2> QED
    BY <1>3, <2>1, <2>2, <2>3, <2>4, Zenon DEF Draft
<1>4. ASSUME NEW d, DraftStep(d) PROVE Goal
  <2>1. CASE RunDraft(d) \/ Deliberate(d) \/ BaseGone(d)
    BY <2>1, Zenon DEF RunDraft, SetDraft, Deliberate, BaseGone, Conclude
  <2>2. ASSUME NEW x, NEW c, GiveUp(x) \/ Deliver(x, c) PROVE Goal
    BY <2>2, Zenon DEF GiveUp, Deliver, Conclude
  <2>3. ASSUME NEW w, PublishWaiting(w) PROVE Goal
    BY <2>3, Zenon DEF PublishWaiting, PublishHeld
  <2> QED
    BY <1>4, <2>1, <2>2, <2>3, Zenon DEF DraftStep
<1>5. ASSUME NEW f, Finish(f) \/ Cancel(f) \/ Fail(f) PROVE Goal
  BY <1>5, Zenon DEF Finish, Cancel, Fail, Adds
<1>6. ASSUME NEW a, NEW t, Leave(a, t) PROVE Goal
  BY <1>6, Zenon DEF Leave, Adds
<1>7. ASSUME NEW s, Proceed(s) PROVE Goal
  <2>1. ASSUME NEW kinds, NEW ok, Close(s, kinds, ok) PROVE Goal
    BY <2>1, Zenon DEF Close
  <2>2. CASE Enter(s)
    BY <2>2, Zenon DEF Enter, Prepare
  <2>3. CASE Abort(s) \/ Break(s) \/ \E kind : Audited(s, kind)
    BY <2>1, <2>3, Zenon DEF Abort, Break, Audited
  <2>4. ASSUME NEW errors, EndRound(s, errors) PROVE Goal
    BY <2>1, <2>4, Zenon DEF EndRound
  <2> QED
    BY <1>7, <2>2, <2>3, <2>4, Zenon DEF Proceed
<1>8. ASSUME NEW t, Call(t) \/ \E id : Acknowledge(t, id) PROVE Goal
  BY <1>8, Zenon DEF Call, Acknowledge, Adds
<1>9. ASSUME NEW m, Send(m) \/ SendReturns(m) PROVE Goal
  BY <1>9, Zenon DEF Send, SendReturns, Adds
<1>10. ASSUME NEW p, Vote(p) PROVE Goal
  BY <1>10, Zenon DEF Vote, Initiate, Retract, CastVote
<1>11. CASE FormationStep
  BY <1>11, <1>1, <1>2, <1>3, <1>4, <1>5, <1>6, Zenon DEF FormationStep
<1>12. CASE TalkStep
  BY <1>12, <1>7, <1>8, <1>9, <1>10, Zenon DEF TalkStep
<1>13. ASSUME NEW frozen, Restart(frozen) PROVE Adds("restarts") /\ \E x : Restart(x)
  BY <1>13, Zenon DEF Restart, Adds
<1>14. CASE UNCHANGED vars
  BY <1>14 DEF vars, formVars
<1> QED
  BY <1>11, <1>12, <1>13, <1>14, Zenon DEF Next

LEMMA CountedInvariant == Spec => []Counted
<1>1. Init => Counted
  BY DEF Init, Counted
<1>2. ASSUME Counted, [Next]_vars PROVE Counted'
  BY <1>2, Counting DEF Counted, Adds
<1> QED
  BY <1>1, <1>2, PTL DEF Spec

-----------------------------------------------------------------------------
(* Letters. *)

LEMMA ConsumedByClose ==
    ASSUME Shaped, NEW s \in sessions, NEW kinds, NEW ok, Close(s, kinds, ok),
           NEW m \in Messages, peer[m] # "consumed", peer'[m] = "consumed"
    PROVE  ok /\ s.team = To[m] /\ m \in s.shown
<1> DEFINE consumed == IF ok THEN Read(s) ELSE {}
<1>1. peer' = [x \in Messages |-> IF x \in consumed /\ peer[x] # "none" THEN "consumed" ELSE peer[x]]
  BY Zenon DEF Close
<1>2. m \in consumed
  BY <1>1
<1> QED
  BY <1>2 DEF Read, Shaped, IsSession

\* The end of a discussion: the success of one comes after the last round.
LEMMA ConsumedByProceed ==
    ASSUME Shaped, NEW s \in sessions, Proceed(s),
           NEW m \in Messages, peer[m] # "consumed", peer'[m] = "consumed"
    PROVE  s \notin sessions' /\ s.team = To[m] /\ m \in s.shown /\ s.round >= limit.rounds
<1>1. s.round \in Nat /\ limit.rounds \in Nat \ {0}
  BY DEF Shaped, IsSession
<1>2. ASSUME NEW kinds, NEW ok, Close(s, kinds, ok), ok => s.round >= limit.rounds
      PROVE  s \notin sessions' /\ s.team = To[m] /\ m \in s.shown /\ s.round >= limit.rounds
  <2>1. ok /\ s.team = To[m] /\ m \in s.shown
    BY <1>2, ConsumedByClose
  <2>2. Running(s)
    BY <1>1, <1>2, <2>1 DEF Running
  <2> QED
    BY <1>2, <2>1, <2>2, CloseSessions
<1>3. CASE Enter(s)
  BY <1>3 DEF Enter, Prepare
<1>4. ASSUME NEW errors, EndRound(s, errors) PROVE Close(s, {}, TRUE) /\ s.round >= limit.rounds
  <2>1. ~UNCHANGED peer
    OBVIOUS
  <2>2. UNCHANGED peer \/ (Close(s, {}, TRUE) /\ ~(s.round < limit.rounds))
    BY <1>4, Zenon DEF EndRound
  <2>3. ~(s.round < limit.rounds) => s.round >= limit.rounds
    BY <1>1
  <2> QED
    BY <2>1, <2>2, <2>3, Zenon
<1>5. ASSUME Abort(s) \/ Break(s) PROVE FALSE
  <2>1. \E kinds : Close(s, kinds, FALSE)
    BY <1>5, Zenon DEF Abort, Break
  <2> QED
    BY <2>1, ConsumedByClose, Zenon
<1>6. ASSUME NEW kind, Audited(s, kind)
      PROVE  s.round >= limit.rounds /\ \E kinds : Close(s, kinds, TRUE)
  <2>1. s.round > limit.rounds /\ \E kinds : Close(s, kinds, TRUE)
    BY <1>6, Zenon DEF Audited
  <2>2. s.round > limit.rounds => s.round >= limit.rounds
    BY <1>1
  <2> QED
    BY <2>1, <2>2, Zenon
<1> QED
  BY <1>2, <1>3, <1>4, <1>5, <1>6, Zenon DEF Proceed

LEMMA ConsumedStep ==
    ASSUME Shaped, Counted, [Next]_vars,
           NEW m \in Messages, peer[m] # "consumed", peer'[m] = "consumed"
    PROVE  \/ spent'.restarts > spent.restarts
           \/ \E s \in sessions \ sessions' :
                s.team = To[m] /\ m \in s.shown /\ s.round >= limit.rounds
<1>1. CASE FormationStep \/ UNCHANGED vars
  BY <1>1 DEF FormationStep, vars, talkVars
<1>2. CASE TalkStep
  <2>1. CASE \/ \E t \in Scopes : Call(t)
             \/ \E t \in Scopes, id \in Alert : Acknowledge(t, id)
    BY <2>1, Zenon DEF Call, Acknowledge
  <2>2. ASSUME NEW k, Send(k) PROVE FALSE
    <3>1. peer' = [peer EXCEPT ![k] = "pending"]
      BY <2>2, Zenon DEF Send
    <3> QED
      BY <3>1 DEF Shaped
  <2>3. ASSUME NEW x, SendReturns(x) PROVE FALSE
    <3>1. UNCHANGED peer \/ peer' = [peer EXCEPT ![x.message] = "none"]
      BY <2>3, Zenon DEF SendReturns
    <3> QED
      BY <3>1 DEF Shaped
  <2>4. ASSUME NEW p, Vote(p) PROVE FALSE
    BY <2>4, Zenon DEF Vote, Initiate, Retract, CastVote
  <2>5. ASSUME NEW s \in sessions, Proceed(s)
        PROVE  s \notin sessions' /\ s.team = To[m] /\ m \in s.shown /\ s.round >= limit.rounds
    BY <2>5, ConsumedByProceed
  <2> QED
    BY <1>2, <2>1, <2>2, <2>3, <2>4, <2>5, Zenon DEF TalkStep
<1>3. ASSUME NEW frozen, Restart(frozen) PROVE spent'.restarts > spent.restarts
  BY <1>3 DEF Restart, Counted
<1> QED
  BY <1>1, <1>2, <1>3, Zenon DEF Next

\* A letter that is consumed has been read by its recipient, in a discussion
\* that went through all its rounds and did not fail (finalize_discussion_session
\* consumes what the session has read, and only when it succeeds).
THEOREM LettersReadInFull == Spec => ReadInFull
<1>1. ASSUME Shaped, Counted, [Next]_vars
      PROVE  [\A m \in Messages : peer[m] # "consumed" /\ peer'[m] = "consumed" =>
                 spent'.restarts > spent.restarts \/
                 \E s \in sessions \ sessions' :
                    s.team = To[m] /\ m \in s.shown /\ s.round >= limit.rounds]_vars
  BY <1>1, ConsumedStep
<1> QED
  BY <1>1, ShapedInvariant, CountedInvariant, PTL DEF ReadInFull, Spec

-----------------------------------------------------------------------------
\* An inbox has the messages that are pending for its AgentTeam, and no other.
Agreeing == ValidDeliveries(letters, peer)

LEMMA AgreeingByClose ==
    ASSUME Shaped, Agreeing, NEW s \in sessions, NEW kinds, NEW ok, Close(s, kinds, ok)
    PROVE  Agreeing'
<1> DEFINE consumed == IF ok THEN Read(s) ELSE {}
<1>1. /\ letters' = [letters EXCEPT ![s.team] = @ \ consumed]
      /\ peer' = [x \in Messages |-> IF x \in consumed /\ peer[x] # "none" THEN "consumed" ELSE peer[x]]
  BY Zenon DEF Close
<1>2. consumed \subseteq {m \in Messages : To[m] = s.team} /\ s.team \in Scopes
  BY DEF Shaped, IsSession, Read
<1> HIDE DEF consumed
<1>3. ASSUME NEW m \in Messages, NEW t \in Scopes
      PROVE  m \in letters'[t] <=> peer'[m] = "pending" /\ t = To[m]
  <2>1. m \in letters[t] <=> peer[m] = "pending" /\ t = To[m]
    BY DEF Agreeing, ValidDeliveries
  <2>2. m \in letters'[t] <=> m \in letters[t] /\ (t = s.team => m \notin consumed)
    BY <1>1 DEF Shaped
  <2>3. peer'[m] = IF m \in consumed /\ peer[m] # "none" THEN "consumed" ELSE peer[m]
    BY <1>1
  <2> QED
    BY <1>2, <2>1, <2>2, <2>3
<1> QED
  BY <1>3 DEF Agreeing, ValidDeliveries

LEMMA AgreeingStep ==
    ASSUME Shaped, Agreeing, [Next]_vars
    PROVE  Agreeing'
<1>1. CASE UNCHANGED <<letters, peer>>
  BY <1>1 DEF Agreeing, ValidDeliveries
<1>2. ASSUME NEW s \in sessions, Proceed(s) PROVE Agreeing'
  <2>1. UNCHANGED <<letters, peer>> \/ \E kinds, ok : Close(s, kinds, ok)
    <3>1. CASE Enter(s)
      BY <3>1, Zenon DEF Enter, Prepare
    <3>2. ASSUME NEW errors, EndRound(s, errors) PROVE UNCHANGED <<letters, peer>> \/ Close(s, {}, TRUE)
      BY <3>2, Zenon DEF EndRound
    <3>3. CASE Abort(s) \/ Break(s) \/ \E kind : Audited(s, kind)
      BY <3>3, Zenon DEF Abort, Break, Audited
    <3> QED
      BY <1>2, <3>1, <3>2, <3>3, Zenon DEF Proceed
  <2> QED
    BY <1>1, <2>1, AgreeingByClose
<1>3. ASSUME NEW m \in Messages, Send(m) PROVE Agreeing'
  <2>1. /\ letters' = [letters EXCEPT ![To[m]] = @ \cup {m}]
        /\ peer' = [peer EXCEPT ![m] = "pending"]
    BY <1>3, Zenon DEF Send
  <2> QED
    BY <2>1 DEF Agreeing, ValidDeliveries, Shaped
<1>4. ASSUME NEW x \in sending, SendReturns(x) PROVE Agreeing'
  <2>1. \/ UNCHANGED <<letters, peer>>
        \/ /\ letters' = [letters EXCEPT ![To[x.message]] = @ \ {x.message}]
           /\ peer' = [peer EXCEPT ![x.message] = "none"]
    BY <1>4, Zenon DEF SendReturns
  <2>2. x.message \in Messages
    BY DEF Shaped
  <2> QED
    BY <1>1, <2>1, <2>2, SMTT(60) DEF Agreeing, ValidDeliveries, Shaped
<1>5. CASE TalkStep
  <2>1. CASE \/ \E t \in Scopes : Call(t) \/ \E id \in Alert : Acknowledge(t, id)
             \/ \E p \in Proposals : Vote(p)
    <3>1. ASSUME NEW t, Call(t) \/ \E id : Acknowledge(t, id)
          PROVE  UNCHANGED letters /\ UNCHANGED peer
      BY <3>1, Zenon DEF Call, Acknowledge
    <3>2. ASSUME NEW p, Vote(p) PROVE UNCHANGED letters /\ UNCHANGED peer
      BY <3>2, Zenon DEF Vote, Initiate, Retract, CastVote
    <3>3. UNCHANGED letters /\ UNCHANGED peer
      BY <2>1, <3>1, <3>2, Zenon
    <3> QED
      BY <1>1, <3>3
  <2> QED
    BY <1>2, <1>3, <1>4, <1>5, <2>1, Zenon DEF TalkStep
<1>6. CASE FormationStep \/ UNCHANGED vars
  BY <1>1, <1>6 DEF FormationStep, vars, talkVars
<1>7. ASSUME NEW frozen, Restart(frozen) PROVE Agreeing'
  BY <1>7 DEF Restart, Recover, Agreeing, ValidDeliveries
<1> QED
  BY <1>5, <1>6, <1>7, Zenon DEF Next

\* What validate_deliveries_and_inboxes checks of a restored state is true of
\* the state in memory at every moment, whatever fails (a delivery that fails is
\* taken out of the inbox again; a discussion that ends consumes letters in the
\* inbox and in the broker together).
THEOREM DeliveriesAgree == Spec => []ValidDeliveries(letters, peer)
<1>1. Init => Agreeing
  BY DEF Init, Agreeing, ValidDeliveries
<1>2. Agreeing => ValidDeliveries(letters, peer)
  BY DEF Agreeing
<1> QED
  BY <1>1, <1>2, AgreeingStep, ShapedInvariant, PTL DEF Spec

-----------------------------------------------------------------------------
\* Without a failed commit and without wakeups, the database has what memory has.
Calm == spent.faults = 0 /\ limit.wakes = {}

\* What a discussion has read it has noted to be saved, in its own batch.
Careful(s) == s.lost = FALSE /\ s.dirty \in BOOLEAN /\ (s.shown # {} => s.dirty)

Same ==
    /\ disk.letters = letters /\ disk.peer = peer
    /\ \A x \in sending : x.fails = FALSE
    /\ \A s \in sessions : Careful(s)

LEMMA CalmBefore ==
    ASSUME Counted, [Next]_vars, Calm'
    PROVE  Calm
<1>1. UNCHANGED limit
  BY DEF Next, vars
<1>2. spent.faults = 0
  BY Counting DEF Counted, Adds, Calm
<1> QED
  BY <1>1, <1>2 DEF Calm

LEMMA PreparedFields ==
    ASSUME NEW s, IsSession(s), s.dirty \in BOOLEAN
    PROVE  LET n == letters[s.team] # {} \/ Claimed(alerts[s.team]) # alerts[s.team] IN
             Prepared(s) =
               [team |-> s.team, wake |-> s.wake, audited |-> s.audited, lost |-> s.lost,
                round |-> s.round + 1, errors |-> s.errors, dirty |-> (s.dirty \/ n),
                claims |-> s.claims \cup Pending(alerts[s.team]),
                shown |-> s.shown \cup letters[s.team]]
<1>1. s = [team |-> s.team, wake |-> s.wake, audited |-> s.audited, lost |-> s.lost,
           round |-> s.round, errors |-> s.errors, dirty |-> s.dirty, claims |-> s.claims,
           shown |-> s.shown]
  BY DEF IsSession
<1> DEFINE n == letters[s.team] # {} \/ Claimed(alerts[s.team]) # alerts[s.team]
           p == Pending(alerts[s.team])
           o == s.dirty \/ letters[s.team] # {} \/ Claimed(alerts[s.team]) # alerts[s.team]
<1>2. Prepared(s) = [s EXCEPT !.round = @ + 1, !.claims = @ \cup p, !.shown = @ \cup letters[s.team],
                              !.dirty = o]
  BY Zenon DEF Prepared
<1>3. o = (s.dirty \/ n)
  OBVIOUS
<1> HIDE DEF o, n, p
<1>4. Prepared(s) =
        [team |-> s.team, wake |-> s.wake, audited |-> s.audited, lost |-> s.lost,
         round |-> s.round + 1, errors |-> s.errors, dirty |-> o,
         claims |-> s.claims \cup p, shown |-> s.shown \cup letters[s.team]]
  BY <1>1, <1>2
<1> QED
  BY <1>3, <1>4 DEF n, p

LEMMA PreparedCareful ==
    ASSUME NEW s, IsSession(s), Careful(s)
    PROVE  Careful(Prepared(s))
<1> DEFINE n == letters[s.team] # {} \/ Claimed(alerts[s.team]) # alerts[s.team]
<1>1. /\ Prepared(s).lost = s.lost /\ Prepared(s).dirty = (s.dirty \/ n)
      /\ Prepared(s).shown = s.shown \cup letters[s.team]
  BY PreparedFields DEF Careful
<1>2. letters[s.team] # {} => n
  OBVIOUS
<1>3. n \in BOOLEAN
  OBVIOUS
<1> HIDE DEF n
<1> QED
  BY <1>1, <1>2, <1>3 DEF Careful

LEMMA CarefulByClose ==
    ASSUME limit.wakes = {}, NEW s \in sessions, NEW kinds, NEW ok, Close(s, kinds, ok)
    PROVE  sessions' \subseteq sessions \ {s}
<1> DEFINE up == Parent[s.team]
           told == IF up = NoTeam THEN {} ELSE kinds
           mine == Released(alerts[s.team], s.claims, ok)
           woken == {NewSession(up, <<k, s.team>>, TRUE) :
                       k \in {k \in told : Idle(up) /\ Wakes(up, <<k, s.team>>)}}
           next == {NewSession(s.team, id, s.lost) : id \in Followup(s.team, mine)}
<1>1. sessions' = (sessions \ {s}) \cup woken \cup next
  BY DEF Close
<1>2. \A t, id : ~Wakes(t, id)
  BY DEF Wakes
<1>3. woken = {}
  BY <1>2
<1>4. \A t, box : Followup(t, box) = {}
  BY <1>2 DEF Followup
<1>5. next = {}
  BY <1>4
<1> HIDE DEF woken, next
<1> QED
  BY <1>1, <1>3, <1>5

LEMMA SameByClose ==
    ASSUME Shaped, Same, limit.wakes = {}, NEW s \in sessions, NEW kinds, NEW ok, Close(s, kinds, ok)
    PROVE  Same'
<1> DEFINE consumed == IF ok THEN Read(s) ELSE {}
           told == IF Parent[s.team] = NoTeam THEN {} ELSE kinds
           ts == {x \in Scopes : (x = s.team /\ s.dirty) \/ (x = Parent[s.team] /\ told # {})}
           ms == {m \in consumed : peer[m] # "none"}
<1>0. /\ disk.letters = letters /\ disk.peer = peer /\ Careful(s) /\ IsSession(s)
      /\ letters = [t \in Scopes |-> letters[t]] /\ peer = [m \in Messages |-> peer[m]]
      /\ \A x \in sending : x.fails = FALSE
      /\ \A r \in sessions : Careful(r)
  BY DEF Same, Shaped
<1>1. /\ letters' = [letters EXCEPT ![s.team] = @ \ consumed]
      /\ peer' = [m \in Messages |-> IF m \in consumed /\ peer[m] # "none" THEN "consumed" ELSE peer[m]]
      /\ UNCHANGED sending
  BY DEF Close
<1>2. Save(ts, ms)
  <2>1. IF s.lost THEN UNCHANGED disk ELSE Save(ts, ms)
    BY DEF Close
  <2> QED
    BY <1>0, <2>1 DEF Careful
<1>3. ~s.dirty => consumed = {}
  BY <1>0 DEF Careful, Read
<1>4. disk'.letters = letters'
  <2>1. disk'.letters = [t \in Scopes |-> IF t \in ts THEN letters'[t] ELSE letters[t]]
    BY <1>0, <1>2 DEF Save
  <2>2. \A t \in Scopes : t \notin ts => letters'[t] = letters[t]
    BY <1>0, <1>1, <1>3 DEF IsSession
  <2>3. letters' = [t \in Scopes |-> letters'[t]]
    BY <1>0, <1>1
  <2> HIDE DEF ts
  <2> QED
    BY <2>1, <2>2, <2>3
<1>5. disk'.peer = peer'
  <2>1. disk'.peer = [m \in Messages |-> IF m \in ms THEN peer'[m] ELSE peer[m]]
    BY <1>0, <1>2 DEF Save
  <2>2. \A m \in Messages : m \notin ms => peer'[m] = peer[m]
    BY <1>1
  <2>3. peer' = [m \in Messages |-> peer'[m]]
    BY <1>1
  <2> HIDE DEF ms
  <2> QED
    BY <2>1, <2>2, <2>3
<1>6. \A r \in sessions' : Careful(r)
  BY <1>0, CarefulByClose
<1> QED
  BY <1>0, <1>1, <1>4, <1>5, <1>6 DEF Same, Careful

LEMMA SameByRound ==
    ASSUME Same, NEW r, Careful(r), NEW s, sessions' = (sessions \ {s}) \cup {r},
           UNCHANGED <<letters, peer, sending, disk>>
    PROVE  Same'
BY DEF Same, Careful

LEMMA SameByProceed ==
    ASSUME Shaped, Same, limit.wakes = {}, NEW s \in sessions, Proceed(s)
    PROVE  Same'
<1>1. IsSession(s) /\ Careful(s)
  BY DEF Shaped, Same
<1>2. CASE Enter(s)
  BY <1>1, <1>2, PreparedCareful, SameByRound DEF Enter, Prepare
<1>3. ASSUME NEW errors \in BOOLEAN, EndRound(s, errors) PROVE Same'
  <2> DEFINE x == [s EXCEPT !.errors = @ \/ errors]
  <2>1. PICK v : x = [s EXCEPT !.errors = v]
    BY Zenon
  <2>2. IsSession(x)
    BY <1>1, <2>1, OtherFields
  <2>3. x.lost = s.lost /\ x.dirty = s.dirty /\ x.shown = s.shown
    BY <1>1, <2>1 DEF IsSession
  <2>4. Careful(x)
    BY <1>1, <2>3 DEF Careful
  <2>5. PICK y : y = [x EXCEPT !.round = @ + 1]
    OBVIOUS
  <2>6. y.lost = x.lost /\ y.dirty = x.dirty /\ y.shown = x.shown
    <3> HIDE DEF x
    <3> QED
      BY <2>2, <2>5 DEF IsSession
  <2>7. \/ /\ \/ sessions' = (sessions \ {s}) \cup {Prepared(x)}
              \/ sessions' = (sessions \ {s}) \cup {y}
           /\ UNCHANGED <<letters, peer, sending, disk>>
        \/ Close(s, {}, TRUE)
    BY <1>3, <2>5 DEF EndRound
  <2>8. Careful(y)
    BY <2>4, <2>6 DEF Careful
  <2> HIDE DEF x
  <2>9. Careful(Prepared(x))
    BY <2>2, <2>4, PreparedCareful
  <2> QED
    BY <2>7, <2>8, <2>9, SameByRound, SameByClose
<1>4. CASE Abort(s) \/ Break(s) \/ \E kind \in {"healthy", "unknown", "failure"} : Audited(s, kind)
  BY <1>4, SameByClose DEF Abort, Break, Audited
<1> QED
  BY <1>2, <1>3, <1>4 DEF Proceed

LEMMA SameBySend ==
    ASSUME Shaped, Counted, Same, spent'.faults = 0, NEW m \in Messages, Send(m)
    PROVE  Same'
<1>0. /\ disk.letters = letters /\ disk.peer = peer
      /\ letters = [t \in Scopes |-> letters[t]] /\ peer = [k \in Messages |-> peer[k]]
      /\ \A r \in sessions : Careful(r)
      /\ To[m] \in Scopes
  BY DiscussionAssumption DEF Same, Shaped
<1>1. /\ letters' = [letters EXCEPT ![To[m]] = @ \cup {m}]
      /\ peer' = [peer EXCEPT ![m] = "pending"]
      /\ UNCHANGED sessions
  BY DEF Send
<1>2. Save({To[m]}, {m}) /\ sending' = {[message |-> m, fails |-> FALSE]}
  <2>1. \/ Save({To[m]}, {m}) /\ sending' = {[message |-> m, fails |-> FALSE]}
        \/ spent' = [spent EXCEPT !.faults = @ + 1]
    BY DEF Send
  <2>2. spent' # [spent EXCEPT !.faults = @ + 1]
    BY DEF Counted
  <2> QED
    BY <2>1, <2>2
<1>3. disk'.letters = [t \in Scopes |-> IF t \in {To[m]} THEN letters'[t] ELSE letters[t]]
  BY <1>0, <1>2 DEF Save
<1>4. disk'.peer = [k \in Messages |-> IF k \in {m} THEN peer'[k] ELSE peer[k]]
  BY <1>0, <1>2 DEF Save
<1>5. disk'.letters = letters'
  BY <1>0, <1>1, <1>3
<1>6. disk'.peer = peer'
  BY <1>0, <1>1, <1>4
<1> QED
  BY <1>0, <1>1, <1>2, <1>5, <1>6 DEF Same, Careful

LEMMA SameStep ==
    ASSUME Shaped, Counted, Calm => Same, [Next]_vars, Calm'
    PROVE  Same'
<1>0. Same /\ limit.wakes = {} /\ spent'.faults = 0
  BY CalmBefore DEF Calm
<1>1. CASE UNCHANGED talkVars
  BY <1>0, <1>1 DEF Same, Careful, talkVars
<1>2. ASSUME NEW t \in Scopes, Call(t) PROVE Same'
  <2>1. sessions' = sessions \cup {NewSession(t, Called, FALSE)} /\ UNCHANGED <<letters, peer, sending, disk>>
    BY <1>2, Zenon DEF Call
  <2>2. Careful(NewSession(t, Called, FALSE))
    BY DEF Careful, NewSession
  <2> QED
    BY <1>0, <2>1, <2>2 DEF Same, Careful
<1>3. ASSUME NEW t \in Scopes, NEW id \in Alert, Acknowledge(t, id) PROVE Same'
  <2>1. UNCHANGED <<letters, peer, sending, sessions>> /\ Save({t}, {})
    BY <1>3 DEF Acknowledge
  <2>2. letters = [u \in Scopes |-> letters[u]] /\ peer = [m \in Messages |-> peer[m]]
    BY DEF Shaped
  <2>3. disk'.letters = [u \in Scopes |-> IF u \in {t} THEN letters'[u] ELSE disk.letters[u]]
    BY <2>1 DEF Save
  <2>4. disk'.peer = [m \in Messages |-> disk.peer[m]]
    BY <2>1 DEF Save
  <2>5. disk.letters = letters /\ disk.peer = peer
    BY <1>0 DEF Same
  <2>6. disk'.letters = letters' /\ disk'.peer = peer'
    BY <2>1, <2>2, <2>3, <2>4, <2>5
  <2> QED
    BY <1>0, <2>1, <2>6 DEF Same, Careful
<1>4. ASSUME NEW x \in sending, SendReturns(x) PROVE Same'
  <2>1. x.fails = FALSE
    BY <1>0 DEF Same
  <2>2. sending' = {} /\ UNCHANGED <<letters, peer, sessions, disk>>
    BY <1>4, <2>1 DEF SendReturns
  <2> QED
    BY <1>0, <2>2 DEF Same, Careful
<1>5. ASSUME NEW p, Vote(p) PROVE Same'
  <2>1. UNCHANGED <<letters, peer, sending, sessions, disk>>
    BY <1>5, Zenon DEF Vote, Initiate, Retract, CastVote
  <2> QED
    BY <1>0, <2>1 DEF Same, Careful
<1>6. CASE TalkStep
  BY <1>0, <1>2, <1>3, <1>4, <1>5, <1>6, SameByProceed, SameBySend, Zenon DEF TalkStep
<1>7. ASSUME NEW frozen, Restart(frozen) PROVE Same'
  <2>1. letters' = disk.letters /\ peer' = disk.peer /\ sending' = {} /\ sessions' = {} /\ UNCHANGED disk
    BY <1>7 DEF Restart, Recover
  <2> QED
    BY <2>1 DEF Same
<1>8. CASE FormationStep \/ UNCHANGED vars
  BY <1>1, <1>8 DEF FormationStep, vars
<1> QED
  BY <1>6, <1>7, <1>8, Zenon DEF Next

\* While no commit has failed and no alert wakes a discussion, what a crash may
\* leave passes validate_deliveries_and_inboxes: the delta of a discussion that
\* has read a letter has both the inbox and the delivery states (finalize_discussion_session).
THEOREM CrashesStayRestorable == Spec => []DiskRestorable
<1>1. Init => (Calm => Same)
  BY DEF Init, Same
<1>2. ASSUME Calm => Same, Agreeing PROVE DiskRestorable
  BY <1>2 DEF Calm, Same, Agreeing, DiskRestorable
<1>3. ASSUME Shaped, Counted, Calm => Same, [Next]_vars PROVE (Calm => Same)'
  BY <1>3, SameStep
<1>4. Spec => []Agreeing
  BY DeliveriesAgree DEF Agreeing
<1> QED
  BY <1>1, <1>2, <1>3, <1>4, ShapedInvariant, CountedInvariant, PTL DEF Spec

-----------------------------------------------------------------------------
(* Votes. *)

ProposalTypes ==
    [status : {"none", "active", "approved", "rejected", "retracted"}, by : SUBSET Agents,
     executed : BOOLEAN, votes : [Agents -> {"none", "Agree", "Disagree", "Abstain"}]]

\* What the execution of approved proposals may make of members and proposals.
Outcomes(t) ==
    {x \in [members : SUBSET Agents, proposals : [Proposals -> ProposalTypes]] :
        /\ \A p \in Proposals \ Approved(t) : x.proposals[p] = proposals[p]
        /\ \A p \in Approved(t) :
             \/ x.proposals[p] = proposals[p]
             \/ x.proposals[p].executed /\ x.proposals[p].status \in {"approved", "rejected"}
        /\ x.members # members[t] => \E p \in Approved(t) : x.proposals[p].executed
        /\ \A a \in x.members : a \in members[t] \/ Voted(x.proposals, t, a)}

LEMMA ExecutedFields ==
    ASSUME NEW p \in Proposals, NEW M \in SUBSET Agents, NEW x \in ProposalTypes
    PROVE  /\ Executed(p, M, x) \in ProposalTypes /\ Executed(p, M, x).executed
           /\ Executed(p, M, x).status = IF Possible(p, M) THEN "approved" ELSE "rejected"
BY DEF Executed, ProposalTypes

LEMMA AfterFacts ==
    ASSUME NEW p \in Proposals, NEW M \in SUBSET Agents
    PROVE  /\ After(p, M) \in SUBSET Agents
           /\ \A a \in After(p, M) : \/ a \in M
                                     \/ /\ Possible(p, M)
                                        /\ Ballot[p] = [team |-> Ballot[p].team, action |-> "add", target |-> a]
           /\ ~Possible(p, M) => After(p, M) = M
<1>1. Ballot[p] \in [team : Scopes \cup Requests, action : {"add", "remove"}, target : Agents]
  BY DiscussionAssumption
<1> QED
  BY <1>1 DEF After

LEMMA OutcomesStep ==
    ASSUME NEW t, NEW p \in Approved(t), NEW x \in Outcomes(t), NEW y,
           y = [members |-> After(p, x.members),
                proposals |-> [x.proposals EXCEPT ![p] = Executed(p, x.members, @)]]
    PROVE  y \in Outcomes(t)
<1>1. /\ p \in Proposals /\ Ballot[p].team = t /\ proposals[p].status = "approved"
      /\ ~proposals[p].executed
  BY DEF Approved
<1>2. /\ x.members \in SUBSET Agents /\ x.proposals \in [Proposals -> ProposalTypes]
      /\ \A r \in Proposals \ Approved(t) : x.proposals[r] = proposals[r]
      /\ \A r \in Approved(t) :
           \/ x.proposals[r] = proposals[r]
           \/ x.proposals[r].executed /\ x.proposals[r].status \in {"approved", "rejected"}
      /\ x.members # members[t] => \E r \in Approved(t) : x.proposals[r].executed
      /\ \A a \in x.members : a \in members[t] \/ Voted(x.proposals, t, a)
  BY DEF Outcomes
<1>3. x.proposals[p] \in ProposalTypes
  BY <1>1, <1>2
<1> DEFINE z == Executed(p, x.members, x.proposals[p])
<1>4. /\ z \in ProposalTypes /\ z.executed
      /\ z.status = IF Possible(p, x.members) THEN "approved" ELSE "rejected"
  BY <1>1, <1>2, <1>3, ExecutedFields
<1>5. y.members = After(p, x.members) /\ y.proposals = [x.proposals EXCEPT ![p] = z]
  OBVIOUS
<1> HIDE DEF z
<1>6. /\ y.members \in SUBSET Agents
      /\ \A a \in y.members : \/ a \in x.members
                              \/ /\ Possible(p, x.members)
                                 /\ Ballot[p] = [team |-> t, action |-> "add", target |-> a]
  BY <1>1, <1>2, <1>5, AfterFacts
<1>7. /\ y.proposals \in [Proposals -> ProposalTypes] /\ y.proposals[p] = z
      /\ \A r \in Proposals : r # p => y.proposals[r] = x.proposals[r]
  BY <1>1, <1>2, <1>4, <1>5
<1>8. ASSUME NEW a \in y.members PROVE a \in members[t] \/ Voted(y.proposals, t, a)
  <2>1. CASE /\ Possible(p, x.members)
             /\ Ballot[p] = [team |-> t, action |-> "add", target |-> a]
    BY <1>1, <1>4, <1>7, <2>1 DEF Voted
  <2>2. CASE a \in x.members /\ ~Possible(p, x.members) /\ Voted(x.proposals, t, a)
    <3>1. PICK r \in Proposals : /\ x.proposals[r].executed /\ x.proposals[r].status = "approved"
                                 /\ Ballot[r] = [team |-> t, action |-> "add", target |-> a]
      BY <2>2 DEF Voted
    <3>2. r # p
      BY <2>2, <3>1 DEF Possible
    <3> QED
      BY <1>7, <3>1, <3>2 DEF Voted
  <2>3. CASE a \in x.members /\ Possible(p, x.members) /\ Voted(x.proposals, t, a)
    <3>1. PICK r \in Proposals : /\ x.proposals[r].executed /\ x.proposals[r].status = "approved"
                                 /\ Ballot[r] = [team |-> t, action |-> "add", target |-> a]
      BY <2>3 DEF Voted
    <3>2. y.proposals[r].executed /\ y.proposals[r].status = "approved"
      BY <1>4, <1>7, <2>3, <3>1
    <3> QED
      BY <3>1, <3>2 DEF Voted
  <2> QED
    BY <1>2, <1>6, <2>1, <2>2, <2>3
<1>9. y \in [members : SUBSET Agents, proposals : [Proposals -> ProposalTypes]]
  BY <1>6, <1>7
<1>10. \A r \in Proposals \ Approved(t) : y.proposals[r] = proposals[r]
  BY <1>2, <1>7
<1>11. \A r \in Approved(t) :
          \/ y.proposals[r] = proposals[r]
          \/ y.proposals[r].executed /\ y.proposals[r].status \in {"approved", "rejected"}
  BY <1>2, <1>4, <1>7 DEF Approved
<1>12. \E r \in Approved(t) : y.proposals[r].executed
  BY <1>4, <1>7
<1> QED
  BY <1>8, <1>9, <1>10, <1>11, <1>12 DEF Outcomes

LEMMA ApplyFacts ==
    ASSUME NEW t, proposals \in [Proposals -> ProposalTypes], members[t] \in SUBSET Agents, Apply(t)
    PROVE  \E x \in Outcomes(t) :
             members' = [members EXCEPT ![t] = x.members] /\ proposals' = x.proposals
<1> DEFINE A == Approved(t)
           b == [members |-> members[t], proposals |-> proposals]
           D == Outcomes(t)
           op(p, x) == [members |-> After(p, x.members),
                        proposals |-> [x.proposals EXCEPT ![p] = Executed(p, x.members, @)]]
           step == [z \in A \X D |-> op(z[1], z[2])]
           done == FoldSet(op, b, A)
<1>1. IsFiniteSet(A)
  <2>1. A \in SUBSET Proposals
    BY DEF Approved
  <2>2. IsFiniteSet(Proposals)
    BY DiscussionAssumption
  <2> QED
    BY <2>1, <2>2, FS_Subset
<1>2. b \in D
  BY DEF Outcomes
<1>3. step \in [A \X D -> D]
  <2>1. \A p \in A, x \in D : op(p, x) \in D
    BY OutcomesStep
  <2> HIDE DEF op, D, A
  <2> QED
    BY <2>1
<1>4. members' = [members EXCEPT ![t] = done.members] /\ proposals' = done.proposals
  BY DEF Apply
<1>5. \E h : done = h
  OBVIOUS
<1>6. PICK g : Folds(step, b, A, g) /\ \A s \in SUBSET A : g[s] \in D
  <2> HIDE DEF step, b, A, D
  <2> QED
    BY <1>1, <1>2, <1>3, FoldsType
<1>7. \A s \in SUBSET A : s # {} => step[<<One(s), g[Rest(s)]>>] = op(One(s), g[Rest(s)])
  <2> TAKE s \in SUBSET A
  <2> HAVE s # {}
  <2>1. One(s) \in A /\ Rest(s) \in SUBSET A
    BY RestIsLess
  <2>2. <<One(s), g[Rest(s)]>> \in A \X D
    BY <1>6, <2>1
  <2> HIDE DEF op, D, A
  <2> QED
    BY <2>2
<1> DEFINE I(h) == h = [s \in SUBSET A |-> IF s = {} THEN b ELSE op(One(s), h[Rest(s)])]
<1>8. done = (CHOOSE h : I(h))[A]
  BY DEF FoldSet, MapThenFoldSet, One, Rest
<1>9. I(g)
  <2>1. g = [s \in SUBSET A |-> IF s = {} THEN b ELSE step[<<One(s), g[Rest(s)]>>]]
    BY <1>6, Zenon DEF Folds
  <2> HIDE DEF op, b, A, step
  <2> QED
    BY <1>7, <2>1
<1>10. PICK h : I(h) /\ done = h[A]
  <2> HIDE DEF I, done
  <2> QED
    BY <1>8, <1>9
<1>11. \A s \in SUBSET A : h[s] = g[s]
  <2> DEFINE F == {s \in SUBSET A : h[s] # g[s]}
  <2> SUFFICES ASSUME F # {} PROVE FALSE
    OBVIOUS
  <2>1. F \subseteq SUBSET A
    OBVIOUS
  <2>2. PICK s \in F : \A B \in F : B \subseteq s => B = s
    <3> HIDE DEF F, A
    <3> QED
      BY <1>1, <2>1, LeastSubset
  <2> HIDE DEF op, b, A
  <2>3. s \in SUBSET A /\ h[s] # g[s]
    OBVIOUS
  <2>4. h[s] = IF s = {} THEN b ELSE op(One(s), h[Rest(s)])
    BY <1>10, <2>3
  <2>5. g[s] = IF s = {} THEN b ELSE op(One(s), g[Rest(s)])
    BY <1>9, <2>3
  <2>6. s # {}
    BY <2>3, <2>4, <2>5
  <2>7. Rest(s) \subseteq s /\ Rest(s) # s
    BY <2>6, RestIsLess
  <2>8. Rest(s) \in SUBSET A /\ Rest(s) \notin F
    BY <2>2, <2>3, <2>7
  <2>9. h[Rest(s)] = g[Rest(s)]
    BY <2>8
  <2> QED
    BY <2>3, <2>4, <2>5, <2>6, <2>9
<1>12. done \in D
  <2> HIDE DEF done, D, A
  <2> QED
    BY <1>6, <1>10, <1>11
<1> QED
  BY <1>4, <1>12

Balloted ==
    /\ proposals \in [Proposals -> ProposalTypes]
    /\ members \in [Scopes \cup Requests -> SUBSET Agents]
    /\ \A p \in Proposals : proposals[p].executed => proposals[p].status \in {"approved", "rejected"}

\* What a step of a discussion or a vote does to them.
Balloting ==
    /\ Balloted'
    /\ \A p \in Proposals : proposals'[p] = proposals[p] \/ ~proposals[p].executed
    /\ \A p \in Proposals : proposals'[p].executed /\ ~proposals[p].executed =>
         proposals[p].status \in {"active", "approved"}
    /\ \A t \in Scopes \cup Requests : members'[t] # members[t] =>
         \E p \in Proposals : Ballot[p].team = t /\ ~proposals[p].executed /\ proposals'[p].executed
    /\ \A t \in Scopes \cup Requests : \A a \in members'[t] : a \in members[t] \/ Voted(proposals', t, a)

LEMMA NoBalloting ==
    ASSUME Balloted, UNCHANGED <<proposals, members>>
    PROVE  Balloting
BY DEF Balloted, Balloting

LEMMA BallotingByApply ==
    ASSUME Balloted, NEW t \in Scopes, Apply(t)
    PROVE  Balloting
<1>0. /\ proposals \in [Proposals -> ProposalTypes] /\ members \in [Scopes \cup Requests -> SUBSET Agents]
      /\ \A p \in Proposals : proposals[p].executed => proposals[p].status \in {"approved", "rejected"}
  BY DEF Balloted
<1>1. PICK x \in Outcomes(t) :
        members' = [members EXCEPT ![t] = x.members] /\ proposals' = x.proposals
  BY <1>0, ApplyFacts
<1>2. /\ x.members \in SUBSET Agents /\ x.proposals \in [Proposals -> ProposalTypes]
      /\ \A r \in Proposals \ Approved(t) : x.proposals[r] = proposals[r]
      /\ \A r \in Approved(t) :
           \/ x.proposals[r] = proposals[r]
           \/ x.proposals[r].executed /\ x.proposals[r].status \in {"approved", "rejected"}
      /\ x.members # members[t] => \E r \in Approved(t) : x.proposals[r].executed
      /\ \A a \in x.members : a \in members[t] \/ Voted(x.proposals, t, a)
  BY DEF Outcomes
<1>3. \A p \in Approved(t) : p \in Proposals /\ Ballot[p].team = t /\ proposals[p].status = "approved" /\ ~proposals[p].executed
  BY DEF Approved
<1>4. /\ members' \in [Scopes \cup Requests -> SUBSET Agents]
      /\ members'[t] = x.members
      /\ \A u \in Scopes \cup Requests : u # t => members'[u] = members[u]
  BY <1>0, <1>1, <1>2
<1>5. Balloted'
  BY <1>0, <1>1, <1>2, <1>4 DEF Balloted
<1>6. \A p \in Proposals : \/ proposals'[p] = proposals[p]
                           \/ p \in Approved(t)
  BY <1>1, <1>2
<1>7. \A u \in Scopes \cup Requests : \A a \in members'[u] : a \in members[u] \/ Voted(proposals', u, a)
  BY <1>1, <1>2, <1>4
<1>8. \A u \in Scopes \cup Requests : members'[u] # members[u] =>
         \E p \in Proposals : Ballot[p].team = u /\ ~proposals[p].executed /\ proposals'[p].executed
  BY <1>1, <1>2, <1>3, <1>4
<1> QED
  BY <1>3, <1>5, <1>6, <1>7, <1>8 DEF Balloting

LEMMA StatusField ==
    ASSUME NEW x \in ProposalTypes,
           NEW k \in {"none", "active", "approved", "rejected", "retracted"}
    PROVE  [x EXCEPT !.status = k] \in ProposalTypes /\ [x EXCEPT !.status = k].executed = x.executed
BY DEF ProposalTypes

LEMMA VoteField ==
    ASSUME NEW x \in ProposalTypes, NEW a \in Agents,
           NEW v \in {"none", "Agree", "Disagree", "Abstain"},
           NEW y, y = [x EXCEPT !.votes[a] = v]
    PROVE  y \in ProposalTypes /\ y.executed = x.executed
BY DEF ProposalTypes

LEMMA BallotingByVote ==
    ASSUME Balloted, NEW p \in Proposals, Vote(p)
    PROVE  Balloting
<1>0. /\ proposals \in [Proposals -> ProposalTypes] /\ members \in [Scopes \cup Requests -> SUBSET Agents]
      /\ \A r \in Proposals : proposals[r].executed => proposals[r].status \in {"approved", "rejected"}
      /\ proposals[p] \in ProposalTypes
      /\ Ballot[p].team \in Scopes \cup Requests
  BY DiscussionAssumption DEF Balloted
\* One that changes the status of an open one only.
<1>1. ASSUME NEW x \in ProposalTypes, proposals' = [proposals EXCEPT ![p] = x], UNCHANGED members,
             proposals[p].executed = FALSE, x.executed = FALSE
      PROVE  Balloting
  BY <1>0, <1>1 DEF Balloted, Balloting
<1>2. ASSUME NEW a, NEW by \in SUBSET Agents, Initiate(p, a, by) PROVE Balloting
  <2> DEFINE x == [proposals[p] EXCEPT !.status = "active", !.by = by,
                     !.votes = [b \in Agents |-> IF b \in by THEN "Agree" ELSE "none"]]
  <2>1. proposals' = [proposals EXCEPT ![p] = x] /\ UNCHANGED members /\ proposals[p].status = "none"
    BY <1>0, <1>2 DEF Initiate
  <2>2. proposals[p].executed = FALSE
    BY <1>0, <2>1 DEF ProposalTypes
  <2>3. x \in ProposalTypes /\ x.executed = FALSE
    <3> DEFINE v == [b \in Agents |-> IF b \in by THEN "Agree" ELSE "none"]
               y == proposals[p]
    <3>1. v \in [Agents -> {"none", "Agree", "Disagree", "Abstain"}]
      OBVIOUS
    <3>2. x = [y EXCEPT !.status = "active", !.by = by, !.votes = v] /\ y \in ProposalTypes
      BY <1>0
    <3> HIDE DEF v, y, x
    <3>3. y = [status |-> y.status, by |-> y.by, executed |-> y.executed, votes |-> y.votes]
          /\ y.executed \in BOOLEAN
      BY <3>2 DEF ProposalTypes
    <3>4. x = [status |-> "active", by |-> by, executed |-> y.executed, votes |-> v]
      BY <3>2, <3>3
    <3>5. y.executed = FALSE
      BY <2>2 DEF y
    <3> QED
      BY <1>2, <3>1, <3>4, <3>5 DEF ProposalTypes
  <2> QED
    BY <1>1, <2>1, <2>2, <2>3
<1>3. ASSUME NEW a, Retract(p, a) PROVE Balloting
  <2> DEFINE x == [proposals[p] EXCEPT !.status = "retracted"]
  <2>1. proposals' = [proposals EXCEPT ![p] = x] /\ UNCHANGED members /\ proposals[p].status = "active"
    BY <1>0, <1>3 DEF Retract
  <2>2. proposals[p].executed = FALSE
    BY <1>0, <2>1 DEF ProposalTypes
  <2>3. x \in ProposalTypes /\ x.executed = FALSE
    BY <1>0, <2>2, StatusField
  <2> QED
    BY <1>1, <2>1, <2>2, <2>3
<1>4. ASSUME NEW a \in Agents, NEW vote \in {"Agree", "Disagree", "Abstain"}, CastVote(p, a, vote)
      PROVE  Balloting
  <2> DEFINE t == Ballot[p].team
             M == members[t]
             x == [proposals[p] EXCEPT !.votes[a] = vote]
  <2>1. proposals[p].status = "active"
    BY <1>4 DEF CastVote
  <2>2. proposals[p].executed = FALSE
    BY <1>0, <2>1 DEF ProposalTypes
  <2>3. x \in ProposalTypes /\ x.executed = FALSE
    <3>1. vote \in {"none", "Agree", "Disagree", "Abstain"}
      OBVIOUS
    <3>2. x \in ProposalTypes /\ x.executed = proposals[p].executed
      BY <1>0, <3>1, VoteField
    <3> QED
      BY <2>2, <3>2
  <2>4. \/ proposals' = [proposals EXCEPT ![p] = x] /\ UNCHANGED members
        \/ /\ proposals' = [proposals EXCEPT ![p] = [x EXCEPT !.status = "rejected"]]
           /\ UNCHANGED members
        \/ /\ proposals' = [proposals EXCEPT ![p] = [x EXCEPT !.status = "approved"]]
           /\ UNCHANGED members
        \/ /\ proposals' = [proposals EXCEPT ![p] = Executed(p, M, x)]
           /\ members' = [members EXCEPT ![t] = After(p, M)]
    BY <1>4 DEF CastVote
  <2> HIDE DEF x
  <2>5. /\ [x EXCEPT !.status = "rejected"] \in ProposalTypes
        /\ [x EXCEPT !.status = "rejected"].executed = FALSE
        /\ [x EXCEPT !.status = "approved"] \in ProposalTypes
        /\ [x EXCEPT !.status = "approved"].executed = FALSE
    BY <2>3, StatusField
  <2>6. CASE /\ proposals' = [proposals EXCEPT ![p] = Executed(p, M, x)]
             /\ members' = [members EXCEPT ![t] = After(p, M)]
    <3>1. M \in SUBSET Agents
      BY <1>0
    <3> DEFINE z == Executed(p, M, x)
               N == After(p, M)
    <3>2. /\ z \in ProposalTypes /\ z.executed
          /\ z.status = IF Possible(p, M) THEN "approved" ELSE "rejected"
      BY <2>3, <3>1, ExecutedFields
    <3>3. /\ N \in SUBSET Agents
          /\ \A b \in N : \/ b \in M
                          \/ /\ Possible(p, M)
                             /\ Ballot[p] = [team |-> t, action |-> "add", target |-> b]
      BY <3>1, AfterFacts
    <3>4. proposals' = [proposals EXCEPT ![p] = z] /\ members' = [members EXCEPT ![t] = N]
      BY <2>6
    <3> HIDE DEF z, N
    <3>5. /\ proposals'[p] = z /\ \A r \in Proposals : r # p => proposals'[r] = proposals[r]
          /\ proposals' \in [Proposals -> ProposalTypes]
          /\ members'[t] = N /\ \A u \in Scopes \cup Requests : u # t => members'[u] = members[u]
          /\ members' \in [Scopes \cup Requests -> SUBSET Agents]
      BY <1>0, <3>2, <3>3, <3>4
    <3>6. Balloted'
      BY <1>0, <3>2, <3>5 DEF Balloted
    <3>7. \A u \in Scopes \cup Requests : \A b \in members'[u] : b \in members[u] \/ Voted(proposals', u, b)
      BY <3>2, <3>3, <3>5 DEF Voted
    <3> QED
      BY <2>1, <2>2, <3>2, <3>5, <3>6, <3>7 DEF Balloting
  <2> QED
    BY <1>1, <2>2, <2>3, <2>4, <2>5, <2>6
<1> QED
  BY <1>2, <1>3, <1>4 DEF Vote

LEMMA BallotingByTalk ==
    ASSUME Shaped, Balloted, TalkStep
    PROVE  Balloting
<1>1. ASSUME NEW s \in sessions, Proceed(s) PROVE Balloting
  <2>1. s.team \in Scopes
    BY DEF Shaped, IsSession
  <2>2. UNCHANGED <<proposals, members>> \/ Apply(s.team)
    <3>1. CASE Enter(s) \/ Abort(s) \/ Break(s) \/ \E kind : Audited(s, kind)
      BY <3>1, Zenon DEF Enter, Abort, Break, Audited
    <3>2. ASSUME NEW errors, EndRound(s, errors) PROVE Apply(s.team)
      BY <3>2, Zenon DEF EndRound
    <3> QED
      BY <1>1, <3>1, <3>2, Zenon DEF Proceed
  <2> QED
    BY <2>1, <2>2, NoBalloting, BallotingByApply
<1>2. ASSUME NEW t, Call(t) \/ \E id : Acknowledge(t, id) PROVE Balloting
  <2>1. UNCHANGED <<proposals, members>>
    BY <1>2, Zenon DEF Call, Acknowledge
  <2> QED
    BY <2>1, NoBalloting
<1>3. ASSUME NEW m, Send(m) \/ SendReturns(m) PROVE Balloting
  <2>1. UNCHANGED <<proposals, members>>
    BY <1>3, Zenon DEF Send, SendReturns
  <2> QED
    BY <2>1, NoBalloting
<1> QED
  BY <1>1, <1>2, <1>3, BallotingByVote, Zenon DEF TalkStep

-----------------------------------------------------------------------------
(* Formations. *)

DraftTypes ==
    [status : {"none", "PENDING", "RUNNING", "READY", "STALE", "PUBLISHED", "FAILED", "CANCELLED"},
     request : Requests \cup {Initial}, base : Nat, candidate : Contents \cup {Nothing}]

\* One that proposes a new request exists only where such are allowed.
Drafty ==
    {x \in DraftTypes : /\ x.status # "none" /\ x.request = Initial => limit.initial
                        /\ x.status = "READY" => x.candidate \in Contents}
Publishable == {x \in Drafty : x.status # "none" /\ x.request \in Requests /\ x.candidate \in Contents}

Judged == Nat \X Agents \X Answers

\* The copies of an operation.
IsUndo(u) ==
    /\ u = [forms |-> u.forms, decided |-> u.decided, drafts |-> u.drafts, members |-> u.members,
            mail |-> u.mail, teams |-> u.teams]
    /\ \A q \in DOMAIN u.forms : u.forms[q] \in FormTypes
    /\ \A q \in DOMAIN u.decided : u.decided[q] \in SUBSET Judged
    /\ \A d \in DOMAIN u.drafts : u.drafts[d] \in Drafty
    /\ \A t \in DOMAIN u.members : u.members[t] \in SUBSET Agents
    /\ \A a \in DOMAIN u.mail : u.mail[a] \in SUBSET (Requests \X Nat)
    /\ \A T \in u.teams : Scopes \subseteq T /\ T \subseteq Scopes \cup Requests

IsCommit(f) ==
    /\ f = [requests |-> f.requests, drafts |-> f.drafts, undo |-> f.undo, after |-> f.after,
            kind |-> f.kind]
    /\ IsUndo(f.undo)
    /\ f.requests \subseteq Requests

\* A publication has the draft it will publish.
IsWait(w) ==
    /\ w = [draft |-> w.draft, own |-> w.own] /\ w.draft \in Drafts
    /\ w.own \subseteq Publishable
    /\ w.own = {} => drafts[w.draft] \in Publishable

Formed ==
    /\ forms \in [Requests -> FormTypes]
    /\ decided \in [Requests -> SUBSET Judged]
    /\ drafts \in [Drafts -> Drafty]
    /\ Scopes \subseteq teams /\ teams \subseteq Scopes \cup Requests
    /\ mail \in [Agents -> SUBSET (Requests \X Nat)]
    /\ \A f \in flight : IsCommit(f)
    /\ \A w \in waiting : IsWait(w)
    /\ \A x \in thinking : x.draft \in Drafts
    /\ limit.contents \subseteq Contents

UndoIs(F, D, R, M, L, T) ==
    [forms |-> F, decided |-> D, drafts |-> R, members |-> M, mail |-> L, teams |-> T]

LEMMA NewUndo ==
    ASSUME NEW F, NEW D, NEW R, NEW M, NEW L, NEW T,
           \A q \in DOMAIN F : F[q] \in FormTypes,
           \A q \in DOMAIN D : D[q] \in SUBSET Judged,
           \A d \in DOMAIN R : R[d] \in Drafty,
           \A t \in DOMAIN M : M[t] \in SUBSET Agents,
           \A a \in DOMAIN L : L[a] \in SUBSET (Requests \X Nat),
           \A x \in T : Scopes \subseteq x /\ x \subseteq Scopes \cup Requests
    PROVE  IsUndo(UndoIs(F, D, R, M, L, T))
BY DEF UndoIs, IsUndo

LEMMA FormFields ==
    ASSUME NEW f \in FormTypes
    PROVE  /\ \A k \in {"none", "collecting", "ready", "created", "abandoned"} :
                [f EXCEPT !.status = k] \in FormTypes
           /\ \A a \in Agents, k \in Answers : [f EXCEPT !.attitude[a] = k] \in FormTypes
           /\ \A a \in Agents, k \in {"no", "pending", "denied", "approved"} :
                [f EXCEPT !.late[a] = k] \in FormTypes
           /\ \A J \in SUBSET Agents : [f EXCEPT !.joined = J] \in FormTypes
BY DEF FormTypes

LEMMA RevisedFields ==
    ASSUME NEW f \in FormTypes, NEW c \in Contents, NEW s \in Drafts \cup {Nothing}, NEW r, r = Revised(f, c, s)
    PROVE  /\ r \in FormTypes
           /\ r.status = IF Content[c].invitees = {} /\ ~Content[c].auto THEN "ready" ELSE "collecting"
           /\ r.revisions = Append(f.revisions, [content |-> c, source |-> s])
           /\ r.attitude = [a \in Agents |-> IF a \in Content[c].invitees THEN "silent" ELSE "none"]
           /\ r.joined = {} /\ r.late = [a \in Agents |-> "no"]
<1> DEFINE k == IF Content[c].invitees = {} /\ ~Content[c].auto THEN "ready" ELSE "collecting"
           v == Append(f.revisions, [content |-> c, source |-> s])
           w == [a \in Agents |-> IF a \in Content[c].invitees THEN "silent" ELSE "none"]
<1>1. r = [status |-> k, revisions |-> v, attitude |-> w, joined |-> {}, late |-> [a \in Agents |-> "no"]]
  <2>1. r = [Unused EXCEPT !.status = k, !.revisions = v, !.attitude = w]
    BY DEF Revised
  <2> HIDE DEF k, v, w
  <2> QED
    BY <2>1 DEF Unused
<1>2. k \in {"collecting", "ready"}
  OBVIOUS
<1>3. v \in Seq([content : Contents, source : Drafts \cup {Nothing}])
  <2>1. f.revisions \in Seq([content : Contents, source : Drafts \cup {Nothing}])
    BY DEF FormTypes
  <2>2. [content |-> c, source |-> s] \in [content : Contents, source : Drafts \cup {Nothing}]
    OBVIOUS
  <2> QED
    BY <2>1, <2>2, AppendProperties
<1>4. w \in [Agents -> Answers \cup {"none"}]
  BY DEF Answers
<1> HIDE DEF k, v, w
<1>5. r \in FormTypes
  BY <1>1, <1>2, <1>3, <1>4 DEF FormTypes
<1> QED
  BY <1>1, <1>5 DEF k, v, w

-----------------------------------------------------------------------------
(* What a step may make of a formation F, its decisions D and the members M *)
(* of its AgentTeam.                                                        *)

Judge(D, n, a, answer) == {x \in D : x[1] # n \/ x[2] # a} \cup {<<n, a, answer>>}

Begun(q, F, D, M, G, E, N) ==
    /\ F.status = "none" /\ E = D /\ N = M
    /\ \E c \in Contents, s \in Drafts \cup {Nothing} : G = Revised(Unused, c, s)

Rewritten(q, F, D, M, G, E, N) ==
    /\ Open(F) /\ E = D /\ N = M
    /\ \E c \in Contents, s \in Drafts \cup {Nothing} :
         Last(F.revisions).content # c /\ G = Revised(F, c, s)

Answered(q, F, D, M, G, E, N) ==
    /\ Open(F) /\ N = M
    /\ \E a \in Agents, answer \in Answers :
         /\ F.attitude[a] \notin {"none", answer}
         /\ E = Judge(D, Revision(F), a, answer)
         /\ LET g == [F EXCEPT !.attitude[a] = answer]
                all == Accepted(g) = Invited(g)
            IN  G = [g EXCEPT !.status = IF all /\ ~Proposal(g).auto THEN "ready" ELSE "collecting"]

Realized(q, F, D, M, G, E, N) ==
    /\ Open(F) /\ E = D /\ N = Founders(q, F)
    /\ G = [F EXCEPT !.status = "created", !.joined = Accepted(F)]

Closing(q, F, D, M, G, E, N) ==
    /\ Open(F) /\ E = D /\ N = M
    /\ G = [F EXCEPT !.status = "abandoned"]

Joining(q, F, D, M, G, E, N) ==
    /\ F.status = "created"
    /\ \E a \in Agents :
         /\ N = M \cup {a}
         /\ G = [F EXCEPT !.attitude[a] = "accepted", !.joined = @ \cup {a}, !.late[a] = "approved"]
         /\ \/ /\ a \in Invited(F) \ F.joined /\ Proposal(F).late = "open"
               /\ E = Judge(D, Revision(F), a, "accepted")
            \/ F.late[a] = "pending" /\ E = D

Reconsidered(q, F, D, M, G, E, N) ==
    /\ F.status = "created" /\ N = M
    /\ \E a \in Invited(F) \ F.joined, answer \in Answers :
         /\ answer = "accepted" => Proposal(F).late \notin {"disabled", "open"}
         /\ E = Judge(D, Revision(F), a, answer)
         /\ G = [F EXCEPT !.attitude[a] = answer,
                          !.late[a] = IF answer = "accepted" THEN "pending" ELSE "no"]

Refused(q, F, D, M, G, E, N) ==
    /\ F.status = "created" /\ E = D /\ N = M
    /\ \E a \in Agents : F.late[a] = "pending" /\ G = [F EXCEPT !.late[a] = "denied"]

Moved(q, F, D, M, G, E, N) ==
    \/ G = F /\ E = D /\ N \in SUBSET M
    \/ Begun(q, F, D, M, G, E, N)
    \/ Rewritten(q, F, D, M, G, E, N)
    \/ Answered(q, F, D, M, G, E, N)
    \/ Realized(q, F, D, M, G, E, N)
    \/ \E H : Answered(q, F, D, M, H, E, M) /\ Realized(q, H, E, M, G, E, N)
    \/ Closing(q, F, D, M, G, E, N)
    \/ Joining(q, F, D, M, G, E, N)
    \/ Reconsidered(q, F, D, M, G, E, N)
    \/ Refused(q, F, D, M, G, E, N)

\* The decisions are those of the invited, and say what the invitations say.
Recorded(F, D) ==
    /\ Revision(F) > 0
    /\ Invited(F) = Proposal(F).invitees
    /\ \A x \in D : x[1] \in 1..Revision(F) /\ x[2] \in Content[F.revisions[x[1]].content].invitees
    /\ \A a \in Invited(F) :
         /\ \A x \in D : x[1] = Revision(F) /\ x[2] = a => x[3] = F.attitude[a]
         /\ F.attitude[a] # "silent" => <<Revision(F), a, F.attitude[a]>> \in D

\* G is F with another answer.
Heeds(F, G, a, answer) ==
    /\ G.revisions = F.revisions /\ G.attitude[a] = answer
    /\ \A b \in Agents \ {a} : G.attitude[b] = F.attitude[b]

\* What is true of a formation by itself.
Coherent(q, F, D) ==
    /\ F.status = "none" => D = {}
    /\ F.status # "none" => Recorded(F, D)
    /\ F.status # "none" => \A n \in 2..Revision(F) : F.revisions[n].content # F.revisions[n - 1].content
    /\ Open(F) => (F.status = "ready" <=> Accepted(F) = Invited(F) /\ ~Proposal(F).auto)
    /\ F.status # "created" => F.joined = {} /\ \A a \in Agents : F.late[a] = "no"
    /\ F.status = "created" =>
         /\ F.joined \subseteq Accepted(F)
         /\ \A a \in Agents : F.late[a] = "pending" =>
              Proposal(F).late = "confirm" /\ F.attitude[a] = "accepted" /\ a \notin F.joined
         /\ \A a \in Agents : F.late[a] = "denied" => a \notin F.joined
         /\ \A a \in Agents : F.late[a] = "approved" => a \in F.joined

\* ... and of the members of its AgentTeam.
Consented(q, F, D, M, P) ==
    F.status = "created" =>
        \A a \in M :
            \/ a = Initiator[q] /\ Proposal(F).joins
            \/ /\ <<Revision(F), a, "accepted">> \in D
               /\ a \in Proposal(F).invitees /\ a \in F.joined
            \/ Voted(P, q, a)

LEMMA BegunCoherent ==
    ASSUME NEW q \in Requests, NEW F \in FormTypes, NEW D \in SUBSET Judged, NEW M \in SUBSET Agents,
           NEW G, NEW E, NEW N, Coherent(q, F, D), Begun(q, F, D, M, G, E, N)
    PROVE  G \in FormTypes /\ E \in SUBSET Judged /\ N \in SUBSET Agents
           /\ Coherent(q, G, E) /\ \A P : Consented(q, G, E, N, P)
<1>1. PICK c \in Contents, s \in Drafts \cup {Nothing} : G = Revised(Unused, c, s)
  BY DEF Begun
<1>2. F.status = "none" /\ E = D /\ N = M /\ D = {}
  BY DEF Begun, Coherent
<1>3. Unused \in FormTypes /\ Unused.revisions = <<>>
  BY DEF Unused, FormTypes
<1>4. /\ G \in FormTypes
      /\ G.status = IF Content[c].invitees = {} /\ ~Content[c].auto THEN "ready" ELSE "collecting"
      /\ G.revisions = Append(<<>>, [content |-> c, source |-> s])
      /\ G.attitude = [a \in Agents |-> IF a \in Content[c].invitees THEN "silent" ELSE "none"]
      /\ G.joined = {} /\ G.late = [a \in Agents |-> "no"]
  BY <1>1, <1>3, RevisedFields
<1>5. G.revisions = <<[content |-> c, source |-> s]>>
  BY <1>4
<1>6. Revision(G) = 1 /\ Last(G.revisions) = [content |-> c, source |-> s]
  BY <1>5 DEF Revision, Last
<1>7. Proposal(G) = Content[c] /\ Content[c].invitees \in SUBSET Agents
  BY <1>6, FormationAssumption DEF Proposal
<1>8. Invited(G) = Content[c].invitees /\ Accepted(G) = {}
  BY <1>4, <1>7 DEF Invited, Accepted
<1>9. G.status # "created" /\ G.status # "none" /\ (G.status = "ready" <=> Content[c].invitees = {} /\ ~Content[c].auto)
  BY <1>4
<1>10. \A a \in Invited(G) : G.attitude[a] = "silent"
  BY <1>4, <1>7, <1>8
<1>11. Coherent(q, G, E)
  BY <1>2, <1>4, <1>6, <1>7, <1>8, <1>9, <1>10 DEF Coherent, Recorded, Open
<1> QED
  BY <1>2, <1>4, <1>9, <1>11 DEF Consented

LEMMA LastRevision ==
    ASSUME NEW F \in FormTypes, Revision(F) > 0
    PROVE  /\ Revision(F) \in Nat /\ Last(F.revisions) = F.revisions[Revision(F)]
           /\ Last(F.revisions).content \in Contents /\ Proposal(F) = Content[Last(F.revisions).content]
           /\ \A n \in 1..Revision(F) : F.revisions[n].content \in Contents
           /\ Proposal(F).invitees \in SUBSET Agents
<1>1. F.revisions \in Seq([content : Contents, source : Drafts \cup {Nothing}])
  BY DEF FormTypes
<1>2. Revision(F) \in Nat /\ \A n \in 1..Revision(F) : F.revisions[n] \in [content : Contents, source : Drafts \cup {Nothing}]
  <2> DEFINE E == [content : Contents, source : Drafts \cup {Nothing}]
  <2> HIDE DEF E
  <2>1. F.revisions \in Seq(E)
    BY <1>1 DEF E
  <2>2. Len(F.revisions) \in Nat /\ \A n \in 1..Len(F.revisions) : F.revisions[n] \in E
    BY <2>1
  <2> QED
    BY <2>2 DEF Revision, E
<1>3. Last(F.revisions) = F.revisions[Revision(F)]
  BY <1>1 DEF Last, Revision
<1>4. \A n \in 1..Revision(F) : F.revisions[n].content \in Contents
  BY <1>2
<1>5. Last(F.revisions).content \in Contents
  BY <1>2, <1>3, <1>4
<1>6. Proposal(F) = Content[Last(F.revisions).content]
  BY DEF Proposal
<1>7. Proposal(F).invitees \in SUBSET Agents
  BY <1>5, <1>6, FormationAssumption
<1> QED
  BY <1>2, <1>3, <1>4, <1>5, <1>6, <1>7

LEMMA RewrittenCoherent ==
    ASSUME NEW q \in Requests, NEW F \in FormTypes, NEW D \in SUBSET Judged, NEW M \in SUBSET Agents,
           NEW G, NEW E, NEW N, Coherent(q, F, D), Rewritten(q, F, D, M, G, E, N)
    PROVE  G \in FormTypes /\ E \in SUBSET Judged /\ N \in SUBSET Agents
           /\ Coherent(q, G, E) /\ \A P : Consented(q, G, E, N, P)
<1>1. PICK c \in Contents, s \in Drafts \cup {Nothing} :
        Last(F.revisions).content # c /\ G = Revised(F, c, s)
  BY DEF Rewritten
<1>2. Open(F) /\ F.status # "none" /\ E = D /\ N = M
  BY DEF Rewritten, Open
<1>3. /\ Revision(F) > 0
      /\ \A x \in D : x[1] \in 1..Revision(F) /\ x[2] \in Content[F.revisions[x[1]].content].invitees
      /\ \A n \in 2..Revision(F) : F.revisions[n].content # F.revisions[n - 1].content
  BY <1>2 DEF Coherent, Recorded
<1>4. /\ G \in FormTypes
      /\ G.status = IF Content[c].invitees = {} /\ ~Content[c].auto THEN "ready" ELSE "collecting"
      /\ G.revisions = Append(F.revisions, [content |-> c, source |-> s])
      /\ G.attitude = [a \in Agents |-> IF a \in Content[c].invitees THEN "silent" ELSE "none"]
      /\ G.joined = {} /\ G.late = [a \in Agents |-> "no"]
  BY <1>1, RevisedFields
<1>5. /\ Revision(F) \in Nat /\ Last(F.revisions) = F.revisions[Revision(F)]
  BY <1>3, LastRevision
<1>6. /\ Revision(G) = Revision(F) + 1
      /\ G.revisions[Revision(F) + 1] = [content |-> c, source |-> s]
      /\ \A n \in 1..Revision(F) : G.revisions[n] = F.revisions[n]
  <2>1. F.revisions \in Seq([content : Contents, source : Drafts \cup {Nothing}])
    BY DEF FormTypes
  <2>2. [content |-> c, source |-> s] \in [content : Contents, source : Drafts \cup {Nothing}]
    OBVIOUS
  <2> QED
    BY <1>4, <2>1, <2>2, AppendProperties DEF Revision
<1>7. Revision(G) > 0 /\ Last(G.revisions).content = c
  <2>1. Revision(G) > 0
    BY <1>5, <1>6
  <2>2. Last(G.revisions) = G.revisions[Revision(G)]
    BY <1>4, <2>1, LastRevision
  <2> QED
    BY <1>6, <2>1, <2>2
<1>8. Proposal(G) = Content[c] /\ Content[c].invitees \in SUBSET Agents
  BY <1>7, FormationAssumption DEF Proposal
<1>9. Invited(G) = Content[c].invitees /\ Accepted(G) = {}
  BY <1>4, <1>8 DEF Invited, Accepted
<1>10. G.status # "created" /\ G.status # "none" /\ (G.status = "ready" <=> Content[c].invitees = {} /\ ~Content[c].auto)
  BY <1>4
<1>11. \A a \in Invited(G) : G.attitude[a] = "silent"
  BY <1>4, <1>8, <1>9
<1>12. \A n \in 2..Revision(G) : G.revisions[n].content # G.revisions[n - 1].content
  <2> TAKE n \in 2..Revision(G)
  <2>1. CASE n = Revision(F) + 1
    BY <1>1, <1>3, <1>5, <1>6, <2>1
  <2>2. CASE n # Revision(F) + 1
    <3>1. n \in 2..Revision(F) /\ n \in 1..Revision(F) /\ n - 1 \in 1..Revision(F)
      BY <1>5, <1>6, <2>2
    <3> QED
      BY <1>3, <1>6, <3>1
  <2> QED
    BY <2>1, <2>2
<1>13. \A x \in D : x[1] \in 1..Revision(G) /\ x[1] # Revision(G)
                  /\ x[2] \in Content[G.revisions[x[1]].content].invitees
  BY <1>3, <1>5, <1>6
<1>14. Coherent(q, G, E)
  <2>1. /\ Revision(G) > 0
        /\ Invited(G) = Proposal(G).invitees
        /\ \A x \in E : x[1] \in 1..Revision(G) /\ x[2] \in Content[G.revisions[x[1]].content].invitees
        /\ \A a \in Invited(G) :
              /\ \A x \in E : x[1] = Revision(G) /\ x[2] = a => x[3] = G.attitude[a]
              /\ G.attitude[a] # "silent" => <<Revision(G), a, G.attitude[a]>> \in E
    BY <1>2, <1>7, <1>8, <1>9, <1>11, <1>13
  <2>2. G.status = "ready" <=> Accepted(G) = Invited(G) /\ ~Proposal(G).auto
    BY <1>8, <1>9, <1>10
  <2>3. G.joined = {} /\ \A a \in Agents : G.late[a] = "no"
    BY <1>4
  <2> QED
    <3>1. Recorded(G, E)
      BY <2>1 DEF Recorded
    <3> QED
      BY <1>10, <1>12, <2>2, <2>3, <3>1 DEF Coherent
<1> QED
  BY <1>2, <1>4, <1>10, <1>14 DEF Consented

LEMMA RealizedCoherent ==
    ASSUME NEW q \in Requests, NEW F \in FormTypes, NEW D \in SUBSET Judged, NEW M \in SUBSET Agents,
           NEW G, NEW E, NEW N, Coherent(q, F, D), Realized(q, F, D, M, G, E, N)
    PROVE  G \in FormTypes /\ E \in SUBSET Judged /\ N \in SUBSET Agents
           /\ Coherent(q, G, E) /\ \A P : Consented(q, G, E, N, P)
<1>1. Open(F) /\ F.status # "none" /\ F.status # "created" /\ E = D /\ N = Founders(q, F)
  BY DEF Realized, Open
<1>2. /\ Revision(F) > 0
      /\ Invited(F) = Proposal(F).invitees
      /\ \A x \in D : x[1] \in 1..Revision(F) /\ x[2] \in Content[F.revisions[x[1]].content].invitees
      /\ \A a \in Invited(F) :
              /\ \A x \in D : x[1] = Revision(F) /\ x[2] = a => x[3] = F.attitude[a]
              /\ F.attitude[a] # "silent" => <<Revision(F), a, F.attitude[a]>> \in D
      /\ \A n \in 2..Revision(F) : F.revisions[n].content # F.revisions[n - 1].content
      /\ \A a \in Agents : F.late[a] = "no"
  BY <1>1 DEF Coherent, Recorded, Open
<1>3. Accepted(F) \in SUBSET Agents /\ \A a \in Accepted(F) : F.attitude[a] = "accepted" /\ a \in Invited(F)
  BY DEF Accepted, Invited
<1>4. PICK J \in SUBSET Agents : J = Accepted(F)
  BY <1>3
<1>5. G = [[F EXCEPT !.status = "created"] EXCEPT !.joined = J]
  BY <1>4 DEF Realized
<1>6. /\ G \in FormTypes /\ G.status = "created" /\ G.joined = J
      /\ G.attitude = F.attitude /\ G.late = F.late /\ G.revisions = F.revisions
  BY <1>5 DEF FormTypes
<1>7. /\ Revision(G) = Revision(F) /\ Proposal(G) = Proposal(F)
      /\ Invited(G) = Invited(F) /\ Accepted(G) = Accepted(F)
  BY <1>6 DEF Revision, Proposal, Invited, Accepted
<1>8. Coherent(q, G, E)
  BY <1>1, <1>2, <1>4, <1>6, <1>7 DEF Coherent, Recorded, Open
<1>9. N \in SUBSET Agents
  <2>1. Initiator[q] \in Agents
    BY FormationAssumption
  <2> QED
    BY <1>1, <1>3, <2>1 DEF Founders
<1>10. ASSUME NEW P PROVE Consented(q, G, E, N, P)
  <2> SUFFICES ASSUME NEW a \in N PROVE
            \/ a = Initiator[q] /\ Proposal(G).joins
            \/ /\ <<Revision(G), a, "accepted">> \in E
               /\ a \in Proposal(G).invitees /\ a \in G.joined
    BY DEF Consented
  <2>1. a \in Accepted(F) \/ (a = Initiator[q] /\ Proposal(F).joins)
    BY <1>1 DEF Founders
  <2>2. CASE a \in Accepted(F)
    BY <1>1, <1>2, <1>3, <1>4, <1>6, <1>7, <2>2
  <2> QED
    BY <1>7, <2>1, <2>2
<1> QED
  BY <1>1, <1>6, <1>8, <1>9, <1>10

LEMMA ClosingCoherent ==
    ASSUME NEW q \in Requests, NEW F \in FormTypes, NEW D \in SUBSET Judged, NEW M \in SUBSET Agents,
           NEW G, NEW E, NEW N, Coherent(q, F, D), Closing(q, F, D, M, G, E, N)
    PROVE  G \in FormTypes /\ E \in SUBSET Judged /\ N \in SUBSET Agents
           /\ Coherent(q, G, E) /\ \A P : Consented(q, G, E, N, P)
<1>1. Open(F) /\ F.status # "none" /\ F.status # "created" /\ E = D /\ N = M
  BY DEF Closing, Open
<1>2. G = [F EXCEPT !.status = "abandoned"]
  BY DEF Closing
<1>3. /\ G \in FormTypes /\ G.status = "abandoned" /\ G.joined = F.joined
      /\ G.attitude = F.attitude /\ G.late = F.late /\ G.revisions = F.revisions
  BY <1>2 DEF FormTypes
<1>4. /\ Revision(G) = Revision(F) /\ Proposal(G) = Proposal(F)
      /\ Invited(G) = Invited(F) /\ Accepted(G) = Accepted(F)
  BY <1>3 DEF Revision, Proposal, Invited, Accepted
<1>5. Coherent(q, G, E)
  BY <1>1, <1>3, <1>4 DEF Coherent, Recorded, Open
<1> QED
  BY <1>1, <1>3, <1>5 DEF Consented

\* One field after another.
LEMMA AttitudeField ==
    ASSUME NEW F \in FormTypes, NEW a \in Agents, NEW answer \in Answers,
           NEW G, G = [F EXCEPT !.attitude[a] = answer]
    PROVE  /\ G \in FormTypes /\ G.status = F.status /\ G.revisions = F.revisions
           /\ G.attitude[a] = answer /\ \A b \in Agents \ {a} : G.attitude[b] = F.attitude[b]
           /\ G.joined = F.joined /\ G.late = F.late
BY DEF FormTypes

LEMMA FormStatusField ==
    ASSUME NEW F \in FormTypes, NEW k \in {"none", "collecting", "ready", "created", "abandoned"},
           NEW G, G = [F EXCEPT !.status = k]
    PROVE  /\ G \in FormTypes /\ G.status = k /\ G.revisions = F.revisions
           /\ G.attitude = F.attitude /\ G.joined = F.joined /\ G.late = F.late
BY DEF FormTypes

LEMMA LateField ==
    ASSUME NEW F \in FormTypes, NEW a \in Agents, NEW k \in {"no", "pending", "denied", "approved"},
           NEW G, G = [F EXCEPT !.late[a] = k]
    PROVE  /\ G \in FormTypes /\ G.status = F.status /\ G.revisions = F.revisions
           /\ G.attitude = F.attitude /\ G.joined = F.joined
           /\ G.late[a] = k /\ \A b \in Agents \ {a} : G.late[b] = F.late[b]
BY DEF FormTypes

LEMMA JoinedField ==
    ASSUME NEW F \in FormTypes, NEW J \in SUBSET Agents,
           NEW G, G = [F EXCEPT !.joined = J]
    PROVE  /\ G \in FormTypes /\ G.status = F.status /\ G.revisions = F.revisions
           /\ G.attitude = F.attitude /\ G.joined = J /\ G.late = F.late
BY DEF FormTypes

LEMMA JudgeType ==
    ASSUME NEW D \in SUBSET Judged, NEW n \in Nat, NEW a \in Agents, NEW answer \in Answers
    PROVE  Judge(D, n, a, answer) \in SUBSET Judged
BY DEF Judge, Judged

LEMMA HeedsKeeps ==
    ASSUME NEW F, NEW G, NEW a \in Invited(F), NEW answer \in Answers, Heeds(F, G, a, answer)
    PROVE  Revision(G) = Revision(F) /\ Proposal(G) = Proposal(F) /\ Invited(G) = Invited(F)
<1>a. a \in Agents /\ F.attitude[a] # "none"
  BY DEF Invited
<1>b. G.revisions = F.revisions /\ G.attitude[a] = answer /\ \A b \in Agents : b # a => G.attitude[b] = F.attitude[b]
  BY DEF Heeds
<1>2. /\ Revision(G) = Revision(F) /\ Proposal(G) = Proposal(F)
  BY <1>b DEF Revision, Proposal
<1>3. Invited(G) = Invited(F)
  <2>1. answer # "none"
    BY DEF Answers
  <2>2. \A b \in Agents : G.attitude[b] # "none" <=> F.attitude[b] # "none"
    BY <1>a, <1>b, <2>1
  <2> QED
    BY <2>2 DEF Invited
<1> QED
  BY <1>2, <1>3

LEMMA Judgement ==
    ASSUME NEW F \in FormTypes, NEW D \in SUBSET Judged, NEW a \in Invited(F), NEW answer \in Answers,
           NEW G, NEW E, E = Judge(D, Revision(F), a, answer), Recorded(F, D), Heeds(F, G, a, answer)
    PROVE  /\ <<Revision(F), a, answer>> \in E
           /\ Revision(G) = Revision(F) /\ Proposal(G) = Proposal(F) /\ Invited(G) = Invited(F)
           /\ Recorded(G, E)
<1>0. /\ Revision(F) > 0 /\ Invited(F) = Proposal(F).invitees
      /\ \A x \in D : x[1] \in 1..Revision(F) /\ x[2] \in Content[F.revisions[x[1]].content].invitees
      /\ \A b \in Invited(F) :
             /\ \A x \in D : x[1] = Revision(F) /\ x[2] = b => x[3] = F.attitude[b]
             /\ F.attitude[b] # "silent" => <<Revision(F), b, F.attitude[b]>> \in D
  BY DEF Recorded
<1>a. a \in Agents /\ F.attitude[a] # "none"
  BY DEF Invited
<1>c. \A b \in Invited(F) : F.attitude[b] # "silent" => <<Revision(F), b, F.attitude[b]>> \in D
  BY DEF Recorded
<1>b. G.revisions = F.revisions /\ G.attitude[a] = answer /\ \A b \in Agents : b # a => G.attitude[b] = F.attitude[b]
  BY DEF Heeds
<1>1. Revision(F) \in Nat /\ Proposal(F) = Content[F.revisions[Revision(F)].content]
  BY <1>0, LastRevision
<1>2. Revision(G) = Revision(F) /\ Proposal(G) = Proposal(F)
  BY HeedsKeeps
<1>3. Invited(G) = Invited(F)
  BY HeedsKeeps
<1>4. E \in SUBSET Judged
  BY <1>a, <1>1 DEF Judge, Judged
<1>5. \A x \in E : \/ x \in D /\ (x[1] # Revision(F) \/ x[2] # a)
                   \/ x = <<Revision(F), a, answer>>
  BY DEF Judge
<1>6. \A x \in D : x[1] # Revision(F) \/ x[2] # a => x \in E
  BY DEF Judge
<1>7. <<Revision(F), a, answer>> \in E
  BY DEF Judge
<1>8. \A b : b # a => \A v : <<Revision(F), b, v>> \in D => <<Revision(F), b, v>> \in E
  BY <1>6
<1>9. \A x \in E : x[1] \in 1..Revision(G) /\ x[2] \in Content[G.revisions[x[1]].content].invitees
  BY <1>0, <1>1, <1>2, <1>5, <1>b
<1>10. ASSUME NEW b \in Invited(G)
       PROVE  /\ \A x \in E : x[1] = Revision(G) /\ x[2] = b => x[3] = G.attitude[b]
              /\ G.attitude[b] # "silent" => <<Revision(G), b, G.attitude[b]>> \in E
  <2>1. b \in Invited(F) /\ b \in Agents
    BY <1>3 DEF Invited
  <2>2. CASE b = a
    <3>1. G.attitude[b] = answer
      BY <1>b, <2>2
    <3> QED
      BY <1>0, <1>2, <1>5, <1>7, <2>2, <3>1
  <2>3. CASE b # a
    <3>1. G.attitude[b] = F.attitude[b]
      BY <1>b, <2>1, <2>3
    <3>2. ASSUME NEW x \in E, x[1] = Revision(G), x[2] = b PROVE x[3] = G.attitude[b]
      <4>1. x \in D
        BY <1>5, <2>3, <3>2
      <4> QED
        BY <1>0, <1>2, <2>1, <3>1, <3>2, <4>1
    <3>3. ASSUME G.attitude[b] # "silent" PROVE <<Revision(G), b, G.attitude[b]>> \in E
      <4>1. <<Revision(F), b, F.attitude[b]>> \in D
        BY <1>c, <2>1, <3>1, <3>3
      <4>2. <<Revision(F), b, F.attitude[b]>> \in E
        BY <1>8, <2>3, <4>1
      <4> QED
        BY <1>2, <3>1, <4>2
    <3> QED
      BY <3>2, <3>3
  <2> QED
    BY <2>2, <2>3
<1> QED
  <2>1. Recorded(G, E)
    BY <1>0, <1>2, <1>3, <1>9, <1>10 DEF Recorded
  <2> QED
    BY <1>2, <1>3, <1>4, <1>7, <2>1

LEMMA AnsweredCoherent ==
    ASSUME NEW q \in Requests, NEW F \in FormTypes, NEW D \in SUBSET Judged, NEW M \in SUBSET Agents,
           NEW G, NEW E, NEW N, Coherent(q, F, D), Answered(q, F, D, M, G, E, N)
    PROVE  G \in FormTypes /\ E \in SUBSET Judged /\ N \in SUBSET Agents
           /\ Coherent(q, G, E) /\ \A P : Consented(q, G, E, N, P)
<1>1. PICK a \in Agents, answer \in Answers :
         /\ F.attitude[a] \notin {"none", answer}
         /\ E = Judge(D, Revision(F), a, answer)
         /\ LET g == [F EXCEPT !.attitude[a] = answer]
                all == Accepted(g) = Invited(g)
            IN  G = [g EXCEPT !.status = IF all /\ ~Proposal(g).auto THEN "ready" ELSE "collecting"]
  BY DEF Answered
<1>2. Open(F) /\ F.status # "none" /\ F.status # "created" /\ N = M
  BY DEF Answered, Open
<1>3. /\ Recorded(F, D)
      /\ \A n \in 2..Revision(F) : F.revisions[n].content # F.revisions[n - 1].content
      /\ F.joined = {} /\ \A b \in Agents : F.late[b] = "no"
  BY <1>2 DEF Coherent
<1>0. PICK g : g = [F EXCEPT !.attitude[a] = answer]
  OBVIOUS
<1> DEFINE k == IF Accepted(g) = Invited(g) /\ ~Proposal(g).auto THEN "ready" ELSE "collecting"
<1>4. G = [g EXCEPT !.status = k] /\ k \in {"ready", "collecting"}
  BY <1>0, <1>1
<1> HIDE DEF k
<1>5. /\ G \in FormTypes /\ G.status = k /\ G.revisions = F.revisions
      /\ G.attitude[a] = answer /\ \A b \in Agents \ {a} : G.attitude[b] = F.attitude[b]
      /\ G.joined = F.joined /\ G.late = F.late
      /\ G.attitude = g.attitude
  <2>1. a \in Agents /\ answer \in Answers
    BY <1>1
  <2>2. /\ g \in FormTypes /\ g.status = F.status /\ g.revisions = F.revisions
        /\ g.attitude[a] = answer /\ \A b \in Agents \ {a} : g.attitude[b] = F.attitude[b]
        /\ g.joined = F.joined /\ g.late = F.late
    BY <1>0, <2>1 DEF FormTypes
  <2>3. k \in {"none", "collecting", "ready", "created", "abandoned"}
    BY <1>4
  <2>4. /\ G \in FormTypes /\ G.status = k /\ G.revisions = g.revisions
        /\ G.attitude = g.attitude /\ G.joined = g.joined /\ G.late = g.late
    BY <1>4, <2>2, <2>3, FormStatusField
  <2> QED
    BY <2>2, <2>4
<1>6. g.attitude = G.attitude /\ g.revisions = G.revisions
  <2>1. g.revisions = F.revisions
    BY <1>0, <1>1 DEF FormTypes
  <2> QED
    BY <1>5, <2>1
<1>7. k = "ready" <=> Accepted(G) = Invited(G) /\ ~Proposal(G).auto
  BY <1>6 DEF Accepted, Invited, Proposal, k
<1>8. a \in Invited(F)
  BY <1>1 DEF Invited
<1>9. /\ E \in SUBSET Judged /\ Recorded(G, E)
      /\ Revision(G) = Revision(F) /\ Proposal(G) = Proposal(F) /\ Invited(G) = Invited(F)
  <2>1. E = Judge(D, Revision(F), a, answer) /\ answer \in Answers
    BY <1>1
  <2>2. Heeds(F, G, a, answer)
    BY <1>5 DEF Heeds
  <2> QED
    <3>1. \A x \in Invited(F), y \in Answers : \A h, e :
             e = Judge(D, Revision(F), x, y) /\ Recorded(F, D) /\ Heeds(F, h, x, y) => Recorded(h, e)
      BY Judgement, Zenon
    <3>2. Recorded(G, E)
      BY <1>3, <1>8, <2>1, <2>2, <3>1, Zenon
    <3>3. E \in SUBSET Judged
      <4>1. Revision(F) > 0
        BY <1>3 DEF Recorded
      <4>2. Revision(F) \in Nat
        BY <4>1, LastRevision
      <4>3. a \in Agents
        BY <1>1
      <4> QED
        BY <2>1, <4>2, <4>3, JudgeType
    <3>4. Revision(G) = Revision(F) /\ Proposal(G) = Proposal(F) /\ Invited(G) = Invited(F)
      BY <1>8, <2>1, <2>2, HeedsKeeps
    <3> QED
      BY <3>2, <3>3, <3>4
<1>10. G.status # "none" /\ G.status # "created"
  BY <1>4, <1>5
<1>11. Coherent(q, G, E)
  BY <1>3, <1>5, <1>7, <1>9, <1>10 DEF Coherent
<1> QED
  BY <1>2, <1>5, <1>9, <1>10, <1>11 DEF Consented

LEMMA JudgeKeeps ==
    ASSUME NEW D, NEW n, NEW a, NEW answer, NEW b, b # a, NEW k
    PROVE  <<n, b, k>> \in D => <<n, b, k>> \in Judge(D, n, a, answer)
BY DEF Judge

\* An answer that comes after creation.
Settles(F, G, a, answer) ==
    /\ \A b \in Agents : b # a => G.late[b] = F.late[b]
    /\ \/ G.joined = F.joined /\ G.late[a] \in {"no", "denied"}
       \/ /\ G.joined = F.joined /\ G.late[a] = "pending"
          /\ answer = "accepted" /\ Proposal(F).late = "confirm"
       \/ G.joined = F.joined \cup {a} /\ G.late[a] = "approved" /\ answer = "accepted"

LEMMA LateCoherent ==
    ASSUME NEW q \in Requests, NEW F \in FormTypes, NEW D, Coherent(q, F, D), F.status = "created",
           NEW a \in Invited(F), NEW answer \in Answers, a \notin F.joined,
           NEW G \in FormTypes, NEW E, G.status = "created", Heeds(F, G, a, answer), Recorded(G, E),
           Settles(F, G, a, answer)
    PROVE  Coherent(q, G, E)
<1>1. Revision(G) = Revision(F) /\ Proposal(G) = Proposal(F) /\ Invited(G) = Invited(F)
  BY HeedsKeeps
<1>2. G.revisions = F.revisions /\ G.attitude[a] = answer /\ \A b \in Agents : b # a => G.attitude[b] = F.attitude[b]
  BY DEF Heeds
<1>s. /\ \A b \in Agents : b # a => G.late[b] = F.late[b]
      /\ \/ G.joined = F.joined /\ G.late[a] \in {"no", "denied"}
         \/ /\ G.joined = F.joined /\ G.late[a] = "pending"
            /\ answer = "accepted" /\ Proposal(F).late = "confirm"
         \/ G.joined = F.joined \cup {a} /\ G.late[a] = "approved" /\ answer = "accepted"
  BY DEF Settles
<1>3. /\ \A n \in 2..Revision(F) : F.revisions[n].content # F.revisions[n - 1].content
      /\ F.joined \subseteq Accepted(F)
      /\ \A b \in Agents : F.late[b] = "pending" =>
              Proposal(F).late = "confirm" /\ F.attitude[b] = "accepted" /\ b \notin F.joined
      /\ \A b \in Agents : F.late[b] = "denied" => b \notin F.joined
      /\ \A b \in Agents : F.late[b] = "approved" => b \in F.joined
  BY DEF Coherent
<1>4. \A n \in 2..Revision(G) : G.revisions[n].content # G.revisions[n - 1].content
  BY <1>1, <1>2, <1>3
<1>5. a \in Agents /\ \A b \in F.joined : b # a /\ b \in Agents /\ F.attitude[b] = "accepted"
  BY <1>3 DEF Accepted, Invited
<1>6. G.joined \subseteq Accepted(G)
  BY <1>s, <1>2, <1>5 DEF Accepted
<1>7. ASSUME NEW b \in Agents, G.late[b] = "pending"
      PROVE  Proposal(G).late = "confirm" /\ G.attitude[b] = "accepted" /\ b \notin G.joined
  BY <1>1, <1>2, <1>3, <1>7, <1>s
<1>8. \A b \in Agents : G.late[b] = "denied" => b \notin G.joined
  BY <1>3, <1>s
<1>9. \A b \in Agents : G.late[b] = "approved" => b \in G.joined
  BY <1>3, <1>s
<1> QED
  BY <1>4, <1>6, <1>7, <1>8, <1>9 DEF Coherent, Open

LEMMA SameRecorded ==
    ASSUME NEW F, NEW G, NEW D, Recorded(F, D), G.revisions = F.revisions, G.attitude = F.attitude
    PROVE  Recorded(G, D)
<1>1. Revision(G) = Revision(F) /\ Proposal(G) = Proposal(F) /\ Invited(G) = Invited(F)
  BY DEF Revision, Proposal, Invited
<1> QED
  BY <1>1 DEF Recorded

LEMMA JudgementRecorded ==
    ASSUME NEW F \in FormTypes, NEW D \in SUBSET Judged, NEW a \in Invited(F), NEW answer \in Answers,
           NEW G, Recorded(F, D), Heeds(F, G, a, answer)
    PROVE  Recorded(G, Judge(D, Revision(F), a, answer))
<1>1. \A h, e : e = Judge(D, Revision(F), a, answer) /\ Heeds(F, h, a, answer) => Recorded(h, e)
  BY Judgement, Zenon
<1>2. PICK E : E = Judge(D, Revision(F), a, answer)
  OBVIOUS
<1> QED
  BY <1>1, <1>2

LEMMA JoiningCoherent ==
    ASSUME NEW q \in Requests, NEW F \in FormTypes, NEW D \in SUBSET Judged, NEW M \in SUBSET Agents,
           NEW G, NEW E, NEW N, Coherent(q, F, D), Joining(q, F, D, M, G, E, N)
    PROVE  G \in FormTypes /\ E \in SUBSET Judged /\ N \in SUBSET Agents
           /\ Coherent(q, G, E) /\ \A P : Consented(q, F, D, M, P) => Consented(q, G, E, N, P)
<1>1. PICK a \in Agents :
         /\ N = M \cup {a}
         /\ G = [F EXCEPT !.attitude[a] = "accepted", !.joined = @ \cup {a}, !.late[a] = "approved"]
         /\ \/ /\ a \in Invited(F) \ F.joined /\ Proposal(F).late = "open"
               /\ E = Judge(D, Revision(F), a, "accepted")
            \/ F.late[a] = "pending" /\ E = D
  BY DEF Joining
<1>2. a \in Agents /\ a \in Invited(F) /\ a \notin F.joined /\ F.status = "created"
  <2>1. F.status = "created"
    BY DEF Joining
  <2>2. CASE F.late[a] = "pending"
    <3>1. F.attitude[a] = "accepted" /\ a \notin F.joined
      BY <1>1, <2>1, <2>2 DEF Coherent
    <3> QED
      BY <1>1, <2>1, <3>1 DEF Invited
  <2> QED
    BY <1>1, <2>1, <2>2
<1>3. PICK v : v = "accepted" /\ v \in Answers
  BY DEF Answers
<1>4. /\ G \in FormTypes /\ G.status = "created" /\ Heeds(F, G, a, v)
      /\ G.revisions = F.revisions /\ G.joined = F.joined \cup {a} /\ G.late[a] = "approved"
      /\ \A b \in Agents : b # a => G.late[b] = F.late[b]
      /\ (F.attitude[a] = v => G.attitude = F.attitude)
  <2> DEFINE g == [F EXCEPT !.attitude[a] = v]
             h == [g EXCEPT !.joined = F.joined \cup {a}]
  <2>1. G = [h EXCEPT !.late[a] = "approved"]
    BY <1>1, <1>3
  <2>2. /\ g \in FormTypes /\ g.status = F.status /\ g.revisions = F.revisions
        /\ g.attitude[a] = v /\ \A b \in Agents \ {a} : g.attitude[b] = F.attitude[b]
        /\ g.joined = F.joined /\ g.late = F.late
        /\ (F.attitude[a] = v => g.attitude = F.attitude)
    BY <1>2, <1>3 DEF FormTypes
  <2> HIDE DEF g
  <2>3. F.joined \cup {a} \in SUBSET Agents
    BY <1>2 DEF FormTypes
  <2>4. /\ h \in FormTypes /\ h.status = g.status /\ h.revisions = g.revisions
        /\ h.attitude = g.attitude /\ h.joined = F.joined \cup {a} /\ h.late = g.late
    BY <2>2, <2>3 DEF FormTypes
  <2> HIDE DEF h
  <2>5. /\ G \in FormTypes /\ G.status = h.status /\ G.revisions = h.revisions
        /\ G.attitude = h.attitude /\ G.joined = h.joined
        /\ G.late[a] = "approved" /\ \A b \in Agents \ {a} : G.late[b] = h.late[b]
    BY <1>2, <2>1, <2>4 DEF FormTypes
  <2>6. Heeds(F, G, a, v)
    BY <2>2, <2>4, <2>5 DEF Heeds
  <2> QED
    BY <1>2, <2>2, <2>4, <2>5, <2>6
<1>5. Recorded(F, D)
  BY <1>2 DEF Coherent
<1>6. Revision(G) = Revision(F) /\ Proposal(G) = Proposal(F) /\ Invited(G) = Invited(F)
  BY <1>2, <1>3, <1>4, HeedsKeeps
<1>7. Revision(F) \in Nat /\ Invited(F) = Proposal(F).invitees
  <2>1. Revision(F) > 0 /\ Invited(F) = Proposal(F).invitees
    BY <1>5 DEF Recorded
  <2> QED
    BY <2>1, LastRevision
<1>8. E \in SUBSET Judged /\ Recorded(G, E) /\ <<Revision(F), a, v>> \in E
  <2>1. CASE E = Judge(D, Revision(F), a, "accepted")
    <3>1. E = Judge(D, Revision(F), a, v)
      BY <1>3, <2>1
    <3>2. E \in SUBSET Judged
      BY <1>2, <1>3, <1>7, <3>1, JudgeType
    <3>3. Recorded(G, E)
      BY <1>2, <1>3, <1>4, <1>5, <3>1, JudgementRecorded
    <3>4. <<Revision(F), a, v>> \in E
      BY <3>1 DEF Judge
    <3> QED
      BY <3>2, <3>3, <3>4
  <2>2. CASE F.late[a] = "pending" /\ E = D
    <3>1. F.attitude[a] = v
      <4>1. \A b \in Agents : F.late[b] = "pending" => F.attitude[b] = "accepted"
        BY <1>2 DEF Coherent
      <4> QED
        BY <1>2, <1>3, <2>2, <4>1
    <3>2. Recorded(G, E)
      <4>1. G.revisions = F.revisions /\ G.attitude = F.attitude
        BY <1>4, <3>1
      <4>2. Recorded(G, D)
        BY <1>5, <4>1, SameRecorded, Zenon
      <4> QED
        BY <2>2, <4>2
    <3>3. <<Revision(F), a, F.attitude[a]>> \in D
      <4>1. \A b \in Invited(F) : F.attitude[b] # "silent" => <<Revision(F), b, F.attitude[b]>> \in D
        BY <1>5 DEF Recorded
      <4> QED
        BY <1>2, <1>3, <3>1, <4>1
    <3> QED
      BY <2>2, <3>1, <3>2, <3>3
  <2> QED
    BY <1>1, <2>1, <2>2
<1>9. Coherent(q, G, E)
  <2>1. Settles(F, G, a, v)
    BY <1>3, <1>4 DEF Settles
  <2> QED
    BY <1>2, <1>3, <1>4, <1>8, <2>1, LateCoherent
<1>10. ASSUME NEW P, Consented(q, F, D, M, P) PROVE Consented(q, G, E, N, P)
  <2> SUFFICES ASSUME NEW b \in N PROVE
            \/ b = Initiator[q] /\ Proposal(G).joins
            \/ /\ <<Revision(G), b, "accepted">> \in E
               /\ b \in Proposal(G).invitees /\ b \in G.joined
            \/ Voted(P, q, b)
    BY DEF Consented
  <2>1. CASE b = a
    BY <1>2, <1>3, <1>4, <1>6, <1>7, <1>8, <2>1
  <2>2. CASE b # a
    <3>1. \/ b = Initiator[q] /\ Proposal(F).joins
          \/ /\ <<Revision(F), b, "accepted">> \in D
             /\ b \in Proposal(F).invitees /\ b \in F.joined
          \/ Voted(P, q, b)
      BY <1>1, <1>2, <1>10, <2>2 DEF Consented
    <3>2. <<Revision(F), b, "accepted">> \in D => <<Revision(F), b, "accepted">> \in E
      <4>1. CASE E = D
        BY <4>1
      <4>2. CASE E = Judge(D, Revision(F), a, "accepted")
        BY <2>2, <4>2 DEF Judge
      <4> QED
        BY <1>1, <4>1, <4>2
    <3> QED
      BY <1>4, <1>6, <3>1, <3>2
  <2> QED
    BY <2>1, <2>2
<1> QED
  BY <1>1, <1>2, <1>4, <1>8, <1>9, <1>10

LEMMA ReconsideredCoherent ==
    ASSUME NEW q \in Requests, NEW F \in FormTypes, NEW D \in SUBSET Judged, NEW M \in SUBSET Agents,
           NEW G, NEW E, NEW N, Coherent(q, F, D), Reconsidered(q, F, D, M, G, E, N)
    PROVE  G \in FormTypes /\ E \in SUBSET Judged /\ N \in SUBSET Agents
           /\ Coherent(q, G, E) /\ \A P : Consented(q, F, D, M, P) => Consented(q, G, E, N, P)
<1>1. PICK a \in Invited(F) \ F.joined, v \in Answers :
         /\ v = "accepted" => Proposal(F).late \notin {"disabled", "open"}
         /\ E = Judge(D, Revision(F), a, v)
         /\ G = [F EXCEPT !.attitude[a] = v,
                          !.late[a] = IF v = "accepted" THEN "pending" ELSE "no"]
  BY DEF Reconsidered
<1>2. a \in Agents /\ a \in Invited(F) /\ a \notin F.joined /\ F.status = "created" /\ N = M
  BY <1>1 DEF Invited, Reconsidered
<1>3. PICK k \in {"no", "pending"} : k = IF v = "accepted" THEN "pending" ELSE "no"
  OBVIOUS
<1>4. /\ G \in FormTypes /\ G.status = "created" /\ Heeds(F, G, a, v)
      /\ G.joined = F.joined /\ G.late[a] = k
      /\ \A b \in Agents : b # a => G.late[b] = F.late[b]
  <2> DEFINE g == [F EXCEPT !.attitude[a] = v]
  <2>1. G = [g EXCEPT !.late[a] = k]
    BY <1>1, <1>3
  <2>2. /\ g \in FormTypes /\ g.status = F.status /\ g.revisions = F.revisions
        /\ g.attitude[a] = v /\ \A b \in Agents \ {a} : g.attitude[b] = F.attitude[b]
        /\ g.joined = F.joined /\ g.late = F.late
    BY <1>1, <1>2 DEF FormTypes
  <2> HIDE DEF g
  <2>5. /\ G \in FormTypes /\ G.status = g.status /\ G.revisions = g.revisions
        /\ G.attitude = g.attitude /\ G.joined = g.joined
        /\ G.late[a] = k /\ \A b \in Agents \ {a} : G.late[b] = g.late[b]
    BY <1>2, <1>3, <2>1, <2>2, SMTT(60) DEF FormTypes
  <2>6. Heeds(F, G, a, v)
    BY <2>2, <2>5 DEF Heeds
  <2> QED
    BY <1>2, <2>2, <2>5, <2>6
<1>5. Recorded(F, D)
  BY <1>2 DEF Coherent
<1>6. Revision(G) = Revision(F) /\ Proposal(G) = Proposal(F) /\ Invited(G) = Invited(F)
  BY <1>1, <1>2, <1>4, HeedsKeeps
<1>7. Revision(F) \in Nat /\ Proposal(F).late \in {"disabled", "open", "confirm"}
  <2>1. Revision(F) > 0
    BY <1>5 DEF Recorded
  <2>2. Revision(F) \in Nat /\ Last(F.revisions).content \in Contents /\ Proposal(F) = Content[Last(F.revisions).content]
    BY <2>1, LastRevision
  <2> QED
    BY <2>2, FormationAssumption
<1>8. E \in SUBSET Judged /\ Recorded(G, E)
  BY <1>1, <1>2, <1>4, <1>5, <1>7, JudgeType, JudgementRecorded
<1>9. Coherent(q, G, E)
  <2>1. k = "no" \/ (k = "pending" /\ v = "accepted" /\ Proposal(F).late = "confirm")
    BY <1>1, <1>3, <1>7
  <2>2. Settles(F, G, a, v)
    BY <1>4, <2>1 DEF Settles
  <2> QED
    <3>1. v \in Answers
      BY <1>1
    <3> QED
      BY <1>2, <1>4, <1>8, <2>2, <3>1, LateCoherent
<1>10. ASSUME NEW P, Consented(q, F, D, M, P) PROVE Consented(q, G, E, N, P)
  <2> SUFFICES ASSUME NEW b \in N PROVE
            \/ b = Initiator[q] /\ Proposal(G).joins
            \/ /\ <<Revision(G), b, "accepted">> \in E
               /\ b \in Proposal(G).invitees /\ b \in G.joined
            \/ Voted(P, q, b)
    BY DEF Consented
  <2>1. \/ b = Initiator[q] /\ Proposal(F).joins
        \/ /\ <<Revision(F), b, "accepted">> \in D
           /\ b \in Proposal(F).invitees /\ b \in F.joined
        \/ Voted(P, q, b)
    BY <1>2, <1>10 DEF Consented
  <2>2. b \in F.joined /\ <<Revision(F), b, "accepted">> \in D => <<Revision(F), b, "accepted">> \in E
    BY <1>1, <1>2, JudgeKeeps
  <2> QED
    BY <1>4, <1>6, <2>1, <2>2
<1> QED
  BY <1>2, <1>4, <1>8, <1>9, <1>10

LEMMA RefusedCoherent ==
    ASSUME NEW q \in Requests, NEW F \in FormTypes, NEW D \in SUBSET Judged, NEW M \in SUBSET Agents,
           NEW G, NEW E, NEW N, Coherent(q, F, D), Refused(q, F, D, M, G, E, N)
    PROVE  G \in FormTypes /\ E \in SUBSET Judged /\ N \in SUBSET Agents
           /\ Coherent(q, G, E) /\ \A P : Consented(q, F, D, M, P) => Consented(q, G, E, N, P)
<1>1. PICK a \in Agents : F.late[a] = "pending" /\ G = [F EXCEPT !.late[a] = "denied"]
  BY DEF Refused
<1>2. F.status = "created" /\ E = D /\ N = M /\ a \in Agents
  BY <1>1 DEF Refused
<1>3. /\ G \in FormTypes /\ G.status = "created" /\ G.revisions = F.revisions
      /\ G.attitude = F.attitude /\ G.joined = F.joined
      /\ G.late[a] = "denied" /\ \A b \in Agents : b # a => G.late[b] = F.late[b]
  BY <1>1, <1>2 DEF FormTypes
<1>4. /\ Recorded(F, D) /\ F.attitude[a] = "accepted" /\ a \notin F.joined
  BY <1>1, <1>2 DEF Coherent
<1>5. PICK v : v = "accepted" /\ v \in Answers
  BY DEF Answers
<1>6. Heeds(F, G, a, v) /\ a \in Invited(F)
  BY <1>2, <1>3, <1>4, <1>5 DEF Heeds, Invited
<1>7. Recorded(G, E)
  BY <1>2, <1>3, <1>4, SameRecorded
<1>8. Coherent(q, G, E)
  <2>1. Settles(F, G, a, v)
    BY <1>3 DEF Settles
  <2> QED
    BY <1>2, <1>3, <1>4, <1>5, <1>6, <1>7, <2>1, LateCoherent
<1>9. Revision(G) = Revision(F) /\ Proposal(G) = Proposal(F)
  BY <1>3 DEF Revision, Proposal
<1>10. \A P : Consented(q, F, D, M, P) => Consented(q, G, E, N, P)
  BY <1>2, <1>3, <1>9 DEF Consented
<1> QED
  BY <1>2, <1>3, <1>8, <1>10

LEMMA MovedCoherent ==
    ASSUME NEW q \in Requests, NEW F \in FormTypes, NEW D \in SUBSET Judged, NEW M \in SUBSET Agents,
           NEW G, NEW E, NEW N, Coherent(q, F, D), Moved(q, F, D, M, G, E, N)
    PROVE  G \in FormTypes /\ E \in SUBSET Judged /\ N \in SUBSET Agents
           /\ Coherent(q, G, E) /\ \A P : Consented(q, F, D, M, P) => Consented(q, G, E, N, P)
<1> DEFINE Goal == G \in FormTypes /\ E \in SUBSET Judged /\ N \in SUBSET Agents
           /\ Coherent(q, G, E) /\ \A P : Consented(q, F, D, M, P) => Consented(q, G, E, N, P)
<1>1. CASE G = F /\ E = D /\ N \in SUBSET M
  BY <1>1 DEF Consented
<1>2. CASE Begun(q, F, D, M, G, E, N)
  BY <1>2, BegunCoherent, Zenon
<1>3. CASE Rewritten(q, F, D, M, G, E, N)
  BY <1>3, RewrittenCoherent, Zenon
<1>4. CASE Answered(q, F, D, M, G, E, N)
  BY <1>4, AnsweredCoherent, Zenon
<1>5. CASE Realized(q, F, D, M, G, E, N)
  BY <1>5, RealizedCoherent, Zenon
<1>6. ASSUME NEW H, Answered(q, F, D, M, H, E, M), Realized(q, H, E, M, G, E, N) PROVE Goal
  <2>1. H \in FormTypes /\ E \in SUBSET Judged /\ Coherent(q, H, E)
    BY <1>6, AnsweredCoherent, Zenon
  <2>2. Goal
    BY <1>6, <2>1, RealizedCoherent, Zenon
  <2> QED
    BY <2>2
<1>7. CASE Closing(q, F, D, M, G, E, N)
  BY <1>7, ClosingCoherent, Zenon
<1>8. CASE Joining(q, F, D, M, G, E, N)
  BY <1>8, JoiningCoherent, Zenon
<1>9. CASE Reconsidered(q, F, D, M, G, E, N)
  BY <1>9, ReconsideredCoherent, Zenon
<1>10. CASE Refused(q, F, D, M, G, E, N)
  BY <1>10, RefusedCoherent, Zenon
<1> QED
  BY <1>1, <1>2, <1>3, <1>4, <1>5, <1>6, <1>7, <1>8, <1>9, <1>10, Zenon DEF Moved

-----------------------------------------------------------------------------
(* What a step of a formation does, but for one that fails.                *)

At(u, f, q) == IF q \in DOMAIN u THEN u[q] ELSE f[q]

\* A commit that begins: it would put back what it has changed, and nothing
\* that another has locked.  Only a publication locks no request.
NewCommit(c) ==
    /\ IsCommit(c)
    /\ \A q \in c.requests : LockFree(q)
    /\ \/ limit.initial
       \/ DOMAIN c.undo.forms \subseteq c.requests /\ \A q \in DOMAIN c.undo.forms : forms[q].status # "none"
    /\ DOMAIN c.undo.decided \subseteq DOMAIN c.undo.forms
    /\ DOMAIN c.undo.members \subseteq DOMAIN c.undo.forms
    /\ \A q \in c.requests :
         /\ At(c.undo.forms, forms', q) = forms[q]
         /\ At(c.undo.decided, decided', q) = decided[q]
         /\ At(c.undo.members, members', q) = members[q] \/ forms[q].status # "created"
    /\ c.kind = "auto" =>
         DOMAIN c.undo.forms = c.requests /\ c.undo.members = <<>> /\ decided' = decided

\* Of each request, and of the members of its AgentTeam.
Shifted ==
    /\ forms' \in [Requests -> FormTypes] /\ decided' \in [Requests -> SUBSET Judged]
    /\ members' \in [Scopes \cup Requests -> SUBSET Agents]
    /\ \A q \in Requests :
         /\ Moved(q, forms[q], decided[q], members[q], forms'[q], decided'[q], members'[q])
         /\ forms'[q] # forms[q] \/ decided'[q] # decided[q] => LockFree(q) \/ forms[q].status = "none"
    /\ \A t \in Scopes \cup Requests : members'[t] # members[t] =>
         LockFree(t) \/ (StateLockFree(t) /\ members'[t] \subseteq members[t])

Advance ==
    /\ Shifted
    /\ Formed'
    /\ flight' = flight \/ \E c : flight' = flight \cup {c} /\ NewCommit(c)
    /\ \/ members' = members \/ Adds("leaves")
       \/ \E c : flight' = flight \cup {c} /\ NewCommit(c) /\ c.requests # {}

LEMMA SetAttitude ==
    ASSUME NEW F \in FormTypes, NEW a \in Agents, NEW v \in Answers
    PROVE  [F EXCEPT !.attitude[a] = v] \in FormTypes
BY DEF FormTypes

LEMMA SetStatus ==
    ASSUME NEW F \in FormTypes, NEW k \in {"none", "collecting", "ready", "created", "abandoned"}
    PROVE  [F EXCEPT !.status = k] \in FormTypes
BY DEF FormTypes

LEMMA SetLate ==
    ASSUME NEW F \in FormTypes, NEW a \in Agents, NEW k \in {"no", "pending", "denied", "approved"}
    PROVE  [F EXCEPT !.late[a] = k] \in FormTypes
BY DEF FormTypes

LEMMA SetJoined ==
    ASSUME NEW F \in FormTypes, NEW J \in SUBSET Agents
    PROVE  [F EXCEPT !.joined = J] \in FormTypes /\ [F EXCEPT !.joined = J].late = F.late
BY DEF FormTypes

LEMMA RevisionType == ASSUME NEW F \in FormTypes PROVE Revision(F) \in Nat
<1> DEFINE S == [content : Contents, source : Drafts \cup {Nothing}]
<1>1. F.revisions \in Seq(S)
  BY DEF FormTypes
<1> HIDE DEF S
<1> QED
  BY <1>1 DEF Revision

LEMMA AnsweredTypes ==
    ASSUME NEW q \in Requests, NEW F \in FormTypes, NEW D \in SUBSET Judged, NEW M \in SUBSET Agents,
           NEW G, NEW E, NEW N, Answered(q, F, D, M, G, E, N)
    PROVE  G \in FormTypes /\ E \in SUBSET Judged
<1>1. PICK a \in Agents, v \in Answers :
         /\ E = Judge(D, Revision(F), a, v)
         /\ LET g == [F EXCEPT !.attitude[a] = v]
                all == Accepted(g) = Invited(g)
            IN  G = [g EXCEPT !.status = IF all /\ ~Proposal(g).auto THEN "ready" ELSE "collecting"]
  BY DEF Answered
<1>2. E \in SUBSET Judged
  BY <1>1, RevisionType, JudgeType
<1>3. PICK g : g = [F EXCEPT !.attitude[a] = v]
  OBVIOUS
<1>4. g \in FormTypes
  BY <1>1, <1>3, SetAttitude
<1>5. PICK k \in {"ready", "collecting"} : G = [g EXCEPT !.status = k]
  BY <1>1, <1>3
<1> QED
  BY <1>2, <1>4, <1>5, SetStatus

LEMMA MovedTypes ==
    ASSUME NEW q \in Requests, NEW F \in FormTypes, NEW D \in SUBSET Judged, NEW M \in SUBSET Agents,
           NEW G, NEW E, NEW N, Moved(q, F, D, M, G, E, N)
    PROVE  G \in FormTypes /\ E \in SUBSET Judged /\ N \in SUBSET Agents
<1> DEFINE Goal == G \in FormTypes /\ E \in SUBSET Judged /\ N \in SUBSET Agents
<1>0. Initiator[q] \in Agents /\ Unused \in FormTypes
  BY FormationAssumption DEF Unused, FormTypes
<1>1. CASE G = F /\ E = D /\ N \in SUBSET M
  BY <1>1
<1>2. CASE Begun(q, F, D, M, G, E, N) \/ Rewritten(q, F, D, M, G, E, N)
  <2>1. PICK H \in FormTypes, c \in Contents, s \in Drafts \cup {Nothing} : G = Revised(H, c, s)
    BY <1>0, <1>2 DEF Begun, Rewritten
  <2>2. G \in FormTypes
    BY <2>1, RevisedFields
  <2> QED
    BY <1>2, <2>2 DEF Begun, Rewritten
<1>3. CASE Answered(q, F, D, M, G, E, N)
  <2>1. N = M
    BY <1>3 DEF Answered
  <2> QED
    BY <1>3, <2>1, AnsweredTypes
<1>4. ASSUME NEW H \in FormTypes, NEW K \in SUBSET Judged, Realized(q, H, K, M, G, E, N) PROVE Goal
  <2>1. E = K /\ N = Founders(q, H) /\ G = [H EXCEPT !.status = "created", !.joined = Accepted(H)]
    BY <1>4 DEF Realized
  <2>2. PICK J \in SUBSET Agents : J = Accepted(H)
    BY DEF Accepted
  <2>3. PICK g : g = [H EXCEPT !.status = "created"]
    OBVIOUS
  <2>4. g \in FormTypes
    BY <2>3, SetStatus
  <2>5. G = [g EXCEPT !.joined = J]
    BY <2>1, <2>2, <2>3
  <2>6. G \in FormTypes
    BY <2>4, <2>5, SetJoined
  <2>7. N \in SUBSET Agents
    BY <1>0, <2>1, <2>2 DEF Founders
  <2> QED
    BY <2>1, <2>6, <2>7
<1>5. CASE Realized(q, F, D, M, G, E, N)
  BY <1>4, <1>5
<1>6. ASSUME NEW H, Answered(q, F, D, M, H, E, M), Realized(q, H, E, M, G, E, N) PROVE Goal
  BY <1>4, <1>6, AnsweredTypes
<1>7. CASE Closing(q, F, D, M, G, E, N)
  BY <1>7, SetStatus DEF Closing
<1>8. CASE Joining(q, F, D, M, G, E, N)
  <2>1. PICK a \in Agents :
         /\ N = M \cup {a}
         /\ G = [F EXCEPT !.attitude[a] = "accepted", !.joined = @ \cup {a}, !.late[a] = "approved"]
         /\ E = Judge(D, Revision(F), a, "accepted") \/ E = D
    BY <1>8 DEF Joining
  <2>2. a \in Agents /\ "accepted" \in Answers /\ F.joined \cup {a} \in SUBSET Agents
    BY DEF Invited, Answers, FormTypes
  <2>3. E \in SUBSET Judged
    BY <2>1, <2>2, RevisionType, JudgeType
  <2>4. PICK g : g = [F EXCEPT !.attitude[a] = "accepted"]
    OBVIOUS
  <2>5. g \in FormTypes /\ g.joined = F.joined
    BY <2>2, <2>4 DEF FormTypes
  <2>6. PICK h : h = [g EXCEPT !.joined = F.joined \cup {a}]
    OBVIOUS
  <2>7. h \in FormTypes
    BY <2>2, <2>5, <2>6, SetJoined
  <2>8. G = [h EXCEPT !.late[a] = "approved"]
    BY <2>1, <2>4, <2>6
  <2>9. G \in FormTypes
    BY <2>2, <2>7, <2>8, SetLate
  <2> QED
    BY <2>1, <2>2, <2>3, <2>9
<1>9. CASE Reconsidered(q, F, D, M, G, E, N)
  <2>1. PICK a \in Invited(F) \ F.joined, v \in Answers :
         /\ E = Judge(D, Revision(F), a, v)
         /\ G = [F EXCEPT !.attitude[a] = v, !.late[a] = IF v = "accepted" THEN "pending" ELSE "no"]
    BY <1>9 DEF Reconsidered
  <2>2. a \in Agents /\ N = M /\ v \in Answers
    BY <1>9, <2>1 DEF Invited, Reconsidered
  <2>3. E \in SUBSET Judged
    BY <2>1, <2>2, RevisionType, JudgeType
  <2>4. PICK k \in {"no", "pending"} : k = IF v = "accepted" THEN "pending" ELSE "no"
    OBVIOUS
  <2>5. PICK g : g = [F EXCEPT !.attitude[a] = v]
    OBVIOUS
  <2>6. g \in FormTypes /\ G = [g EXCEPT !.late[a] = k]
    BY <2>1, <2>2, <2>4, <2>5, SetAttitude
  <2>7. G \in FormTypes
    BY <2>2, <2>4, <2>6, SetLate
  <2> QED
    BY <2>2, <2>3, <2>7
<1>10. CASE Refused(q, F, D, M, G, E, N)
  BY <1>10, SetLate DEF Refused
<1> QED
  BY <1>1, <1>2, <1>3, <1>5, <1>6, <1>7, <1>8, <1>9, <1>10, Zenon DEF Moved

LEMMA EmptyDomain == DOMAIN <<>> = {}
OBVIOUS

LEMMA OnlyFacts ==
    ASSUME NEW f, NEW S
    PROVE  DOMAIN Only(f, S) = S /\ \A x \in S : Only(f, S)[x] = f[x]
BY DEF Only

\* What a commit on one request, or on none, would put back.
LEMMA NewCommitFacts ==
    ASSUME Formed, Balloted, NEW rs \in SUBSET Requests, \A q \in rs : LockFree(q),
           NEW F, NEW D, NEW M, NEW R, NEW L, NEW T, NEW ds, NEW after, NEW kind,
           F = <<>> \/ (F = Only(forms, rs) /\ \A q \in rs : forms[q].status # "none"),
           D = <<>> \/ (D = Only(decided, rs) /\ F = Only(forms, rs)),
           M = <<>> \/ (M = Only(members, rs) /\ F = Only(forms, rs)),
           \A d \in DOMAIN R : R[d] \in Drafty,
           \A a \in DOMAIN L : L[a] \in SUBSET (Requests \X Nat),
           \A x \in T : Scopes \subseteq x /\ x \subseteq Scopes \cup Requests,
           \A q \in rs : /\ F = <<>> => forms'[q] = forms[q]
                         /\ D = <<>> => decided'[q] = decided[q]
                         /\ M = <<>> => members'[q] = members[q] \/ forms[q].status # "created",
           kind = "auto" => F = Only(forms, rs) /\ M = <<>> /\ decided' = decided
    PROVE  NewCommit([requests |-> rs, drafts |-> ds, undo |-> UndoIs(F, D, R, M, L, T),
                      after |-> after, kind |-> kind])
<1> DEFINE c == [requests |-> rs, drafts |-> ds, undo |-> UndoIs(F, D, R, M, L, T),
                 after |-> after, kind |-> kind]
<1>0. /\ \A q \in rs : forms[q] \in FormTypes /\ decided[q] \in SUBSET Judged /\ members[q] \in SUBSET Agents
  BY DEF Formed, Balloted
<1>1. /\ DOMAIN F = {} \/ (DOMAIN F = rs /\ \A q \in rs : F[q] = forms[q])
      /\ DOMAIN D = {} \/ (DOMAIN D = rs /\ DOMAIN F = rs /\ \A q \in rs : D[q] = decided[q])
      /\ DOMAIN M = {} \/ (DOMAIN M = rs /\ DOMAIN F = rs /\ \A q \in rs : M[q] = members[q])
  BY EmptyDomain, OnlyFacts
<1>2. IsUndo(UndoIs(F, D, R, M, L, T))
  <2>1. \A q \in DOMAIN F : F[q] \in FormTypes
    BY <1>0, <1>1
  <2>2. \A q \in DOMAIN D : D[q] \in SUBSET Judged
    BY <1>0, <1>1
  <2>3. \A q \in DOMAIN M : M[q] \in SUBSET Agents
    BY <1>0, <1>1
  <2> QED
    BY <2>1, <2>2, <2>3, NewUndo
<1>3. /\ c.requests = rs /\ c.kind = kind /\ c.undo = UndoIs(F, D, R, M, L, T)
      /\ c = [requests |-> c.requests, drafts |-> c.drafts, undo |-> c.undo, after |-> c.after, kind |-> c.kind]
  OBVIOUS
<1>4. c.undo.forms = F /\ c.undo.decided = D /\ c.undo.members = M
  BY <1>3 DEF UndoIs
<1> HIDE DEF c
<1>5. IsCommit(c)
  BY <1>2, <1>3 DEF IsCommit
<1>6. \A q \in rs : At(F, forms', q) = forms[q]
  <2> TAKE q \in rs
  <2>1. CASE F = <<>>
    BY <2>1, EmptyDomain DEF At
  <2>2. CASE F = Only(forms, rs)
    BY <2>2, OnlyFacts DEF At
  <2> QED
    BY <2>1, <2>2
<1>7. \A q \in rs : At(D, decided', q) = decided[q]
  <2> TAKE q \in rs
  <2>1. CASE D = <<>>
    BY <2>1, EmptyDomain DEF At
  <2>2. CASE D = Only(decided, rs)
    BY <2>2, OnlyFacts DEF At
  <2> QED
    BY <2>1, <2>2
<1>8. \A q \in rs : At(M, members', q) = members[q] \/ forms[q].status # "created"
  <2> TAKE q \in rs
  <2>1. CASE M = <<>>
    BY <2>1, EmptyDomain DEF At
  <2>2. CASE M = Only(members, rs)
    BY <2>2, OnlyFacts DEF At
  <2> QED
    BY <2>1, <2>2
<1>9. DOMAIN F \subseteq rs /\ \A q \in DOMAIN F : forms[q].status # "none"
  <2>1. CASE F = <<>>
    BY <2>1, EmptyDomain
  <2>2. CASE F = Only(forms, rs) /\ \A q \in rs : forms[q].status # "none"
    BY <2>2, OnlyFacts
  <2> QED
    BY <2>1, <2>2
<1>10. DOMAIN D \subseteq DOMAIN F /\ DOMAIN M \subseteq DOMAIN F
  BY <1>1
<1>11. kind = "auto" => DOMAIN F = rs /\ M = <<>> /\ decided' = decided
  BY OnlyFacts
<1>12. NewCommit(c)
  BY <1>3, <1>4, <1>5, <1>6, <1>7, <1>8, <1>9, <1>10, <1>11 DEF NewCommit
<1> QED
  BY <1>12 DEF c

\* The mailboxes.
LEMMA ToldType ==
    ASSUME mail \in [Agents -> SUBSET (Requests \X Nat)], NEW S, NEW notice \in Requests \X Nat
    PROVE  Told(S, notice) \in [Agents -> SUBSET (Requests \X Nat)]
<1>1. \A a \in Agents : mail[a] \cup (IF a \in S THEN {notice} ELSE {}) \in SUBSET (Requests \X Nat)
  OBVIOUS
<1> QED
  BY <1>1 DEF Told

LEMMA OnlyMail ==
    ASSUME mail \in [Agents -> SUBSET (Requests \X Nat)], NEW S \in SUBSET Agents
    PROVE  \A a \in DOMAIN Only(mail, S) : Only(mail, S)[a] \in SUBSET (Requests \X Nat)
BY OnlyFacts

LEMMA OnlyDrafts ==
    ASSUME drafts \in [Drafts -> Drafty], NEW S \in SUBSET Drafts
    PROVE  \A d \in DOMAIN Only(drafts, S) : Only(drafts, S)[d] \in Drafty
BY OnlyFacts

LEMMA DraftStatus ==
    ASSUME NEW x \in Drafty,
           NEW k \in {"PENDING", "RUNNING", "READY", "STALE", "PUBLISHED", "FAILED", "CANCELLED"},
           NEW y, y = [x EXCEPT !.status = k], x.status # "none",
           k = "READY" => x.candidate \in Contents
    PROVE  y \in Drafty /\ y.status = k /\ y.request = x.request /\ (x \in Publishable => y \in Publishable)
BY DEF Drafty, DraftTypes, Publishable

\* One request moves.
LEMMA ShiftedBy ==
    ASSUME Formed, Balloted, NEW q \in Requests, NEW G, NEW E, NEW N,
           forms' = [forms EXCEPT ![q] = G], decided' = [decided EXCEPT ![q] = E],
           members' = [members EXCEPT ![q] = N],
           Moved(q, forms[q], decided[q], members[q], G, E, N),
           LockFree(q) \/ (forms[q].status = "none" /\ N = members[q])
    PROVE  Shifted
<1>0. /\ forms \in [Requests -> FormTypes] /\ decided \in [Requests -> SUBSET Judged]
      /\ members \in [Scopes \cup Requests -> SUBSET Agents]
  BY DEF Formed, Balloted
<1>1. /\ forms[q] \in FormTypes /\ decided[q] \in SUBSET Judged /\ members[q] \in SUBSET Agents
  BY <1>0
<1>2. G \in FormTypes /\ E \in SUBSET Judged /\ N \in SUBSET Agents
  BY <1>1, MovedTypes, Zenon
<1>3. /\ forms' \in [Requests -> FormTypes] /\ decided' \in [Requests -> SUBSET Judged]
      /\ members' \in [Scopes \cup Requests -> SUBSET Agents]
      /\ forms'[q] = G /\ decided'[q] = E /\ members'[q] = N
      /\ \A r \in Requests : r # q => forms'[r] = forms[r] /\ decided'[r] = decided[r] /\ members'[r] = members[r]
      /\ \A t \in Scopes \cup Requests : t # q => members'[t] = members[t]
  BY <1>0, <1>2
<1>4. ASSUME NEW r \in Requests
      PROVE  /\ Moved(r, forms[r], decided[r], members[r], forms'[r], decided'[r], members'[r])
             /\ forms'[r] # forms[r] \/ decided'[r] # decided[r] => LockFree(r) \/ forms[r].status = "none"
  <2>1. CASE r = q
    BY <1>3, <2>1
  <2>2. CASE r # q
    BY <1>3, <2>2 DEF Moved
  <2> QED
    BY <2>1, <2>2
<1>5. \A t \in Scopes \cup Requests : members'[t] # members[t] =>
         LockFree(t) \/ (StateLockFree(t) /\ members'[t] \subseteq members[t])
  BY <1>3
<1> QED
  BY <1>3, <1>4, <1>5 DEF Shifted

LEMMA ShiftedNone ==
    ASSUME Formed, Balloted, UNCHANGED <<forms, decided, members>>
    PROVE  Shifted
<1>1. forms' = forms /\ decided' = decided /\ members' = members
  OBVIOUS
<1> QED
  BY <1>1 DEF Formed, Balloted, Shifted, Moved

\* Formed again.
LEMMA FormedAgain ==
    ASSUME Formed, Shifted, UNCHANGED limit,
           drafts' \in [Drafts -> Drafty],
           Scopes \subseteq teams' /\ teams' \subseteq Scopes \cup Requests,
           mail' \in [Agents -> SUBSET (Requests \X Nat)],
           flight' = flight \/ \E c : flight' = flight \cup {c} /\ NewCommit(c),
           \A w \in waiting' : IsWait(w)', \A x \in thinking' : x.draft \in Drafts
    PROVE  Formed'
<1>1. Drafty' = Drafty
  BY DEF Drafty
<1>2. \A f : IsCommit(f)' <=> IsCommit(f)
  BY <1>1 DEF IsCommit, IsUndo
<1>3. \A f \in flight' : IsCommit(f)'
  BY <1>2 DEF Formed, NewCommit
<1> QED
  BY <1>1, <1>3 DEF Formed, Shifted

\* The publications that wait, when no draft of theirs is changed but to
\* another status.
LEMMA WaitsAgain ==
    ASSUME Formed, UNCHANGED limit, drafts' \in [Drafts -> Drafty],
           NEW w \in waiting,
           drafts'[w.draft] = drafts[w.draft] \/
             \E k \in {"PENDING", "RUNNING", "READY", "STALE", "PUBLISHED", "FAILED", "CANCELLED"} :
               drafts'[w.draft] = [drafts[w.draft] EXCEPT !.status = k]
    PROVE  IsWait(w)'
<1>1. IsWait(w)
  BY DEF Formed
<1>2. Publishable' = Publishable
  BY DEF Publishable, Drafty
<1>3. w.own = {} => drafts'[w.draft] \in Publishable
  <2> SUFFICES ASSUME w.own = {} PROVE drafts'[w.draft] \in Publishable
    OBVIOUS
  <2>1. drafts[w.draft] \in Publishable
    BY <1>1 DEF IsWait
  <2>2. drafts[w.draft] \in Drafty /\ drafts[w.draft].status # "none" /\ drafts[w.draft].candidate \in Contents
    BY <2>1 DEF Publishable
  <2> QED
    BY <2>1, <2>2, DraftStatus
<1> QED
  BY <1>1, <1>2, <1>3 DEF IsWait

Statuses == {"PENDING", "RUNNING", "READY", "STALE", "PUBLISHED", "FAILED", "CANCELLED"}

\* A step that only changes the status of drafts.
Restyled == \A d \in Drafts : \/ drafts'[d] = drafts[d]
                              \/ \E k \in Statuses : drafts'[d] = [drafts[d] EXCEPT !.status = k]

LEMMA WaitsKept ==
    ASSUME Formed, UNCHANGED limit, drafts' \in [Drafts -> Drafty], Restyled, waiting' \subseteq waiting
    PROVE  \A w \in waiting' : IsWait(w)'
<1> SUFFICES ASSUME NEW w \in waiting' PROVE IsWait(w)'
  OBVIOUS
<1>1. w \in waiting /\ w.draft \in Drafts
  BY DEF Formed, IsWait
<1>2. \/ drafts'[w.draft] = drafts[w.draft]
      \/ \E k \in {"PENDING", "RUNNING", "READY", "STALE", "PUBLISHED", "FAILED", "CANCELLED"} :
           drafts'[w.draft] = [drafts[w.draft] EXCEPT !.status = k]
  BY <1>1 DEF Restyled, Statuses
<1> QED
  BY <1>1, <1>2, WaitsAgain

LEMMA StaledFacts ==
    ASSUME Formed, NEW S \in SUBSET Drafts, \A d \in S : drafts[d].status = "READY"
    PROVE  /\ Staled(S) \in [Drafts -> Drafty]
           /\ \A d \in Drafts : \/ Staled(S)[d] = drafts[d]
                                \/ Staled(S)[d] = [drafts[d] EXCEPT !.status = "STALE"]
<1>1. drafts \in [Drafts -> Drafty]
  BY DEF Formed
<1>2. \A d \in S : [drafts[d] EXCEPT !.status = "STALE"] \in Drafty
  BY <1>1, DraftStatus
<1> QED
  BY <1>1, <1>2 DEF Staled

LEMMA StaleFacts ==
    ASSUME NEW q, NEW except
    PROVE  Stale(q, except) \in SUBSET Drafts /\ \A d \in Stale(q, except) : drafts[d].status = "READY"
BY DEF Stale

LEMMA ProposeAdvance ==
    ASSUME Formed, Balloted, UNCHANGED limit, NEW q \in Requests, NEW c \in Contents, Propose(q, c)
    PROVE  Advance
<1> DEFINE f == Revised(Unused, c, Nothing)
<1>0. /\ forms \in [Requests -> FormTypes] /\ decided \in [Requests -> SUBSET Judged]
      /\ members \in [Scopes \cup Requests -> SUBSET Agents] /\ mail \in [Agents -> SUBSET (Requests \X Nat)]
      /\ drafts \in [Drafts -> Drafty] /\ Scopes \subseteq teams /\ teams \subseteq Scopes \cup Requests
      /\ \A x \in thinking : x.draft \in Drafts
  BY DEF Formed, Balloted
<1>1. /\ forms[q].status = "none" /\ forms' = [forms EXCEPT ![q] = f]
      /\ mail' = Told(Invited(f), <<q, 1>>)
      /\ UNCHANGED <<decided, drafts, teams, members, flight, waiting, thinking, spent>>
  BY DEF Propose
<1>2. Moved(q, forms[q], decided[q], members[q], f, decided[q], members[q])
  BY <1>1 DEF Moved, Begun
<1> HIDE DEF f
<1>3. PICK E, N : E = decided[q] /\ N = members[q]
  OBVIOUS
<1>4. Shifted
  <2>1. decided' = [decided EXCEPT ![q] = E] /\ members' = [members EXCEPT ![q] = N]
    BY <1>0, <1>1, <1>3
  <2>2. Moved(q, forms[q], decided[q], members[q], f, E, N)
    BY <1>2, <1>3
  <2>3. LockFree(q) \/ (forms[q].status = "none" /\ N = members[q])
    BY <1>1, <1>3
  <2> QED
    BY <1>1, <2>1, <2>2, <2>3, ShiftedBy
<1>5. mail' \in [Agents -> SUBSET (Requests \X Nat)]
  BY <1>0, <1>1, ToldType
<1>6. \A w \in waiting' : IsWait(w)'
  <2>1. Restyled /\ drafts' \in [Drafts -> Drafty] /\ waiting' \subseteq waiting
    BY <1>0, <1>1 DEF Restyled
  <2> QED
    BY <2>1, WaitsKept
<1>7. Formed'
  <2>1. /\ drafts' \in [Drafts -> Drafty] /\ Scopes \subseteq teams' /\ teams' \subseteq Scopes \cup Requests
        /\ \A x \in thinking' : x.draft \in Drafts
    BY <1>0, <1>1
  <2>2. flight' = flight \/ \E x : flight' = flight \cup {x} /\ NewCommit(x)
    BY <1>1
  <2> QED
    BY <1>4, <1>5, <1>6, <2>1, <2>2, FormedAgain
<1> QED
  BY <1>1, <1>4, <1>7 DEF Advance

\* What the operations would put back, as records.
DraftUndo(R) == [NoUndo EXCEPT !.drafts = R]
NoteUndo(R, L) == [NoUndo EXCEPT !.drafts = R, !.mail = L]
FormUndo(F, L) == [NoUndo EXCEPT !.forms = F, !.mail = L]
DraftsUndo(F, R, L) == [NoUndo EXCEPT !.forms = F, !.drafts = R, !.mail = L]
AnswerUndo(F, D, L) == [NoUndo EXCEPT !.forms = F, !.decided = D, !.mail = L]
JoinUndo(F, D, M, L) == [NoUndo EXCEPT !.forms = F, !.decided = D, !.members = M, !.mail = L]
CreationUndo(F, D, R, L, T) == [NoUndo EXCEPT !.forms = F, !.decided = D, !.drafts = R, !.mail = L, !.teams = T]

LEMMA EmptyUndo == \E e : NoUndo = UndoIs(e, e, e, e, e, {}) /\ e = <<>>
BY DEF NoUndo, UndoIs

LEMMA DraftUndoIs == ASSUME NEW R
   PROVE  DraftUndo(R) = UndoIs(<<>>, <<>>, R, <<>>, <<>>, {})
<1>1. PICK e : NoUndo = UndoIs(e, e, e, e, e, {}) /\ e = <<>>
  BY EmptyUndo
<1>2. PICK n0 : n0 = NoUndo
  OBVIOUS
<1>3. DraftUndo(R) = [n0 EXCEPT !.drafts = R]
  BY <1>2 DEF DraftUndo
<1>4. n0 = UndoIs(e, e, e, e, e, {})
  BY <1>1, <1>2
<1>5. DraftUndo(R) = UndoIs(e, e, R, e, e, {})
  BY <1>4, <1>3 DEF UndoIs
<1> QED
  BY <1>1, <1>5

LEMMA NoteUndoIs == ASSUME NEW R, NEW L
   PROVE  NoteUndo(R, L) = UndoIs(<<>>, <<>>, R, <<>>, L, {})
<1>1. PICK e : NoUndo = UndoIs(e, e, e, e, e, {}) /\ e = <<>>
  BY EmptyUndo
<1>2. PICK n0 : n0 = NoUndo
  OBVIOUS
<1>3. NoteUndo(R, L) = [n0 EXCEPT !.drafts = R, !.mail = L]
  BY <1>2 DEF NoteUndo
<1>4. n0 = UndoIs(e, e, e, e, e, {})
  BY <1>1, <1>2
<1>5. PICK n1 : n1 = [n0 EXCEPT !.drafts = R]
  OBVIOUS
<1>6. n1 = UndoIs(e, e, R, e, e, {})
  BY <1>4, <1>5 DEF UndoIs
<1>7. NoteUndo(R, L) = [n1 EXCEPT !.mail = L]
  BY <1>3, <1>5
<1>8. NoteUndo(R, L) = UndoIs(e, e, R, e, L, {})
  BY <1>6, <1>7 DEF UndoIs
<1> QED
  BY <1>1, <1>8

LEMMA FormUndoIs == ASSUME NEW F, NEW L
   PROVE  FormUndo(F, L) = UndoIs(F, <<>>, <<>>, <<>>, L, {})
<1>1. PICK e : NoUndo = UndoIs(e, e, e, e, e, {}) /\ e = <<>>
  BY EmptyUndo
<1>2. PICK n0 : n0 = NoUndo
  OBVIOUS
<1>3. FormUndo(F, L) = [n0 EXCEPT !.forms = F, !.mail = L]
  BY <1>2 DEF FormUndo
<1>4. n0 = UndoIs(e, e, e, e, e, {})
  BY <1>1, <1>2
<1>5. PICK n1 : n1 = [n0 EXCEPT !.forms = F]
  OBVIOUS
<1>6. n1 = UndoIs(F, e, e, e, e, {})
  BY <1>4, <1>5 DEF UndoIs
<1>7. FormUndo(F, L) = [n1 EXCEPT !.mail = L]
  BY <1>3, <1>5
<1>8. FormUndo(F, L) = UndoIs(F, e, e, e, L, {})
  BY <1>6, <1>7 DEF UndoIs
<1> QED
  BY <1>1, <1>8

LEMMA DraftsUndoIs == ASSUME NEW F, NEW R, NEW L
   PROVE  DraftsUndo(F, R, L) = UndoIs(F, <<>>, R, <<>>, L, {})
<1>1. PICK e : NoUndo = UndoIs(e, e, e, e, e, {}) /\ e = <<>>
  BY EmptyUndo
<1>2. PICK n0 : n0 = NoUndo
  OBVIOUS
<1>3. DraftsUndo(F, R, L) = [n0 EXCEPT !.forms = F, !.drafts = R, !.mail = L]
  BY <1>2 DEF DraftsUndo
<1>4. n0 = UndoIs(e, e, e, e, e, {})
  BY <1>1, <1>2
<1>5. PICK n1 : n1 = [n0 EXCEPT !.forms = F]
  OBVIOUS
<1>6. n1 = UndoIs(F, e, e, e, e, {})
  BY <1>4, <1>5 DEF UndoIs
<1>7. DraftsUndo(F, R, L) = [n1 EXCEPT !.drafts = R, !.mail = L]
  BY <1>3, <1>5
<1>8. PICK n2 : n2 = [n1 EXCEPT !.drafts = R]
  OBVIOUS
<1>9. n2 = UndoIs(F, e, R, e, e, {})
  BY <1>6, <1>8 DEF UndoIs
<1>10. DraftsUndo(F, R, L) = [n2 EXCEPT !.mail = L]
  BY <1>7, <1>8
<1>11. DraftsUndo(F, R, L) = UndoIs(F, e, R, e, L, {})
  BY <1>9, <1>10 DEF UndoIs
<1> QED
  BY <1>1, <1>11

LEMMA AnswerUndoIs == ASSUME NEW F, NEW D, NEW L
   PROVE  AnswerUndo(F, D, L) = UndoIs(F, D, <<>>, <<>>, L, {})
<1>1. PICK e : NoUndo = UndoIs(e, e, e, e, e, {}) /\ e = <<>>
  BY EmptyUndo
<1>2. PICK n0 : n0 = NoUndo
  OBVIOUS
<1>3. AnswerUndo(F, D, L) = [n0 EXCEPT !.forms = F, !.decided = D, !.mail = L]
  BY <1>2 DEF AnswerUndo
<1>4. n0 = UndoIs(e, e, e, e, e, {})
  BY <1>1, <1>2
<1>5. PICK n1 : n1 = [n0 EXCEPT !.forms = F]
  OBVIOUS
<1>6. n1 = UndoIs(F, e, e, e, e, {})
  BY <1>4, <1>5 DEF UndoIs
<1>7. AnswerUndo(F, D, L) = [n1 EXCEPT !.decided = D, !.mail = L]
  BY <1>3, <1>5
<1>8. PICK n2 : n2 = [n1 EXCEPT !.decided = D]
  OBVIOUS
<1>9. n2 = UndoIs(F, D, e, e, e, {})
  BY <1>6, <1>8 DEF UndoIs
<1>10. AnswerUndo(F, D, L) = [n2 EXCEPT !.mail = L]
  BY <1>7, <1>8
<1>11. AnswerUndo(F, D, L) = UndoIs(F, D, e, e, L, {})
  BY <1>9, <1>10 DEF UndoIs
<1> QED
  BY <1>1, <1>11

LEMMA JoinUndoIs == ASSUME NEW F, NEW D, NEW M, NEW L
   PROVE  JoinUndo(F, D, M, L) = UndoIs(F, D, <<>>, M, L, {})
<1>1. PICK e : NoUndo = UndoIs(e, e, e, e, e, {}) /\ e = <<>>
  BY EmptyUndo
<1>2. PICK n0 : n0 = NoUndo
  OBVIOUS
<1>3. JoinUndo(F, D, M, L) = [n0 EXCEPT !.forms = F, !.decided = D, !.members = M, !.mail = L]
  BY <1>2 DEF JoinUndo
<1>4. n0 = UndoIs(e, e, e, e, e, {})
  BY <1>1, <1>2
<1>5. PICK n1 : n1 = [n0 EXCEPT !.forms = F]
  OBVIOUS
<1>6. n1 = UndoIs(F, e, e, e, e, {})
  BY <1>4, <1>5 DEF UndoIs
<1>7. JoinUndo(F, D, M, L) = [n1 EXCEPT !.decided = D, !.members = M, !.mail = L]
  BY <1>3, <1>5
<1>8. PICK n2 : n2 = [n1 EXCEPT !.decided = D]
  OBVIOUS
<1>9. n2 = UndoIs(F, D, e, e, e, {})
  BY <1>6, <1>8 DEF UndoIs
<1>10. JoinUndo(F, D, M, L) = [n2 EXCEPT !.members = M, !.mail = L]
  BY <1>7, <1>8
<1>11. PICK n3 : n3 = [n2 EXCEPT !.members = M]
  OBVIOUS
<1>12. n3 = UndoIs(F, D, e, M, e, {})
  BY <1>9, <1>11 DEF UndoIs
<1>13. JoinUndo(F, D, M, L) = [n3 EXCEPT !.mail = L]
  BY <1>10, <1>11
<1>14. JoinUndo(F, D, M, L) = UndoIs(F, D, e, M, L, {})
  BY <1>12, <1>13 DEF UndoIs
<1> QED
  BY <1>1, <1>14

LEMMA CreationUndoIs == ASSUME NEW F, NEW D, NEW R, NEW L, NEW T
   PROVE  CreationUndo(F, D, R, L, T) = UndoIs(F, D, R, <<>>, L, T)
<1>1. PICK e : NoUndo = UndoIs(e, e, e, e, e, {}) /\ e = <<>>
  BY EmptyUndo
<1>2. PICK n0 : n0 = NoUndo
  OBVIOUS
<1>3. CreationUndo(F, D, R, L, T) = [n0 EXCEPT !.forms = F, !.decided = D, !.drafts = R, !.mail = L, !.teams = T]
  BY <1>2 DEF CreationUndo
<1>4. n0 = UndoIs(e, e, e, e, e, {})
  BY <1>1, <1>2
<1>5. PICK n1 : n1 = [n0 EXCEPT !.forms = F]
  OBVIOUS
<1>6. n1 = UndoIs(F, e, e, e, e, {})
  BY <1>4, <1>5 DEF UndoIs
<1>7. CreationUndo(F, D, R, L, T) = [n1 EXCEPT !.decided = D, !.drafts = R, !.mail = L, !.teams = T]
  BY <1>3, <1>5
<1>8. PICK n2 : n2 = [n1 EXCEPT !.decided = D]
  OBVIOUS
<1>9. n2 = UndoIs(F, D, e, e, e, {})
  BY <1>6, <1>8 DEF UndoIs
<1>10. CreationUndo(F, D, R, L, T) = [n2 EXCEPT !.drafts = R, !.mail = L, !.teams = T]
  BY <1>7, <1>8
<1>11. PICK n3 : n3 = [n2 EXCEPT !.drafts = R]
  OBVIOUS
<1>12. n3 = UndoIs(F, D, R, e, e, {})
  BY <1>9, <1>11 DEF UndoIs
<1>13. CreationUndo(F, D, R, L, T) = [n3 EXCEPT !.mail = L, !.teams = T]
  BY <1>10, <1>11
<1>14. PICK n4 : n4 = [n3 EXCEPT !.mail = L]
  OBVIOUS
<1>15. n4 = UndoIs(F, D, R, e, L, {})
  BY <1>12, <1>14 DEF UndoIs
<1>16. CreationUndo(F, D, R, L, T) = [n4 EXCEPT !.teams = T]
  BY <1>13, <1>14
<1>17. CreationUndo(F, D, R, L, T) = UndoIs(F, D, R, e, L, T)
  BY <1>15, <1>16 DEF UndoIs
<1> QED
  BY <1>1, <1>17

-----------------------------------------------------------------------------
(* The commits that a request waits for. *)

\* What a commit on one request may put back, and what it leaves.
Copies(q, F, D, M, R, L, T, E, N) ==
    /\ F = Only(forms, {q})
    /\ D = Only(decided, {q}) \/ (D = <<>> /\ E = decided[q])
    /\ M = Only(members, {q}) \/ (M = <<>> /\ (N = members[q] \/ forms[q].status # "created"))
    /\ \A d \in DOMAIN R : R[d] \in Drafty
    /\ \A a \in DOMAIN L : L[a] \in SUBSET (Requests \X Nat)
    /\ \A x \in T : Scopes \subseteq x /\ x \subseteq Scopes \cup Requests

RequestMoves(q, G, E, N) ==
    /\ forms' = [forms EXCEPT ![q] = G] /\ decided' = [decided EXCEPT ![q] = E]
    /\ members' = [members EXCEPT ![q] = N]
    /\ Moved(q, forms[q], decided[q], members[q], G, E, N)

OthersFormed ==
    /\ drafts' \in [Drafts -> Drafty] /\ Scopes \subseteq teams' /\ teams' \subseteq Scopes \cup Requests
    /\ mail' \in [Agents -> SUBSET (Requests \X Nat)]
    /\ \A w \in waiting' : IsWait(w)'
    /\ \A x \in thinking' : x.draft \in Drafts

LEMMA RequestAdvance ==
    ASSUME Formed, Balloted, UNCHANGED limit, NEW q \in Requests, LockFree(q), forms[q].status # "none",
           NEW G, NEW E, NEW N, RequestMoves(q, G, E, N), OthersFormed,
           NEW F, NEW D, NEW M, NEW R, NEW L, NEW T, Copies(q, F, D, M, R, L, T, E, N),
           NEW ds, NEW after, NEW kind, kind = "auto" => M = <<>> /\ D = Only(decided, {q}) /\ decided' = decided,
           NEW u, u = UndoIs(F, D, R, M, L, T), Commit({q}, ds, u, after, kind)
    PROVE  Advance
<1>0. /\ forms \in [Requests -> FormTypes] /\ decided \in [Requests -> SUBSET Judged]
      /\ members \in [Scopes \cup Requests -> SUBSET Agents]
  BY DEF Formed, Balloted
<1>1. PICK c : c = [requests |-> {q}, drafts |-> ds, undo |-> UndoIs(F, D, R, M, L, T), after |-> after, kind |-> kind]
  OBVIOUS
<1>2. flight' = flight \cup {c} /\ c.requests # {}
  BY <1>1 DEF Commit
<1>3. Shifted
  BY ShiftedBy DEF RequestMoves
<1>4. forms'[q] = G /\ decided'[q] = E /\ members'[q] = N
  BY <1>0 DEF RequestMoves
<1>5. NewCommit(c)
  <2>1. \A d \in DOMAIN R : R[d] \in Drafty
    BY DEF Copies
  <2>2. \A a \in DOMAIN L : L[a] \in SUBSET (Requests \X Nat)
    BY DEF Copies
  <2>3. \A x \in T : Scopes \subseteq x /\ x \subseteq Scopes \cup Requests
    BY DEF Copies
  <2>4. F = <<>> \/ (F = Only(forms, {q}) /\ \A r \in {q} : forms[r].status # "none")
    BY DEF Copies
  <2>5. D = <<>> \/ (D = Only(decided, {q}) /\ F = Only(forms, {q}))
    BY DEF Copies
  <2>6. M = <<>> \/ (M = Only(members, {q}) /\ F = Only(forms, {q}))
    BY DEF Copies
  <2>7. Only(forms, {q}) # <<>> /\ Only(decided, {q}) # <<>> /\ Only(members, {q}) # <<>>
    BY EmptyDomain, OnlyFacts
  <2>8. \A r \in {q} : /\ F = <<>> => forms'[r] = forms[r]
                       /\ D = <<>> => decided'[r] = decided[r]
                       /\ M = <<>> => members'[r] = members[r] \/ forms[r].status # "created"
    BY <1>4, <2>7 DEF Copies
  <2>9. {q} \in SUBSET Requests /\ \A r \in {q} : LockFree(r)
    OBVIOUS
  <2>10. kind = "auto" => F = Only(forms, {q}) /\ M = <<>> /\ decided' = decided
    BY <2>5, <2>7
  <2> QED
    BY <1>1, <2>1, <2>2, <2>3, <2>4, <2>5, <2>6, <2>8, <2>9, <2>10, NewCommitFacts
<1>6. flight' = flight \/ \E x : flight' = flight \cup {x} /\ NewCommit(x)
  BY <1>2, <1>5
<1>7. Formed'
  BY <1>3, <1>6, FormedAgain DEF OthersFormed
<1> QED
  BY <1>2, <1>3, <1>5, <1>7 DEF Advance

\* Nothing but the status of drafts.
LEMMA OthersByStatus ==
    ASSUME Formed, UNCHANGED <<limit, thinking>>, drafts' \in [Drafts -> Drafty], Restyled,
           waiting' \subseteq waiting,
           Scopes \subseteq teams' /\ teams' \subseteq Scopes \cup Requests,
           mail' \in [Agents -> SUBSET (Requests \X Nat)]
    PROVE  OthersFormed
<1>1. \A w \in waiting' : IsWait(w)'
  BY WaitsKept
<1> QED
  BY <1>1 DEF OthersFormed, Formed

-----------------------------------------------------------------------------
(* Creation, answers and abandonment. *)

LEMMA Registries ==
    ASSUME Formed, Balloted
    PROVE  /\ forms \in [Requests -> FormTypes] /\ decided \in [Requests -> SUBSET Judged]
           /\ members \in [Scopes \cup Requests -> SUBSET Agents] /\ mail \in [Agents -> SUBSET (Requests \X Nat)]
           /\ drafts \in [Drafts -> Drafty] /\ Scopes \subseteq teams /\ teams \subseteq Scopes \cup Requests
           /\ \A x \in thinking : x.draft \in Drafts
BY DEF Formed, Balloted

LEMMA FinalizeAdvance ==
    ASSUME Formed, Balloted, UNCHANGED <<limit, waiting, thinking>>,
           NEW q \in Requests, LockFree(q), Open(forms[q]),
           NEW f, NEW E, NEW kind, Finalize(q, f, forms[q], kind),
           decided' = [decided EXCEPT ![q] = E],
           Moved(q, forms[q], decided[q], members[q],
                 [f EXCEPT !.status = "created", !.joined = Accepted(f)], E, Founders(q, f)),
           kind = "auto" => decided' = decided
    PROVE  Advance
<1> DEFINE told == Invited(f) \cup {Initiator[q]}
           stale == Stale(q, {})
<1>0. Initiator[q] \in Agents
  BY FormationAssumption
<1>1. PICK G : G = [f EXCEPT !.status = "created", !.joined = Accepted(f)]
  OBVIOUS
<1>2. PICK N : N = Founders(q, f)
  OBVIOUS
<1>3. told \in SUBSET Agents /\ <<q, 0>> \in Requests \X Nat
  BY <1>0 DEF Invited
<1>4. stale \in SUBSET Drafts /\ \A d \in stale : drafts[d].status = "READY"
  BY StaleFacts
<1>5. forms[q].status # "none" /\ forms[q].status # "created"
  BY DEF Open
<1>6. /\ forms' = [forms EXCEPT ![q] = G] /\ members' = [members EXCEPT ![q] = N]
      /\ teams' = teams \cup {q} /\ drafts' = Staled(stale) /\ mail' = Told(told, <<q, 0>>)
  BY <1>1, <1>2 DEF Finalize, NewTeam
<1> HIDE DEF told, stale
<1>7. Commit({q}, {}, CreationUndo(Only(forms, {q}), Only(decided, {q}), Only(drafts, stale), Only(mail, told), {teams}),
             {}, kind)
  <2>1. [x \in {q} |-> forms[q]] = Only(forms, {q})
    BY DEF Only
  <2>2. Commit({q}, {}, CreationUndo([x \in {q} |-> forms[q]], Only(decided, {q}), Only(drafts, stale), Only(mail, told), {teams}),
               {}, kind)
    BY DEF Finalize, CreationUndo, told, stale
  <2> QED
    BY <2>1, <2>2
<1>8. PICK F, D, R, L, T : /\ F = Only(forms, {q}) /\ D = Only(decided, {q}) /\ R = Only(drafts, stale)
                           /\ L = Only(mail, told) /\ T = {teams}
  OBVIOUS
<1>9. PICK M : M = <<>>
  OBVIOUS
<1>10. PICK u : u = CreationUndo(F, D, R, L, T)
  OBVIOUS
<1>11. Commit({q}, {}, u, {}, kind)
  BY <1>7, <1>8, <1>10
<1>12. u = UndoIs(F, D, R, M, L, T)
  BY <1>9, <1>10, CreationUndoIs
<1>13. RequestMoves(q, G, E, N)
  BY <1>1, <1>2, <1>6 DEF RequestMoves
<1>14. Copies(q, F, D, M, R, L, T, E, N)
  <2>1. \A d \in DOMAIN R : R[d] \in Drafty
    BY <1>4, <1>8, OnlyDrafts, Registries
  <2>2. \A a \in DOMAIN L : L[a] \in SUBSET (Requests \X Nat)
    BY <1>3, <1>8, OnlyMail, Registries
  <2>3. \A x \in T : Scopes \subseteq x /\ x \subseteq Scopes \cup Requests
    BY <1>8, Registries
  <2> QED
    BY <1>5, <1>8, <1>9, <2>1, <2>2, <2>3 DEF Copies
<1>15. OthersFormed
  <2>1. drafts' \in [Drafts -> Drafty] /\ Restyled
    BY <1>4, <1>6, StaledFacts DEF Restyled, Statuses
  <2>2. mail' \in [Agents -> SUBSET (Requests \X Nat)]
    BY <1>3, <1>6, ToldType, Registries
  <2>3. Scopes \subseteq teams' /\ teams' \subseteq Scopes \cup Requests
    BY <1>6, Registries
  <2> QED
    BY <2>1, <2>2, <2>3, OthersByStatus
<1>16. kind = "auto" => M = <<>> /\ D = Only(decided, {q}) /\ decided' = decided
  BY <1>8, <1>9
<1> QED
  BY <1>5, <1>11, <1>12, <1>13, <1>14, <1>15, <1>16, RequestAdvance

LEMMA RealizedBy ==
    ASSUME NEW q, NEW F, NEW D, NEW M, Open(F)
    PROVE  Moved(q, F, D, M, [F EXCEPT !.status = "created", !.joined = Accepted(F)], D, Founders(q, F))
BY DEF Moved, Realized

LEMMA CreateAdvance ==
    ASSUME Formed, Balloted, UNCHANGED limit, NEW q \in Requests, Create(q)
    PROVE  Advance
<1>1. /\ LockFree(q) /\ Open(forms[q]) /\ Finalize(q, forms[q], forms[q], "call")
      /\ decided' = decided /\ UNCHANGED <<limit, waiting, thinking>>
  BY DEF Create, Creatable
<1>2. PICK f : f = forms[q]
  OBVIOUS
<1>3. PICK E : E = decided[q]
  OBVIOUS
<1>4. decided' = [decided EXCEPT ![q] = E]
  BY <1>1, <1>3, Registries
<1>5. Moved(q, forms[q], decided[q], members[q],
            [f EXCEPT !.status = "created", !.joined = Accepted(f)], E, Founders(q, f))
  BY <1>1, <1>2, <1>3, RealizedBy
<1>6. Finalize(q, f, forms[q], "call")
  BY <1>1, <1>2
<1> QED
  BY <1>1, <1>4, <1>5, <1>6, FinalizeAdvance

LEMMA StandsStill ==
    ASSUME Formed, Balloted, UNCHANGED <<limit, forms, decided, members, flight>>, OthersFormed
    PROVE  Advance
<1>1. Shifted
  BY ShiftedNone
<1>2. Formed'
  BY <1>1, FormedAgain DEF OthersFormed
<1> QED
  BY <1>1, <1>2 DEF Advance

LEMMA AutoCreateAdvance ==
    ASSUME Formed, Balloted, UNCHANGED limit, NEW q \in Requests, NEW n, AutoCreate(q, n)
    PROVE  Advance
<1>0. LockFree(q) /\ decided' = decided /\ UNCHANGED <<limit, waiting, thinking>>
  BY DEF AutoCreate
<1>1. CASE Creatable(q, forms[q]) /\ Finalize(q, forms[q], forms[q], "auto")
  <2>1. Open(forms[q])
    BY <1>1 DEF Creatable
  <2>2. PICK f : f = forms[q]
    OBVIOUS
  <2>3. PICK E : E = decided[q]
    OBVIOUS
  <2>4. decided' = [decided EXCEPT ![q] = E]
    BY <1>0, <2>3, Registries
  <2>5. Moved(q, forms[q], decided[q], members[q],
              [f EXCEPT !.status = "created", !.joined = Accepted(f)], E, Founders(q, f))
    BY <2>1, <2>2, <2>3, RealizedBy
  <2>6. Finalize(q, f, forms[q], "auto")
    BY <1>1, <2>2
  <2> QED
    BY <1>0, <2>1, <2>4, <2>5, <2>6, FinalizeAdvance
<1>2. CASE UNCHANGED <<forms, drafts, teams, members, mail, flight>>
  <2>1. /\ drafts' \in [Drafts -> Drafty] /\ Scopes \subseteq teams' /\ teams' \subseteq Scopes \cup Requests
        /\ mail' \in [Agents -> SUBSET (Requests \X Nat)] /\ Restyled /\ waiting' \subseteq waiting
    BY <1>0, <1>2, Registries DEF Restyled
  <2>2. OthersFormed
    BY <1>0, <2>1, OthersByStatus
  <2> QED
    BY <1>0, <1>2, <2>2, StandsStill
<1> QED
  BY <1>1, <1>2 DEF AutoCreate

\* What an answer leaves alone but the mail of whom it would put back.
LEMMA QuietOthers ==
    ASSUME Formed, Balloted, UNCHANGED <<limit, drafts, teams, mail, waiting, thinking>>
    PROVE  OthersFormed
<1>1. /\ drafts' \in [Drafts -> Drafty] /\ Scopes \subseteq teams' /\ teams' \subseteq Scopes \cup Requests
      /\ mail' \in [Agents -> SUBSET (Requests \X Nat)] /\ Restyled /\ waiting' \subseteq waiting
  BY Registries DEF Restyled
<1> QED
  BY <1>1, OthersByStatus

LEMMA AnswerAdvance ==
    ASSUME Formed, Balloted, UNCHANGED <<limit, drafts, teams, members, mail, waiting, thinking>>,
           NEW q \in Requests, LockFree(q), forms[q].status # "none",
           NEW G, NEW E, NEW S \in SUBSET Agents,
           forms' = [forms EXCEPT ![q] = G], decided' = [decided EXCEPT ![q] = E],
           Moved(q, forms[q], decided[q], members[q], G, E, members[q]),
           Commit({q}, {}, [NoUndo EXCEPT !.forms = Only(forms, {q}), !.decided = Only(decided, {q}),
                                          !.mail = Only(mail, S)], {}, "call")
    PROVE  Advance
<1>1. PICK N : N = members[q]
  OBVIOUS
<1>2. PICK F, D, L, R, M, T : /\ F = Only(forms, {q}) /\ D = Only(decided, {q}) /\ L = Only(mail, S)
                              /\ R = <<>> /\ M = <<>> /\ T = {}
  OBVIOUS
<1>3. PICK u : u = AnswerUndo(F, D, L)
  OBVIOUS
<1>4. Commit({q}, {}, u, {}, "call")
  BY <1>2, <1>3 DEF AnswerUndo
<1>5. u = UndoIs(F, D, R, M, L, T)
  BY <1>2, <1>3, AnswerUndoIs
<1>6. members' = [members EXCEPT ![q] = N]
  BY <1>1, Registries
<1>7. Moved(q, forms[q], decided[q], members[q], G, E, N)
  BY <1>1
<1>8. RequestMoves(q, G, E, N)
  BY <1>6, <1>7 DEF RequestMoves
<1>9. Copies(q, F, D, M, R, L, T, E, N)
  <2>1. \A a \in DOMAIN L : L[a] \in SUBSET (Requests \X Nat)
    BY <1>2, OnlyMail, Registries
  <2>2. \A d \in DOMAIN R : R[d] \in Drafty
    BY <1>2, EmptyDomain
  <2> QED
    BY <1>1, <1>2, <2>1, <2>2 DEF Copies
<1>10. OthersFormed
  BY QuietOthers
<1>11. "call" # "auto"
  OBVIOUS
<1> QED
  BY <1>4, <1>5, <1>8, <1>9, <1>10, <1>11, RequestAdvance

LEMMA AnsweredBy ==
    ASSUME NEW q, NEW F, NEW D, NEW M, NEW a \in Agents, NEW answer \in Answers, Open(F),
           F.attitude[a] \notin {"none", answer}, NEW g, g = [F EXCEPT !.attitude[a] = answer]
    PROVE  Answered(q, F, D, M, [g EXCEPT !.status = IF Accepted(g) = Invited(g) /\ ~Proposal(g).auto
                                                     THEN "ready" ELSE "collecting"],
                    Judge(D, Revision(F), a, answer), M)
BY DEF Answered

LEMMA RespondAdvance ==
    ASSUME Formed, Balloted, UNCHANGED limit, NEW q \in Requests, NEW a \in Agents, NEW n,
           NEW answer \in Answers, Respond(q, a, n, answer)
    PROVE  Advance
<1>1. PICK g : g = [forms[q] EXCEPT !.attitude[a] = answer]
  OBVIOUS
<1>2. PICK f : f = [g EXCEPT !.status = IF Accepted(g) = Invited(g) /\ ~Proposal(g).auto THEN "ready" ELSE "collecting"]
  OBVIOUS
<1>3. PICK E : E = Judge(decided[q], n, a, answer)
  OBVIOUS
<1>4. /\ LockFree(q) /\ Open(forms[q]) /\ n = Revision(forms[q])
      /\ forms[q].attitude[a] \notin {"none", answer}
      /\ UNCHANGED <<limit, waiting, thinking>>
      /\ Decide(q, n, a, answer)
  BY DEF Respond
<1>5. decided' = [decided EXCEPT ![q] = E]
  BY <1>3, <1>4 DEF Decide, Judge
<1>6. Answered(q, forms[q], decided[q], members[q], f, E, members[q])
  <2>1. PICK F, D, M : F = forms[q] /\ D = decided[q] /\ M = members[q]
    OBVIOUS
  <2>2. Answered(q, F, D, M, f, Judge(D, Revision(F), a, answer), M)
    <3>1. Open(F) /\ F.attitude[a] \notin {"none", answer} /\ g = [F EXCEPT !.attitude[a] = answer]
      BY <1>1, <1>4, <2>1
    <3> QED
      BY <1>2, <3>1, AnsweredBy
  <2> QED
    BY <1>3, <1>4, <2>1, <2>2
<1>7. forms[q].status # "none"
  BY <1>4 DEF Open
<1>8. CASE Finalize(q, f, forms[q], "call")
  <2>1. Open(f)
    BY <1>1, <1>2, <1>4, Registries DEF Open, FormTypes
  <2>2. Realized(q, f, E, members[q], [f EXCEPT !.status = "created", !.joined = Accepted(f)], E, Founders(q, f))
    BY <2>1 DEF Realized
  <2>3. Moved(q, forms[q], decided[q], members[q], [f EXCEPT !.status = "created", !.joined = Accepted(f)], E, Founders(q, f))
    BY <1>6, <2>2 DEF Moved
  <2>4. "call" # "auto"
    OBVIOUS
  <2> QED
    BY <1>4, <1>5, <1>8, <2>3, <2>4, FinalizeAdvance
<1>9. CASE /\ forms' = [forms EXCEPT ![q] = f]
           /\ Commit({q}, {}, [NoUndo EXCEPT !.forms = Only(forms, {q}), !.decided = Only(decided, {q}),
                                             !.mail = Only(mail, {Initiator[q], a})], {}, "call")
           /\ UNCHANGED <<drafts, teams, members, mail>>
  <2>1. PICK S \in SUBSET Agents : S = {Initiator[q], a}
    BY FormationAssumption, ZenonT(60)
  <2>2. Moved(q, forms[q], decided[q], members[q], f, E, members[q])
    BY <1>6 DEF Moved
  <2>3. Commit({q}, {}, [NoUndo EXCEPT !.forms = Only(forms, {q}), !.decided = Only(decided, {q}),
                                       !.mail = Only(mail, S)], {}, "call")
    BY <1>9, <2>1
  <2>4. UNCHANGED <<limit, drafts, teams, members, mail, waiting, thinking>> /\ forms' = [forms EXCEPT ![q] = f]
    BY <1>4, <1>9
  <2> QED
    BY <1>4, <1>5, <1>7, <2>2, <2>3, <2>4, AnswerAdvance
<1> QED
  BY <1>1, <1>2, <1>8, <1>9 DEF Respond

LEMMA AbandonAdvance ==
    ASSUME Formed, Balloted, UNCHANGED limit, NEW q \in Requests, Abandon(q)
    PROVE  Advance
<1> DEFINE stale == Stale(q, {})
           told == Invited(forms[q]) \cup {Initiator[q]}
<1>1. /\ LockFree(q) /\ Open(forms[q]) /\ UNCHANGED <<limit, decided, teams, members, mail, waiting, thinking>>
      /\ drafts' = Staled(stale)
  BY DEF Abandon
<1>2. PICK G : G = [forms[q] EXCEPT !.status = "abandoned"]
  OBVIOUS
<1>3. PICK E, N : E = decided[q] /\ N = members[q]
  OBVIOUS
<1>4. told \in SUBSET Agents
  BY FormationAssumption DEF Invited
<1>5. stale \in SUBSET Drafts /\ \A d \in stale : drafts[d].status = "READY"
  BY StaleFacts
<1>6. forms[q].status # "none"
  BY <1>1 DEF Open
<1>7. PICK F, D, L, R, M, T : /\ F = Only(forms, {q}) /\ D = <<>> /\ L = Only(mail, told)
                              /\ R = Only(drafts, stale) /\ M = <<>> /\ T = {}
  OBVIOUS
<1>8. PICK u : u = DraftsUndo(F, R, L)
  OBVIOUS
<1>9. Commit({q}, {}, u, {}, "call")
  BY <1>7, <1>8 DEF Abandon, DraftsUndo
<1> HIDE DEF stale, told
<1>10. u = UndoIs(F, D, R, M, L, T)
  BY <1>7, <1>8, DraftsUndoIs
<1>11. RequestMoves(q, G, E, N)
  <2>1. forms' = [forms EXCEPT ![q] = G]
    BY <1>2 DEF Abandon
  <2>2. decided' = [decided EXCEPT ![q] = E] /\ members' = [members EXCEPT ![q] = N]
    BY <1>1, <1>3, Registries
  <2>3. Moved(q, forms[q], decided[q], members[q], G, E, N)
    BY <1>1, <1>2, <1>3 DEF Moved, Closing
  <2> QED
    BY <2>1, <2>2, <2>3 DEF RequestMoves
<1>12. Copies(q, F, D, M, R, L, T, E, N)
  <2>1. \A a \in DOMAIN L : L[a] \in SUBSET (Requests \X Nat)
    BY <1>4, <1>7, OnlyMail, Registries
  <2>2. \A d \in DOMAIN R : R[d] \in Drafty
    BY <1>5, <1>7, OnlyDrafts, Registries
  <2> QED
    BY <1>3, <1>7, <2>1, <2>2 DEF Copies
<1>13. OthersFormed
  <2>1. drafts' \in [Drafts -> Drafty] /\ Restyled
    BY <1>1, <1>5, StaledFacts DEF Restyled, Statuses
  <2>2. Scopes \subseteq teams' /\ teams' \subseteq Scopes \cup Requests /\ mail' \in [Agents -> SUBSET (Requests \X Nat)]
    BY <1>1, Registries
  <2> QED
    BY <1>1, <2>1, <2>2, OthersByStatus
<1>14. "call" # "auto"
  OBVIOUS
<1> QED
  BY <1>1, <1>6, <1>9, <1>10, <1>11, <1>12, <1>13, <1>14, RequestAdvance

-----------------------------------------------------------------------------
(* After creation. *)

\* An invitation of a formation, and of one in the registry.
Put(F, a, v, k) == [F EXCEPT !.attitude[a] = v, !.late[a] = k]
PutAt(f, q, a, v, k) == [f EXCEPT ![q].attitude[a] = v, ![q].late[a] = k]
Taken(F, a, v, k) == [F EXCEPT !.attitude[a] = v, !.joined = @ \cup {a}, !.late[a] = k]
TakenAt(f, q, a, v, k) == [f EXCEPT ![q].attitude[a] = v, ![q].joined = @ \cup {a}, ![q].late[a] = k]

LEMMA AtInvitation ==
    ASSUME NEW f \in [Requests -> FormTypes], NEW q \in Requests, NEW a, NEW v, NEW k
    PROVE  PutAt(f, q, a, v, k) = [f EXCEPT ![q] = Put(f[q], a, v, k)]
<1>1. PICK m : m = [f EXCEPT ![q].attitude[a] = v]
  OBVIOUS
<1>2. PICK g : g = [f[q] EXCEPT !.attitude[a] = v]
  OBVIOUS
<1>3. m = [f EXCEPT ![q] = g]
  BY <1>1, <1>2
<1>4. m[q] = g
  BY <1>3
<1>5. [m EXCEPT ![q].late[a] = k] = [m EXCEPT ![q] = [g EXCEPT !.late[a] = k]]
  BY <1>4
<1>6. PICK h : h = [g EXCEPT !.late[a] = k]
  OBVIOUS
<1>7. [m EXCEPT ![q] = h] = [f EXCEPT ![q] = h]
  BY <1>3
<1>8. [f EXCEPT ![q].attitude[a] = v, ![q].late[a] = k] = [m EXCEPT ![q].late[a] = k]
  BY <1>1
<1>9. [f[q] EXCEPT !.attitude[a] = v, !.late[a] = k] = h
  BY <1>2, <1>6
<1> QED
  BY <1>5, <1>6, <1>7, <1>8, <1>9 DEF Put, PutAt

LEMMA AtMember ==
    ASSUME NEW f \in [Requests -> FormTypes], NEW q \in Requests, NEW a, NEW v, NEW k
    PROVE  TakenAt(f, q, a, v, k) = [f EXCEPT ![q] = Taken(f[q], a, v, k)]
<1>1. PICK m : m = [f EXCEPT ![q].attitude[a] = v]
  OBVIOUS
<1>2. PICK g : g = [f[q] EXCEPT !.attitude[a] = v]
  OBVIOUS
<1>3. m = [f EXCEPT ![q] = g]
  BY <1>1, <1>2
<1>4. m[q] = g
  BY <1>3
<1>5. PICK h : h = [g EXCEPT !.joined = @ \cup {a}]
  OBVIOUS
<1>6. PICK n : n = [m EXCEPT ![q].joined = @ \cup {a}]
  OBVIOUS
<1>7. n = [m EXCEPT ![q] = h]
  BY <1>4, <1>5, <1>6
<1>8. n = [f EXCEPT ![q] = h]
  BY <1>3, <1>7
<1>9. n[q] = h
  BY <1>8
<1>10. PICK i : i = [h EXCEPT !.late[a] = k]
  OBVIOUS
<1>11. [n EXCEPT ![q].late[a] = k] = [n EXCEPT ![q] = i]
  BY <1>9, <1>10
<1>12. [n EXCEPT ![q] = i] = [f EXCEPT ![q] = i]
  BY <1>8
<1>13. [f EXCEPT ![q].attitude[a] = v, ![q].joined = @ \cup {a}, ![q].late[a] = k] = [n EXCEPT ![q].late[a] = k]
  <2>1. [f EXCEPT ![q].attitude[a] = v, ![q].joined = @ \cup {a}, ![q].late[a] = k]
          = [m EXCEPT ![q].joined = @ \cup {a}, ![q].late[a] = k]
    BY <1>1
  <2> QED
    BY <1>6, <2>1
<1>14. [f[q] EXCEPT !.attitude[a] = v, !.joined = @ \cup {a}, !.late[a] = k] = i
  <2>1. [f[q] EXCEPT !.attitude[a] = v, !.joined = @ \cup {a}, !.late[a] = k]
          = [g EXCEPT !.joined = @ \cup {a}, !.late[a] = k]
    BY <1>2
  <2> QED
    BY <1>5, <1>10, <2>1
<1> QED
  BY <1>11, <1>12, <1>13, <1>14 DEF Taken, TakenAt

LEMMA JoinAdvance ==
    ASSUME Formed, Balloted, UNCHANGED <<limit, thinking>>, NEW q \in Requests, NEW a \in Agents,
           LockFree(q), forms[q].status = "created",
           NEW before, before = forms[q], NEW undone \in SUBSET Agents, Join(q, a, before, undone),
           NEW E, decided' = [decided EXCEPT ![q] = E],
           \/ /\ a \in Invited(forms[q]) \ forms[q].joined /\ Proposal(forms[q]).late = "open"
              /\ E = Judge(decided[q], Revision(forms[q]), a, "accepted")
           \/ forms[q].late[a] = "pending" /\ E = decided[q]
    PROVE  Advance
<1>1. PICK G : G = Taken(forms[q], a, "accepted", "approved")
  OBVIOUS
<1>2. PICK N : N = members[q] \cup {a}
  OBVIOUS
<1>3. forms' = [forms EXCEPT ![q] = G]
  <2>1. forms' = TakenAt(forms, q, a, "accepted", "approved")
    BY DEF Join, TakenAt
  <2>2. TakenAt(forms, q, a, "accepted", "approved") = [forms EXCEPT ![q] = Taken(forms[q], a, "accepted", "approved")]
    BY AtMember, Registries
  <2> QED
    BY <1>1, <2>1, <2>2
<1>4. UNCHANGED <<limit, drafts, teams, mail, waiting, thinking>> /\ members' = [members EXCEPT ![q] = N]
  BY <1>2 DEF Join
<1>5. Joining(q, forms[q], decided[q], members[q], G, E, N)
  BY <1>1, <1>2 DEF Joining, Taken
<1>6. RequestMoves(q, G, E, N)
  BY <1>3, <1>4, <1>5 DEF RequestMoves, Moved
<1>7. PICK F, D, L, R, M, T : /\ F = Only(forms, {q}) /\ D = Only(decided, {q}) /\ L = Only(mail, undone)
                              /\ R = <<>> /\ M = Only(members, {q}) /\ T = {}
  OBVIOUS
<1>8. PICK u : u = JoinUndo(F, D, M, L)
  OBVIOUS
<1>9. Commit({q}, {}, u, {}, "call")
  <2>1. Commit({q}, {}, JoinUndo([x \in {q} |-> before], Only(decided, {q}), Only(members, {q}), Only(mail, undone)), {}, "call")
    BY DEF Join, JoinUndo
  <2>2. [x \in {q} |-> before] = Only(forms, {q})
    BY DEF Only
  <2> QED
    BY <1>7, <1>8, <2>1, <2>2
<1>10. u = UndoIs(F, D, R, M, L, T)
  BY <1>7, <1>8, JoinUndoIs
<1>11. Copies(q, F, D, M, R, L, T, E, N)
  <2>1. \A x \in DOMAIN L : L[x] \in SUBSET (Requests \X Nat)
    BY <1>7, OnlyMail, Registries
  <2>2. \A d \in DOMAIN R : R[d] \in Drafty
    BY <1>7, EmptyDomain
  <2> QED
    BY <1>7, <2>1, <2>2 DEF Copies
<1>12. OthersFormed
  BY <1>4, QuietOthers
<1>13. "call" # "auto" /\ forms[q].status # "none"
  OBVIOUS
<1> QED
  BY <1>6, <1>9, <1>10, <1>11, <1>12, <1>13, RequestAdvance

LEMMA RespondLateAdvance ==
    ASSUME Formed, Balloted, UNCHANGED limit, NEW q \in Requests, NEW a \in Agents, NEW n,
           NEW answer \in Answers, RespondLate(q, a, n, answer)
    PROVE  Advance
<1>1. PICK E : E = Judge(decided[q], n, a, answer)
  OBVIOUS
<1>2. /\ LockFree(q) /\ forms[q].status = "created" /\ n = Revision(forms[q])
      /\ a \in Invited(forms[q]) \ forms[q].joined /\ Proposal(forms[q]).late # "disabled"
      /\ Decide(q, n, a, answer)
  BY DEF RespondLate
<1>3. decided' = [decided EXCEPT ![q] = E]
  BY <1>1, <1>2 DEF Decide, Judge
<1>4. PICK S \in SUBSET Agents : S = {Initiator[q], a}
  BY FormationAssumption
<1>5. CASE answer = "accepted" /\ Proposal(forms[q]).late = "open"
  <2>1. PICK before : before = forms[q]
    OBVIOUS
  <2>2. Join(q, a, before, S)
    BY <1>4, <1>5, <2>1 DEF RespondLate
  <2>3. UNCHANGED <<limit, thinking>>
    BY <2>2 DEF Join
  <2>4. /\ a \in Invited(forms[q]) \ forms[q].joined /\ Proposal(forms[q]).late = "open"
        /\ E = Judge(decided[q], Revision(forms[q]), a, "accepted")
    BY <1>1, <1>2, <1>5
  <2> QED
    BY <1>2, <1>3, <2>1, <2>2, <2>3, <2>4, JoinAdvance
<1>6. CASE ~(answer = "accepted" /\ Proposal(forms[q]).late = "open")
  <2>1. PICK k : k = IF answer = "accepted" THEN "pending" ELSE "no"
    OBVIOUS
  <2>2. PICK G : G = Put(forms[q], a, answer, k)
    OBVIOUS
  <2>3. forms' = [forms EXCEPT ![q] = G]
    <3>1. forms' = PutAt(forms, q, a, answer, k)
      BY <1>6, <2>1 DEF RespondLate, PutAt
    <3>2. PutAt(forms, q, a, answer, k) = [forms EXCEPT ![q] = Put(forms[q], a, answer, k)]
      BY AtInvitation, Registries
    <3> QED
      BY <2>2, <3>1, <3>2
  <2>4. /\ Commit({q}, {}, [NoUndo EXCEPT !.forms = Only(forms, {q}), !.decided = Only(decided, {q}),
                                          !.mail = Only(mail, S)], {}, "call")
        /\ UNCHANGED <<limit, drafts, teams, members, mail, waiting, thinking>>
    BY <1>4, <1>6 DEF RespondLate
  <2>5. Reconsidered(q, forms[q], decided[q], members[q], G, E, members[q])
    BY <1>1, <1>2, <1>6, <2>1, <2>2 DEF Reconsidered, Put
  <2>6. Moved(q, forms[q], decided[q], members[q], G, E, members[q])
    BY <2>5 DEF Moved
  <2>7. forms[q].status # "none"
    BY <1>2
  <2> QED
    BY <1>2, <1>3, <2>3, <2>4, <2>6, <2>7, AnswerAdvance
<1> QED
  BY <1>5, <1>6

LEMMA DecideLateAdvance ==
    ASSUME Formed, Balloted, UNCHANGED limit, NEW q \in Requests, NEW a \in Agents, NEW approved,
           DecideLate(q, a, approved)
    PROVE  Advance
<1>1. /\ LockFree(q) /\ forms[q].status = "created" /\ forms[q].late[a] = "pending" /\ decided' = decided
  BY DEF DecideLate
<1>2. PICK E : E = decided[q]
  OBVIOUS
<1>3. decided' = [decided EXCEPT ![q] = E]
  BY <1>1, <1>2, Registries
<1>4. PICK S \in SUBSET Agents : S = {a}
  OBVIOUS
<1>5. CASE approved
  <2>1. PICK before : before = forms[q]
    OBVIOUS
  <2>2. Join(q, a, before, S)
    BY <1>4, <1>5, <2>1 DEF DecideLate
  <2>3. UNCHANGED <<limit, thinking>>
    BY <2>2 DEF Join
  <2>4. forms[q].late[a] = "pending" /\ E = decided[q]
    BY <1>1, <1>2
  <2> QED
    BY <1>1, <1>3, <2>1, <2>2, <2>3, <2>4, JoinAdvance, ZenonT(60)
<1>6. CASE ~approved
  <2>1. PICK G : G = [forms[q] EXCEPT !.late[a] = "denied"]
    OBVIOUS
  <2>2. /\ forms' = [forms EXCEPT ![q] = G] /\ UNCHANGED <<limit, drafts, teams, members, mail, waiting, thinking>>
    BY <1>6, <2>1 DEF DecideLate
  <2>3. PICK N : N = members[q]
    OBVIOUS
  <2>4. members' = [members EXCEPT ![q] = N]
    BY <2>2, <2>3, Registries
  <2>5. Refused(q, forms[q], decided[q], members[q], G, E, N)
    BY <1>1, <1>2, <2>1, <2>3 DEF Refused
  <2>6. RequestMoves(q, G, E, N)
    BY <1>3, <2>2, <2>4, <2>5 DEF RequestMoves, Moved
  <2>7. PICK F, D, L, R, M, T : /\ F = Only(forms, {q}) /\ D = <<>> /\ L = Only(mail, S)
                                /\ R = <<>> /\ M = <<>> /\ T = {}
    OBVIOUS
  <2>8. PICK u : u = FormUndo(F, L)
    OBVIOUS
  <2>9. Commit({q}, {}, u, {}, "call")
    BY <1>4, <1>6, <2>7, <2>8 DEF DecideLate, FormUndo
  <2>10. u = UndoIs(F, D, R, M, L, T)
    BY <2>7, <2>8, FormUndoIs
  <2>11. Copies(q, F, D, M, R, L, T, E, N)
    <3>1. \A x \in DOMAIN L : L[x] \in SUBSET (Requests \X Nat)
      BY <2>7, OnlyMail, Registries
    <3>2. \A d \in DOMAIN R : R[d] \in Drafty
      BY <2>7, EmptyDomain
    <3> QED
      BY <1>2, <2>3, <2>7, <3>1, <3>2 DEF Copies
  <2>12. OthersFormed
    BY <2>2, QuietOthers
  <2>13. "call" # "auto" /\ forms[q].status # "none"
    BY <1>1
  <2> QED
    BY <1>1, <2>6, <2>9, <2>10, <2>11, <2>12, <2>13, RequestAdvance
<1> QED
  BY <1>5, <1>6

-----------------------------------------------------------------------------
(* Revisions. *)

LEMMA ReviseAdvance ==
    ASSUME Formed, Balloted, UNCHANGED <<limit, decided, members>>, NEW q \in Requests,
           LockFree(q), Open(forms[q]),
           NEW c \in Contents, Last(forms[q].revisions).content # c, NEW source \in Drafts \cup {Nothing},
           NEW published, NEW copies, \A d \in DOMAIN copies : copies[d] \in Drafty, NEW held,
           Revise(q, c, source, published, copies, held), OthersFormed
    PROVE  Advance
<1> DEFINE stale == Stale(q, {source})
<1>1. PICK G : G = Revised(forms[q], c, source)
  OBVIOUS
<1>2. PICK E, N : E = decided[q] /\ N = members[q]
  OBVIOUS
<1>3. forms[q].status # "none" /\ Initiator[q] \in Agents
  BY FormationAssumption DEF Open
<1>4. PICK S \in SUBSET Agents : S = Invited(forms[q]) \cup Invited(G) \cup {Initiator[q]}
  BY <1>3 DEF Invited
<1>5. stale \in SUBSET Drafts
  BY StaleFacts
<1>6. PICK F, D, L, M, T : F = Only(forms, {q}) /\ D = <<>> /\ L = Only(mail, S) /\ M = <<>> /\ T = {}
  OBVIOUS
<1>7. PICK R : R = [d \in stale \cup DOMAIN copies |-> IF d \in DOMAIN copies THEN copies[d] ELSE drafts[d]]
  OBVIOUS
<1>8. PICK u : u = DraftsUndo(F, R, L)
  OBVIOUS
<1>9. PICK after : after = Autos(q, G)
  OBVIOUS
<1>10. forms' = [forms EXCEPT ![q] = G] /\ Commit({q}, held, u, after, "call")
  BY <1>1, <1>4, <1>6, <1>7, <1>8, <1>9 DEF Revise, DraftsUndo
<1>11. u = UndoIs(F, D, R, M, L, T)
  BY <1>6, <1>8, DraftsUndoIs
<1>12. RequestMoves(q, G, E, N)
  <2>1. decided' = [decided EXCEPT ![q] = E] /\ members' = [members EXCEPT ![q] = N]
    BY <1>2, Registries
  <2>2. Moved(q, forms[q], decided[q], members[q], G, E, N)
    BY <1>1, <1>2 DEF Moved, Rewritten
  <2> QED
    BY <1>10, <2>1, <2>2 DEF RequestMoves
<1>13. Copies(q, F, D, M, R, L, T, E, N)
  <2>1. \A x \in DOMAIN L : L[x] \in SUBSET (Requests \X Nat)
    BY <1>6, OnlyMail, Registries
  <2>2. \A d \in DOMAIN R : R[d] \in Drafty
    BY <1>5, <1>7, Registries
  <2> QED
    BY <1>2, <1>6, <2>1, <2>2 DEF Copies
<1>14. "call" # "auto"
  OBVIOUS
<1> QED
  BY <1>3, <1>10, <1>11, <1>12, <1>13, <1>14, RequestAdvance

LEMMA ReviseFormationAdvance ==
    ASSUME Formed, Balloted, UNCHANGED limit, NEW q \in Requests, NEW c \in Contents, ReviseFormation(q, c)
    PROVE  Advance
<1>1. /\ LockFree(q) /\ Revisable(q, c) /\ Revise(q, c, Nothing, <<>>, <<>>, {})
      /\ UNCHANGED <<limit, decided, teams, members, waiting, thinking>>
  BY DEF ReviseFormation
<1>2. Open(forms[q]) /\ Last(forms[q].revisions).content # c
  BY <1>1 DEF Revisable
<1>3. PICK none : none = <<>>
  OBVIOUS
<1>4. Revise(q, c, Nothing, none, none, {})
  BY <1>1, <1>3
<1>5. \A d \in DOMAIN none : none[d] \in Drafty
  BY <1>3, EmptyDomain
<1>6. PICK stale : stale = Stale(q, {Nothing})
  OBVIOUS
<1>7. stale \in SUBSET Drafts /\ \A d \in stale : drafts[d].status = "READY"
  BY <1>6, StaleFacts
<1>8. drafts' = Staled(stale)
  <2>1. drafts' = Override(Staled(stale), none)
    BY <1>4, <1>6 DEF Revise
  <2>2. DOMAIN Staled(stale) = Drafts
    BY DEF Staled
  <2>3. \A d \in Drafts : Override(Staled(stale), none)[d] = Staled(stale)[d]
    BY <1>3, <2>2, EmptyDomain DEF Override
  <2>4. Override(Staled(stale), none) = Staled(stale)
    BY <2>2, <2>3 DEF Override, Staled
  <2> QED
    BY <2>1, <2>4
<1>9. OthersFormed
  <2>1. drafts' \in [Drafts -> Drafty] /\ Restyled
    BY <1>7, <1>8, StaledFacts DEF Restyled, Statuses
  <2>2. mail' \in [Agents -> SUBSET (Requests \X Nat)]
    <3>1. PICK G : G = Revised(forms[q], c, Nothing)
      OBVIOUS
    <3>2. mail' = Told(Invited(G), <<q, Revision(G)>>)
      BY <1>4, <3>1 DEF Revise
    <3>3. G \in FormTypes
      BY <3>1, RevisedFields, Registries
    <3>4. <<q, Revision(G)>> \in Requests \X Nat
      BY <3>3, RevisionType
    <3> QED
      BY <3>2, <3>4, ToldType, Registries
  <2>3. Scopes \subseteq teams' /\ teams' \subseteq Scopes \cup Requests
    BY <1>1, Registries
  <2> QED
    BY <1>1, <2>1, <2>2, <2>3, OthersByStatus
<1>10. PICK s \in Drafts \cup {Nothing} : s = Nothing
  OBVIOUS
<1>11. PICK held : held = {}
  OBVIOUS
<1>12. Revise(q, c, s, none, none, held) /\ UNCHANGED <<limit, decided, members>>
  BY <1>1, <1>4, <1>10, <1>11
<1> QED
  BY <1>1, <1>2, <1>5, <1>9, <1>12, ReviseAdvance

-----------------------------------------------------------------------------
(* Drafts and their publication. *)

\* A commit that changes drafts and mail only.
LEMMA DraftAdvance ==
    ASSUME Formed, Balloted, UNCHANGED <<limit, forms, decided, members>>, OthersFormed,
           NEW rs \in SUBSET Requests, \A q \in rs : LockFree(q),
           NEW R, \A d \in DOMAIN R : R[d] \in Drafty,
           NEW L, \A a \in DOMAIN L : L[a] \in SUBSET (Requests \X Nat),
           NEW ds, NEW after, NEW kind, kind # "auto",
           NEW u, u = UndoIs(<<>>, <<>>, R, <<>>, L, {}), Commit(rs, ds, u, after, kind)
    PROVE  Advance
<1>1. PICK F, D, M, T : F = <<>> /\ D = <<>> /\ M = <<>> /\ T = {}
  OBVIOUS
<1>2. PICK c : c = [requests |-> rs, drafts |-> ds, undo |-> UndoIs(F, D, R, M, L, T), after |-> after, kind |-> kind]
  OBVIOUS
<1>3. flight' = flight \cup {c}
  BY <1>1, <1>2 DEF Commit
<1>4. Shifted
  BY ShiftedNone
<1>5. NewCommit(c)
  <2>1. /\ F = <<>> \/ (F = Only(forms, rs) /\ \A q \in rs : forms[q].status # "none")
        /\ D = <<>> \/ (D = Only(decided, rs) /\ F = Only(forms, rs))
        /\ M = <<>> \/ (M = Only(members, rs) /\ F = Only(forms, rs))
        /\ \A x \in T : Scopes \subseteq x /\ x \subseteq Scopes \cup Requests
        /\ \A q \in rs : /\ F = <<>> => forms'[q] = forms[q]
                         /\ D = <<>> => decided'[q] = decided[q]
                         /\ M = <<>> => members'[q] = members[q] \/ forms[q].status # "created"
        /\ kind = "auto" => F = Only(forms, rs) /\ M = <<>> /\ decided' = decided
    BY <1>1
  <2> QED
    BY <1>2, <2>1, NewCommitFacts
<1>6. flight' = flight \/ \E x : flight' = flight \cup {x} /\ NewCommit(x)
  BY <1>3, <1>5
<1>7. Formed'
  BY <1>4, <1>6, FormedAgain DEF OthersFormed
<1> QED
  BY <1>4, <1>6, <1>7 DEF Advance

\* Drafts of which some are stale, and of which some have another status.
Staler(f) == \A d \in Drafts : f[d] = drafts[d] \/ f[d] = [drafts[d] EXCEPT !.status = "STALE"]
Relabelled(f) == \A d \in Drafts : f[d] = drafts[d] \/ \E k \in Statuses : f[d] = [drafts[d] EXCEPT !.status = k]

LEMMA RelabelledDrafts == ASSUME Relabelled(drafts') PROVE Restyled
BY DEF Relabelled, Restyled

\* The draft that a publication marks.
LEMMA MarkedFacts ==
    ASSUME Formed, NEW w, IsWait(w), NEW k \in {"STALE", "PUBLISHED"},
           NEW f \in [Drafts -> Drafty],
           Staler(f), NEW g, g = Override(f, Registered(w, k))
    PROVE  g \in [Drafts -> Drafty] /\ Relabelled(g)
<1>1. k \in Statuses /\ "STALE" \in Statuses
  BY DEF Statuses
<1>2. w.draft \in Drafts
  BY DEF IsWait
<1>3. CASE w.own = {}
  <2>1. drafts[w.draft] \in Publishable
    BY <1>3 DEF IsWait
  <2>2. PICK y : y = [drafts[w.draft] EXCEPT !.status = k]
    OBVIOUS
  <2>3. y \in Drafty
    <3>1. drafts[w.draft] \in Drafty /\ drafts[w.draft].status # "none"
      BY <2>1 DEF Publishable
    <3>2. PICK x : x = drafts[w.draft]
      OBVIOUS
    <3>3. x \in Drafty /\ x.status # "none" /\ y = [x EXCEPT !.status = k]
      BY <2>2, <3>1, <3>2
    <3>4. k \in {"PENDING", "RUNNING", "READY", "STALE", "PUBLISHED", "FAILED", "CANCELLED"} /\ k # "READY"
      OBVIOUS
    <3> QED
      BY <3>3, <3>4, DraftStatus
  <2>4. PICK r : r = Registered(w, k)
    OBVIOUS
  <2>5. DOMAIN r = {w.draft} /\ r[w.draft] = y
    BY <1>3, <2>2, <2>4 DEF Registered
  <2>6. g = Override(f, r)
    BY <2>4
  <2>7. g = [d \in Drafts |-> IF d = w.draft THEN y ELSE f[d]]
    BY <2>5, <2>6 DEF Override
  <2> HIDE DEF Statuses
  <2>8. g \in [Drafts -> Drafty]
    BY <2>3, <2>7
  <2>9. \A d \in Drafts : d # w.draft => g[d] = f[d]
    BY <2>7
  <2>10. g[w.draft] = y
    BY <1>2, <2>7
  <2> QED
    <3>1. \A d \in Drafts : d # w.draft => g[d] = drafts[d] \/ g[d] = [drafts[d] EXCEPT !.status = "STALE"]
      BY <2>9 DEF Staler
    <3>2. g[w.draft] = [drafts[w.draft] EXCEPT !.status = k]
      BY <2>2, <2>10
    <3> SUFFICES ASSUME NEW d \in Drafts
                 PROVE  g[d] = drafts[d] \/ \E s \in Statuses : g[d] = [drafts[d] EXCEPT !.status = s]
      BY <2>8 DEF Relabelled
    <3>3. CASE d = w.draft
      BY <1>1, <3>2, <3>3
    <3>4. CASE d # w.draft
      BY <1>1, <3>1, <3>4
    <3> QED
      BY <3>3, <3>4
<1>4. CASE w.own # {}
  <2>1. PICK r : r = <<>>
    OBVIOUS
  <2>2. g = Override(f, r)
    BY <1>4, <2>1 DEF Registered
  <2>3. g = [d \in Drafts |-> f[d]]
    BY <2>1, <2>2, EmptyDomain DEF Override
  <2>4. g = f
    BY <2>3
  <2> QED
    BY <1>1, <2>4 DEF Staler, Relabelled
<1> QED
  BY <1>3, <1>4

LEMMA HeldFacts ==
    ASSUME Formed, NEW w, IsWait(w)
    PROVE  Held(w) \in Publishable
<1>1. CASE w.own = {}
  BY <1>1 DEF IsWait, Held
<1>2. CASE w.own # {}
  <2>1. (CHOOSE x \in w.own : TRUE) \in w.own
    BY <1>2
  <2>2. w.own \subseteq Publishable
    BY DEF IsWait
  <2> QED
    BY <1>2, <2>1, <2>2 DEF Held
<1> QED
  BY <1>1, <1>2

LEMMA MarkAdvance ==
    ASSUME Formed, Balloted, UNCHANGED <<limit, decided, members, teams, thinking>>, NEW w, IsWait(w),
           waiting' \subseteq waiting, LockFree(Held(w).request), NEW k \in {"STALE", "PUBLISHED"}, Mark(w, k)
    PROVE  Advance
<1>1. PICK x \in Publishable : x = Held(w)
  BY HeldFacts
<1>2. x \in Drafty /\ x.request \in Requests
  BY DEF Publishable
<1>3. w.draft \in Drafts
  BY DEF IsWait
<1>4. PICK R, L : R = [d \in {w.draft} |-> x] /\ L = <<>>
  OBVIOUS
<1>5. PICK u : u = DraftUndo(R)
  OBVIOUS
<1>6. PICK rs \in SUBSET Requests : rs = {x.request}
  BY <1>2
<1>7. PICK ds : ds = {w.draft}
  OBVIOUS
<1>8. Commit(rs, ds, u, {}, "call") /\ forms' = forms /\ mail' = mail
  BY <1>1, <1>4, <1>5, <1>6, <1>7 DEF Mark, DraftUndo
<1>9. u = UndoIs(<<>>, <<>>, R, <<>>, L, {})
  BY <1>4, <1>5, DraftUndoIs
<1>10. \A d \in DOMAIN R : R[d] \in Drafty
  BY <1>2, <1>4
<1>11. \A a \in DOMAIN L : L[a] \in SUBSET (Requests \X Nat)
  BY <1>4, EmptyDomain
<1>12. \A q \in rs : LockFree(q)
  BY <1>1, <1>6
<1>13. OthersFormed
  <2>1. PICK f \in [Drafts -> Drafty] : f = drafts
    BY Registries
  <2>2. Staler(f)
    BY <2>1 DEF Staler
  <2>3. PICK g : g = Override(f, Registered(w, k))
    OBVIOUS
  <2>4. drafts' = g
    BY <2>1, <2>3 DEF Mark
  <2>5. g \in [Drafts -> Drafty] /\ Relabelled(g)
    BY <2>2, <2>3, MarkedFacts
  <2>6. drafts' \in [Drafts -> Drafty] /\ Restyled
    BY <2>4, <2>5, RelabelledDrafts
  <2>7. Scopes \subseteq teams' /\ teams' \subseteq Scopes \cup Requests /\ mail' \in [Agents -> SUBSET (Requests \X Nat)]
    BY <1>8, Registries
  <2> QED
    BY <2>6, <2>7, OthersByStatus
<1>14. "call" # "auto" /\ UNCHANGED <<limit, forms, decided, members>>
  BY <1>8
<1> QED
  BY <1>8, <1>9, <1>10, <1>11, <1>12, <1>13, <1>14, DraftAdvance

LEMMA PublishHeldAdvance ==
    ASSUME Formed, Balloted, UNCHANGED limit, NEW w, IsWait(w), waiting' \subseteq waiting, PublishHeld(w)
    PROVE  Advance
<1>1. PICK x \in Publishable : x = Held(w)
  BY HeldFacts
<1>2. x \in Drafty /\ x.request \in Requests /\ x.candidate \in Contents
  BY DEF Publishable
<1>3. PICK q \in Requests : q = x.request
  BY <1>2
<1>4. PICK c \in Contents : c = x.candidate
  BY <1>2
<1>5. LockFree(q) /\ UNCHANGED <<limit, decided, members, teams, thinking>>
  BY <1>1, <1>3 DEF PublishHeld
<1>6. ASSUME NEW k \in {"STALE", "PUBLISHED"}, Mark(w, k) PROVE Advance
  <2>1. LockFree(Held(w).request)
    BY <1>1, <1>3, <1>5
  <2> QED
    BY <1>5, <1>6, <2>1, MarkAdvance
<1>7. CASE UNCHANGED <<forms, drafts, mail, flight>>
  <2>1. /\ drafts' \in [Drafts -> Drafty] /\ Scopes \subseteq teams' /\ teams' \subseteq Scopes \cup Requests
        /\ mail' \in [Agents -> SUBSET (Requests \X Nat)] /\ Restyled
    BY <1>5, <1>7, Registries DEF Restyled
  <2>2. OthersFormed
    BY <1>5, <2>1, OthersByStatus
  <2> QED
    BY <1>5, <1>7, <2>2, StandsStill
<1>8. CASE /\ Last(forms[q].revisions).content # c /\ Revisable(q, c)
           /\ Revise(q, c, w.draft, Registered(w, "PUBLISHED"), [d \in {w.draft} |-> x], {w.draft})
  <2>1. Open(forms[q]) /\ Last(forms[q].revisions).content # c
    BY <1>8 DEF Revisable
  <2>2. PICK s \in Drafts \cup {Nothing} : s = w.draft /\ s \in Drafts
    BY DEF IsWait
  <2>3. PICK copies, published, held : copies = [d \in {w.draft} |-> x] /\ published = Registered(w, "PUBLISHED") /\ held = {w.draft}
    OBVIOUS
  <2>4. Revise(q, c, s, published, copies, held)
    BY <1>8, <2>2, <2>3
  <2>5. \A d \in DOMAIN copies : copies[d] \in Drafty
    BY <1>2, <2>3
  <2>6. PICK stale : stale = Stale(q, {s})
    OBVIOUS
  <2>7. stale \in SUBSET Drafts /\ \A d \in stale : drafts[d].status = "READY"
    BY <2>6, StaleFacts
  <2>8. PICK f : f = Staled(stale)
    OBVIOUS
  <2>9. f \in [Drafts -> Drafty] /\ Staler(f)
    BY <2>7, <2>8, StaledFacts DEF Staler
  <2>10. PICK g : g = Override(f, Registered(w, "PUBLISHED"))
    OBVIOUS
  <2>11. drafts' = g
    BY <2>3, <2>4, <2>6, <2>8, <2>10 DEF Revise
  <2>12. PICK k \in {"STALE", "PUBLISHED"} : k = "PUBLISHED"
    OBVIOUS
  <2>13. g = Override(f, Registered(w, k))
    BY <2>10, <2>12
  <2>14. g \in [Drafts -> Drafty] /\ Relabelled(g)
    BY <2>9, <2>13, MarkedFacts
  <2>15. drafts' \in [Drafts -> Drafty] /\ Restyled
    BY <2>11, <2>14, RelabelledDrafts
  <2>16. mail' \in [Agents -> SUBSET (Requests \X Nat)]
    <3>1. PICK G : G = Revised(forms[q], c, s)
      OBVIOUS
    <3>2. mail' = Told(Invited(G), <<q, Revision(G)>>)
      BY <2>4, <3>1 DEF Revise
    <3>3. G \in FormTypes
      BY <3>1, RevisedFields, Registries
    <3>4. <<q, Revision(G)>> \in Requests \X Nat
      BY <3>3, RevisionType
    <3> QED
      BY <3>2, <3>4, ToldType, Registries
  <2>17. Scopes \subseteq teams' /\ teams' \subseteq Scopes \cup Requests
    BY <1>5, Registries
  <2>18. OthersFormed
    BY <1>5, <2>15, <2>16, <2>17, OthersByStatus
  <2>19. UNCHANGED <<limit, decided, members>>
    BY <1>5
  <2> QED
    BY <1>5, <2>1, <2>4, <2>5, <2>18, <2>19, ReviseAdvance
<1> QED
  BY <1>1, <1>3, <1>4, <1>6, <1>7, <1>8 DEF PublishHeld

LEMMA PublishWaitingAdvance ==
    ASSUME Formed, Balloted, UNCHANGED limit, NEW w, PublishWaiting(w)
    PROVE  Advance
<1>1. w \in waiting /\ PublishHeld(w) /\ waiting' \subseteq waiting
  BY DEF PublishWaiting
<1>2. IsWait(w)
  BY <1>1 DEF Formed
<1> QED
  BY <1>1, <1>2, PublishHeldAdvance

LEMMA PublishRevisionAdvance ==
    ASSUME Formed, Balloted, UNCHANGED limit, NEW d \in Drafts, PublishRevision(d)
    PROVE  Advance
<1>1. PICK w : w = [draft |-> d, own |-> {}]
  OBVIOUS
<1>2. drafts[d].status = "READY" /\ drafts[d].request # Initial
  BY DEF PublishRevision
<1>3. drafts[d] \in Drafty
  BY Registries
<1>4. drafts[d] \in Publishable
  BY <1>2, <1>3 DEF Publishable, Drafty, DraftTypes
<1>5. IsWait(w)
  BY <1>1, <1>4 DEF IsWait
<1>6. CASE PublishHeld(w) /\ UNCHANGED waiting
  BY <1>5, <1>6, PublishHeldAdvance
<1>7. CASE /\ waiting' = waiting \cup {w}
           /\ UNCHANGED <<forms, decided, drafts, teams, members, mail, flight, jobs, thinking, spent>>
  <2>1. \A v \in waiting' : IsWait(v)
    BY <1>5, <1>7 DEF Formed
  <2>2. \A v \in waiting' : IsWait(v)'
    BY <1>7, <2>1 DEF IsWait, Publishable, Drafty
  <2>3. OthersFormed
    BY <1>7, <2>2, Registries DEF OthersFormed
  <2> QED
    BY <1>7, <2>3, StandsStill
<1> QED
  BY <1>1, <1>6, <1>7 DEF PublishRevision

\* One draft changes, for which no publication waits.
LEMMA OthersByDraft ==
    ASSUME Formed, Balloted, UNCHANGED <<limit, teams, mail, waiting>>,
           \A x \in thinking' : x.draft \in Drafts,
           NEW d \in Drafts, NEW x \in Drafty, drafts' = [drafts EXCEPT ![d] = x],
           \A w \in waiting : w.draft = d => w.own # {}
    PROVE  OthersFormed
<1>1. drafts' \in [Drafts -> Drafty]
  BY Registries
<1>2. Publishable' = Publishable
  BY DEF Publishable, Drafty
<1>3. \A w \in waiting' : IsWait(w)'
  <2> SUFFICES ASSUME NEW w \in waiting PROVE IsWait(w)'
    OBVIOUS
  <2>1. IsWait(w)
    BY DEF Formed
  <2>2. w.draft \in Drafts
    BY <2>1 DEF IsWait
  <2>3. w.own = {} => drafts'[w.draft] = drafts[w.draft]
    BY <2>2, Registries
  <2> QED
    BY <1>2, <2>1, <2>3 DEF IsWait
<1> QED
  BY <1>1, <1>3, Registries DEF OthersFormed

\* Its operation can be taken back.
LEMMA OneDraftAdvance ==
    ASSUME Formed, Balloted, UNCHANGED <<limit, forms, decided, members, teams, mail, waiting>>,
           \A x \in thinking' : x.draft \in Drafts,
           NEW d \in Drafts, NEW x \in Drafty, drafts' = [drafts EXCEPT ![d] = x],
           \A w \in waiting : w.draft = d => w.own # {},
           NEW rs \in SUBSET Requests, \A q \in rs : LockFree(q),
           NEW S \in SUBSET Agents, NEW L, L = <<>> \/ L = Only(mail, S), NEW ds, NEW after, NEW kind, kind # "auto",
           NEW R, R = Only(drafts, {d}), Commit(rs, ds, UndoIs(<<>>, <<>>, R, <<>>, L, {}), after, kind)
    PROVE  Advance
<1>1. OthersFormed
  BY OthersByDraft
<1>2. \A e \in DOMAIN R : R[e] \in Drafty
  BY OnlyDrafts, Registries
<1>3. \A a \in DOMAIN L : L[a] \in SUBSET (Requests \X Nat)
  BY EmptyDomain, OnlyMail, Registries
<1>4. PICK u : u = UndoIs(<<>>, <<>>, R, <<>>, L, {})
  OBVIOUS
<1>5. Commit(rs, ds, u, after, kind)
  BY <1>4
<1> QED
  BY <1>1, <1>2, <1>3, <1>4, <1>5, DraftAdvance

LEMMA SetDraftAdvance ==
    ASSUME Formed, Balloted, UNCHANGED limit, NEW d \in Drafts, NEW x \in Drafty, DraftFree(d),
           NEW after, NEW kind, kind # "auto", SetDraft(d, x, after, kind), UNCHANGED thinking
    PROVE  Advance
<1>1. /\ UNCHANGED <<limit, forms, decided, members, teams, mail, waiting>>
      /\ drafts' = [drafts EXCEPT ![d] = x]
      /\ \A y \in thinking' : y.draft \in Drafts
      /\ \A w \in waiting : w.draft = d => w.own # {}
  BY Registries DEF SetDraft, DraftFree
<1>2. PICK rs \in SUBSET Requests, S \in SUBSET Agents : rs = {} /\ S = {}
  OBVIOUS
<1>3. PICK R, L, ds : R = Only(drafts, {d}) /\ L = <<>> /\ ds = {d}
  OBVIOUS
<1>4. Commit(rs, ds, UndoIs(<<>>, <<>>, R, <<>>, L, {}), after, kind)
  <2>1. Commit(rs, ds, DraftUndo(R), after, kind)
    BY <1>2, <1>3 DEF SetDraft, DraftUndo
  <2> QED
    BY <1>3, <2>1, DraftUndoIs
<1>5. \A q \in rs : LockFree(q)
  BY <1>2
<1> QED
  BY <1>1, <1>3, <1>4, <1>5, OneDraftAdvance

LEMMA RetryDraftAdvance ==
    ASSUME Formed, Balloted, UNCHANGED limit, NEW d \in Drafts, RetryDraft(d)
    PROVE  Advance
<1>1. PICK x : x = [drafts[d] EXCEPT !.status = "PENDING"]
  OBVIOUS
<1>2. x \in Drafty
  <2>1. PICK y \in Drafty : y = drafts[d]
    BY Registries
  <2>2. y.status # "none" /\ x = [y EXCEPT !.status = "PENDING"]
    BY <1>1, <2>1 DEF RetryDraft
  <2>3. PICK k \in {"PENDING", "RUNNING", "READY", "STALE", "PUBLISHED", "FAILED", "CANCELLED"} : k = "PENDING"
    OBVIOUS
  <2>4. x = [y EXCEPT !.status = k] /\ k # "READY"
    BY <2>2, <2>3
  <2> QED
    BY <2>2, <2>4, DraftStatus
<1>3. PICK after : after = {<<"draft", d, 0>>}
  OBVIOUS
<1>4. DraftFree(d) /\ SetDraft(d, x, after, "call") /\ UNCHANGED thinking
  BY <1>1, <1>3 DEF RetryDraft
<1>5. "call" # "auto"
  OBVIOUS
<1> QED
  BY <1>2, <1>4, <1>5, SetDraftAdvance

LEMMA RunDraftAdvance ==
    ASSUME Formed, Balloted, UNCHANGED limit, NEW d \in Drafts, RunDraft(d)
    PROVE  Advance
<1>1. CASE drafts[d].status = "PENDING" /\ SetDraft(d, [drafts[d] EXCEPT !.status = "RUNNING"], {<<"think", d, 0>>}, "task")
  <2>1. PICK x : x = [drafts[d] EXCEPT !.status = "RUNNING"]
    OBVIOUS
  <2>2. x \in Drafty
    <3>1. PICK y \in Drafty : y = drafts[d]
      BY Registries
    <3>2. y.status # "none" /\ x = [y EXCEPT !.status = "RUNNING"]
      BY <1>1, <2>1, <3>1
    <3>3. PICK k \in {"PENDING", "RUNNING", "READY", "STALE", "PUBLISHED", "FAILED", "CANCELLED"} : k = "RUNNING"
      OBVIOUS
    <3>4. x = [y EXCEPT !.status = k] /\ k # "READY"
      BY <3>2, <3>3
    <3> QED
      BY <3>2, <3>4, DraftStatus
  <2>3. PICK after : after = {<<"think", d, 0>>}
    OBVIOUS
  <2>4. DraftFree(d) /\ SetDraft(d, x, after, "task") /\ UNCHANGED thinking
    BY <1>1, <2>1, <2>3 DEF RunDraft
  <2>5. "task" # "auto"
    OBVIOUS
  <2> QED
    BY <2>2, <2>4, <2>5, SetDraftAdvance
<1>2. CASE UNCHANGED <<forms, decided, drafts, teams, members, mail, flight, waiting, spent>>
  <2>1. UNCHANGED <<limit, drafts, teams, mail, waiting, thinking>>
    BY <1>2 DEF RunDraft
  <2> QED
    BY <1>2, <2>1, QuietOthers, StandsStill
<1> QED
  BY <1>1, <1>2 DEF RunDraft

LEMMA ConcludeAdvance ==
    ASSUME Formed, Balloted, UNCHANGED limit, NEW d \in Drafts, NEW x, Conclude(d, x),
           drafts[d].status = "RUNNING" => x \in Drafty,
           \A y \in thinking' : y.draft \in Drafts
    PROVE  Advance
<1>1. UNCHANGED <<limit, forms, decided, members, teams, mail, waiting>> /\ DraftFree(d)
  BY DEF Conclude
<1>2. CASE drafts[d].status = "RUNNING"
  <2>1. x \in Drafty
    BY <1>2
  <2>2. drafts' = [drafts EXCEPT ![d] = x] /\ \A w \in waiting : w.draft = d => w.own # {}
    BY <1>1, <1>2 DEF Conclude, DraftFree
  <2>3. PICK rs \in SUBSET Requests, S \in SUBSET Agents : rs = {} /\ S = {Initiator[d]}
    BY FormationAssumption, ZenonT(60)
  <2>4. PICK R, L, ds, after : R = Only(drafts, {d}) /\ L = Only(mail, S) /\ ds = {d} /\ after = {}
    OBVIOUS
  <2>5. Commit(rs, ds, UndoIs(<<>>, <<>>, R, <<>>, L, {}), after, "task")
    <3>1. Commit(rs, ds, NoteUndo(R, L), after, "task")
      BY <1>2, <2>3, <2>4 DEF Conclude, NoteUndo
    <3> QED
      BY <3>1, NoteUndoIs
  <2>6. \A q \in rs : LockFree(q)
    BY <2>3
  <2>7. "task" # "auto"
    OBVIOUS
  <2> QED
    BY <1>1, <2>1, <2>2, <2>4, <2>5, <2>6, <2>7, OneDraftAdvance
<1>3. CASE UNCHANGED <<drafts, flight>>
  <2>1. OthersFormed
    <3>1. /\ drafts' \in [Drafts -> Drafty] /\ Scopes \subseteq teams' /\ teams' \subseteq Scopes \cup Requests
          /\ mail' \in [Agents -> SUBSET (Requests \X Nat)] /\ Restyled
      BY <1>1, <1>3, Registries DEF Restyled
    <3>2. \A w \in waiting' : IsWait(w)'
      BY <1>1, <3>1, WaitsKept
    <3> QED
      BY <3>1, <3>2 DEF OthersFormed
  <2> QED
    BY <1>1, <1>3, <2>1, StandsStill
<1> QED
  BY <1>2, <1>3 DEF Conclude

LEMMA BaseGoneAdvance ==
    ASSUME Formed, Balloted, UNCHANGED limit, NEW d \in Drafts, BaseGone(d)
    PROVE  Advance
<1>1. PICK x : x = [drafts[d] EXCEPT !.status = "STALE"]
  OBVIOUS
<1>2. Conclude(d, x) /\ \A y \in thinking' : y.draft \in Drafts
  BY <1>1, Registries DEF BaseGone
<1>3. drafts[d].status = "RUNNING" => x \in Drafty
  <2> SUFFICES ASSUME drafts[d].status = "RUNNING" PROVE x \in Drafty
    OBVIOUS
  <2>1. PICK y \in Drafty : y = drafts[d]
    BY Registries
  <2>2. PICK k \in {"PENDING", "RUNNING", "READY", "STALE", "PUBLISHED", "FAILED", "CANCELLED"} : k = "STALE"
    OBVIOUS
  <2>3. y.status # "none" /\ x = [y EXCEPT !.status = k] /\ k # "READY"
    BY <1>1, <2>1, <2>2
  <2> QED
    BY <2>3, DraftStatus
<1> QED
  BY <1>2, <1>3, ConcludeAdvance

LEMMA DeliverAdvance ==
    ASSUME Formed, Balloted, UNCHANGED limit, NEW v, NEW c \in Contents, Deliver(v, c)
    PROVE  Advance
<1>1. v.draft \in Drafts /\ \A y \in thinking' : y.draft \in Drafts
  BY Registries DEF Deliver
<1>2. PICK d \in Drafts : d = v.draft
  BY <1>1
<1>3. PICK k \in {"READY", "STALE"} : k = IF BaseCurrent(drafts[d]) THEN "READY" ELSE "STALE"
  OBVIOUS
<1>4. PICK x : x = [drafts[d] EXCEPT !.status = k, !.candidate = c]
  OBVIOUS
<1>5. Conclude(d, x)
  BY <1>2, <1>3, <1>4 DEF Deliver
<1>6. x \in Drafty \/ drafts[d].status # "RUNNING"
  <2>1. PICK y \in Drafty : y = drafts[d]
    BY Registries
  <2>2. x = [y EXCEPT !.status = k, !.candidate = c]
    BY <1>4, <2>1
  <2>3. PICK z : z = [y EXCEPT !.candidate = c]
    OBVIOUS
  <2>4. z \in DraftTypes /\ z.request = y.request /\ z.status = y.status /\ z.candidate = c
    BY <2>3 DEF Drafty, DraftTypes
  <2>5. x = [z EXCEPT !.status = k]
    BY <2>2, <2>3, <2>4 DEF Drafty, DraftTypes
  <2>6. x \in DraftTypes /\ x.request = y.request /\ x.candidate = c
    BY <2>4, <2>5 DEF DraftTypes
  <2> QED
    BY <2>1, <2>6 DEF Drafty
<1> QED
  BY <1>1, <1>5, <1>6, ConcludeAdvance

LEMMA GiveUpAdvance ==
    ASSUME Formed, Balloted, UNCHANGED limit, NEW v, GiveUp(v)
    PROVE  Advance
<1>1. v.draft \in Drafts /\ \A y \in thinking' : y.draft \in Drafts
  BY Registries DEF GiveUp
<1>2. PICK d \in Drafts : d = v.draft
  BY <1>1
<1>3. PICK x : x = [drafts[d] EXCEPT !.status = "FAILED"]
  OBVIOUS
<1>4. Conclude(d, x)
  BY <1>2, <1>3 DEF GiveUp
<1>5. drafts[d].status = "RUNNING" => x \in Drafty
  <2> SUFFICES ASSUME drafts[d].status = "RUNNING" PROVE x \in Drafty
    OBVIOUS
  <2>1. PICK y \in Drafty : y = drafts[d]
    BY Registries
  <2>2. PICK k \in {"PENDING", "RUNNING", "READY", "STALE", "PUBLISHED", "FAILED", "CANCELLED"} : k = "FAILED"
    OBVIOUS
  <2>3. y.status # "none" /\ x = [y EXCEPT !.status = k] /\ k # "READY"
    BY <1>3, <2>1, <2>2
  <2> QED
    BY <2>3, DraftStatus
<1> QED
  BY <1>1, <1>4, <1>5, ConcludeAdvance

LEMMA DeliberateAdvance ==
    ASSUME Formed, Balloted, UNCHANGED limit, NEW d \in Drafts, Deliberate(d)
    PROVE  Advance
<1>1. UNCHANGED <<limit, forms, decided, drafts, teams, members, mail, flight, waiting>>
  BY DEF Deliberate
<1>2. \A y \in thinking' : y.draft \in Drafts
  BY Registries DEF Deliberate
<1>3. OthersFormed
  <2>1. /\ drafts' \in [Drafts -> Drafty] /\ Scopes \subseteq teams' /\ teams' \subseteq Scopes \cup Requests
        /\ mail' \in [Agents -> SUBSET (Requests \X Nat)] /\ Restyled
    BY <1>1, Registries DEF Restyled
  <2>2. \A w \in waiting' : IsWait(w)'
    BY <1>1, <2>1, WaitsKept
  <2> QED
    BY <1>2, <2>1, <2>2 DEF OthersFormed
<1> QED
  BY <1>1, <1>3, StandsStill

LEMMA NewDraftAdvance ==
    ASSUME Formed, Balloted, UNCHANGED limit, NEW d \in Drafts, NEW q \in Requests \cup {Initial}, NewDraft(d, q)
    PROVE  Advance
<1>1. PICK b : b = IF q = Initial THEN 0 ELSE Revision(forms[q])
  OBVIOUS
<1>2. PICK x : x = [NoDraft EXCEPT !.status = "PENDING", !.request = q, !.base = b]
  OBVIOUS
<1>3. /\ UNCHANGED <<limit, forms, decided, members, teams, mail, waiting, thinking>>
      /\ drafts[d].status = "none" /\ drafts' = [drafts EXCEPT ![d] = x]
      /\ IF q = Initial THEN limit.initial ELSE LockFree(q)
  BY <1>1, <1>2 DEF NewDraft
<1>4. b \in Nat
  BY <1>1, RevisionType, Registries
<1>5. x \in Drafty
  <2>1. x = [status |-> "PENDING", request |-> q, base |-> b, candidate |-> Nothing]
    BY <1>2 DEF NoDraft
  <2> QED
    BY <1>3, <1>4, <2>1 DEF Drafty, DraftTypes
<1>6. \A w \in waiting : w.draft = d => w.own # {}
  <2> SUFFICES ASSUME NEW w \in waiting, w.draft = d, w.own = {} PROVE FALSE
    OBVIOUS
  <2>1. IsWait(w)
    BY DEF Formed
  <2> QED
    BY <1>3, <2>1 DEF IsWait, Publishable
<1>7. PICK rs \in SUBSET Requests, S \in SUBSET Agents : rs = {q} \ {Initial} /\ S = {}
  OBVIOUS
<1>8. PICK R, L, ds, after : R = Only(drafts, {d}) /\ L = <<>> /\ ds = {d} /\ after = {<<"draft", d, 0>>}
  OBVIOUS
<1>9. Commit(rs, ds, UndoIs(<<>>, <<>>, R, <<>>, L, {}), after, "call")
  <2>1. Commit(rs, ds, DraftUndo(R), after, "call")
    BY <1>7, <1>8 DEF NewDraft, DraftUndo
  <2> QED
    BY <1>8, <2>1, DraftUndoIs
<1>10. \A r \in rs : LockFree(r)
  BY <1>3, <1>7
<1>11. "call" # "auto" /\ \A y \in thinking' : y.draft \in Drafts
  BY <1>3, Registries
<1> QED
  BY <1>3, <1>5, <1>6, <1>8, <1>9, <1>10, <1>11, OneDraftAdvance

LEMMA PublishInitialAdvance ==
    ASSUME Formed, Balloted, UNCHANGED limit, NEW d \in Drafts, NEW q \in Requests, PublishInitial(d, q)
    PROVE  Advance
<1>1. PICK c : c = drafts[d].candidate
  OBVIOUS
<1>2. PICK f : f = Revised(Unused, c, d)
  OBVIOUS
<1>3. /\ DraftFree(d) /\ drafts[d].status = "READY" /\ drafts[d].request = Initial
      /\ forms[q].status = "none" /\ forms' = [forms EXCEPT ![q] = f]
      /\ mail' = Told(Invited(f), <<q, 1>>)
      /\ drafts' = [drafts EXCEPT ![d].status = "PUBLISHED"]
      /\ UNCHANGED <<limit, decided, teams, members, waiting, thinking>>
  BY <1>1, <1>2 DEF PublishInitial
<1>4. drafts[d] \in Drafty
  BY Registries
<1>5. c \in Contents /\ limit.initial
  BY <1>1, <1>3, <1>4 DEF Drafty
<1>6. PICK S \in SUBSET Agents : S = Invited(f) \cup {Initiator[d]}
  <2>1. Initiator[d] \in Agents
    BY FormationAssumption
  <2>2. Invited(f) \cup {Initiator[d]} \in SUBSET Agents
    BY <2>1 DEF Invited
  <2> QED
    BY <2>2
<1>7. PICK F, D, R, M, L, T : /\ F = Only(forms, {q}) /\ R = Only(drafts, {d}) /\ L = Only(mail, S)
                              /\ D = <<>> /\ M = <<>> /\ T = {}
  OBVIOUS
<1>8. PICK rs \in SUBSET Requests : rs = {}
  OBVIOUS
<1>9. PICK ds, after, kind : ds = {d} /\ after = Autos(q, f) /\ kind = "call"
  OBVIOUS
<1>10. PICK u : u = UndoIs(F, D, R, M, L, T)
  OBVIOUS
<1>11. PICK w : w = [requests |-> rs, drafts |-> ds, undo |-> u, after |-> after, kind |-> kind]
  OBVIOUS
<1>12. flight' = flight \cup {w}
  <2>1. Commit(rs, ds, DraftsUndo(F, R, L), after, kind)
    BY <1>1, <1>2, <1>6, <1>7, <1>8, <1>9 DEF PublishInitial, DraftsUndo
  <2>2. DraftsUndo(F, R, L) = u
    BY <1>7, <1>10, DraftsUndoIs
  <2> QED
    BY <1>11, <2>1, <2>2 DEF Commit
<1>13. NewCommit(w)
  <2>1. \A x \in DOMAIN F : F[x] \in FormTypes
    BY <1>7, OnlyFacts, Registries
  <2>2. \A x \in DOMAIN D : D[x] \in SUBSET Judged
    BY <1>7, EmptyDomain
  <2>3. \A x \in DOMAIN R : R[x] \in Drafty
    BY <1>7, OnlyDrafts, Registries
  <2>4. \A x \in DOMAIN M : M[x] \in SUBSET Agents
    BY <1>7, EmptyDomain
  <2>5. \A x \in DOMAIN L : L[x] \in SUBSET (Requests \X Nat)
    BY <1>7, OnlyMail, Registries
  <2>6. \A x \in T : Scopes \subseteq x /\ x \subseteq Scopes \cup Requests
    BY <1>7
  <2>7. IsUndo(u)
    BY <1>10, <2>1, <2>2, <2>3, <2>4, <2>5, <2>6, NewUndo
  <2>8. IsCommit(w)
    BY <1>8, <1>11, <2>7 DEF IsCommit
  <2>9. w.undo = u /\ w.requests = {} /\ w.kind = "call" /\ u.decided = D /\ u.members = M
    BY <1>8, <1>9, <1>10, <1>11 DEF UndoIs
  <2>10. DOMAIN u.decided = {} /\ DOMAIN u.members = {}
    BY <1>7, <2>9, EmptyDomain
  <2> QED
    BY <1>5, <2>8, <2>9, <2>10 DEF NewCommit
<1>14. Shifted
  <2>1. PICK E, N : E = decided[q] /\ N = members[q]
    OBVIOUS
  <2>2. decided' = [decided EXCEPT ![q] = E] /\ members' = [members EXCEPT ![q] = N]
    BY <1>3, <2>1, Registries
  <2>3. Moved(q, forms[q], decided[q], members[q], f, E, N)
    BY <1>2, <1>3, <1>5, <2>1 DEF Moved, Begun
  <2>4. LockFree(q) \/ (forms[q].status = "none" /\ N = members[q])
    BY <1>3, <2>1
  <2>5. forms' = [forms EXCEPT ![q] = f]
    BY <1>3
  <2> QED
    BY <2>2, <2>3, <2>4, <2>5, ShiftedBy
<1>15. PICK x : x = [drafts[d] EXCEPT !.status = "PUBLISHED"]
  OBVIOUS
<1>16. x \in Drafty /\ drafts' = [drafts EXCEPT ![d] = x]
  <2>1. PICK y \in Drafty : y = drafts[d]
    BY <1>4
  <2>2. PICK k \in {"PENDING", "RUNNING", "READY", "STALE", "PUBLISHED", "FAILED", "CANCELLED"} : k = "PUBLISHED"
    OBVIOUS
  <2>3. y.status # "none" /\ x = [y EXCEPT !.status = k] /\ k # "READY"
    BY <1>3, <1>15, <2>1, <2>2
  <2> QED
    BY <1>3, <1>15, <2>3, DraftStatus
<1>17. drafts' \in [Drafts -> Drafty]
  BY <1>16, Registries
<1>18. \A v \in waiting' : IsWait(v)'
  <2>1. Publishable' = Publishable
    BY <1>3 DEF Publishable, Drafty
  <2> SUFFICES ASSUME NEW v \in waiting PROVE IsWait(v)'
    BY <1>3
  <2>2. IsWait(v)
    BY DEF Formed
  <2>3. v.draft \in Drafts /\ v.draft # d
    BY <1>3, <2>2 DEF IsWait, DraftFree
  <2>4. drafts'[v.draft] = drafts[v.draft]
    BY <1>16, <2>3, Registries
  <2> QED
    BY <2>1, <2>2, <2>4 DEF IsWait
<1>19. mail' \in [Agents -> SUBSET (Requests \X Nat)]
  <2>1. <<q, 1>> \in Requests \X Nat
    OBVIOUS
  <2> QED
    BY <1>3, <2>1, ToldType, Registries
<1>20. Scopes \subseteq teams' /\ teams' \subseteq Scopes \cup Requests /\ \A y \in thinking' : y.draft \in Drafts
  BY <1>3, Registries
<1>21. flight' = flight \/ \E y : flight' = flight \cup {y} /\ NewCommit(y)
  BY <1>12, <1>13
<1>22. Formed'
  BY <1>14, <1>17, <1>18, <1>19, <1>20, <1>21, FormedAgain
<1> QED
  BY <1>3, <1>14, <1>21, <1>22 DEF Advance

LEMMA LeaveAdvance ==
    ASSUME Formed, Balloted, UNCHANGED limit, NEW a, NEW t \in Scopes \cup Requests, Leave(a, t)
    PROVE  Advance
<1>1. /\ UNCHANGED <<limit, forms, decided, drafts, teams, mail, flight, waiting, thinking>>
      /\ StateLockFree(t) /\ members' = [members EXCEPT ![t] = @ \ {a}] /\ Adds("leaves")
  BY DEF Leave, StateLockFree, Adds
<1>2. /\ members' \in [Scopes \cup Requests -> SUBSET Agents] /\ members'[t] \subseteq members[t]
      /\ \A u \in Scopes \cup Requests : u # t => members'[u] = members[u]
  BY <1>1, Registries
<1>3. \A q \in Requests : members'[q] \in SUBSET members[q]
  BY <1>2
<1>4. \A q \in Requests : Moved(q, forms[q], decided[q], members[q], forms'[q], decided'[q], members'[q])
  BY <1>1, <1>3 DEF Moved
<1>5. Shifted
  BY <1>1, <1>2, <1>4, Registries DEF Shifted
<1>6. OthersFormed
  BY <1>1, QuietOthers
<1>7. Formed'
  BY <1>1, <1>5, <1>6, FormedAgain DEF OthersFormed
<1> QED
  BY <1>1, <1>5, <1>7 DEF Advance

\* Every step of formations but the end of a commit.
Operation ==
    \/ \E q \in Requests \cap limit.agenda : Request(q) \/ AutoStep(q)
    \/ \E d \in Drafts \cap limit.agenda : Draft(d) \/ DraftStep(d)
    \/ \E a \in Agents, t \in Scopes \cup Requests : Leave(a, t)

LEMMA OperationAdvance ==
    ASSUME Formed, Balloted, UNCHANGED limit, Operation
    PROVE  Advance
<1>0. limit.contents \subseteq Contents
  BY DEF Formed
<1>1. ASSUME NEW q \in Requests, Request(q) PROVE Advance
  <2>1. ASSUME NEW c \in limit.contents, Propose(q, c) \/ ReviseFormation(q, c) PROVE Advance
    <3>1. c \in Contents
      BY <1>0, <2>1
    <3> QED
      BY <2>1, <3>1, ProposeAdvance, ReviseFormationAdvance
  <2>2. ASSUME NEW a \in Agents, NEW n, NEW answer \in Answers,
               Respond(q, a, n, answer) \/ RespondLate(q, a, n, answer) PROVE Advance
    BY <2>2, RespondAdvance, RespondLateAdvance
  <2>3. ASSUME Create(q) \/ Abandon(q) PROVE Advance
    BY <2>3, CreateAdvance, AbandonAdvance
  <2>4. ASSUME NEW a \in Agents, NEW approved, DecideLate(q, a, approved) PROVE Advance
    BY <2>4, DecideLateAdvance
  <2> QED
    BY <1>1, <2>1, <2>2, <2>3, <2>4, Zenon DEF Request, Answer
<1>2. ASSUME NEW q \in Requests, AutoStep(q) PROVE Advance
  BY <1>2, AutoCreateAdvance, Zenon DEF AutoStep
<1>3. ASSUME NEW d \in Drafts, Draft(d) PROVE Advance
  <2>1. ASSUME NEW q \in Requests \cup {Initial}, NewDraft(d, q) PROVE Advance
    BY <2>1, NewDraftAdvance
  <2>2. ASSUME RetryDraft(d) \/ PublishRevision(d) PROVE Advance
    BY <2>2, RetryDraftAdvance, PublishRevisionAdvance
  <2>3. ASSUME NEW q \in Requests, PublishInitial(d, q) PROVE Advance
    BY <2>3, PublishInitialAdvance
  <2> QED
    BY <1>3, <2>1, <2>2, <2>3, Zenon DEF Draft
<1>4. ASSUME NEW d \in Drafts, DraftStep(d) PROVE Advance
  <2>1. ASSUME RunDraft(d) \/ Deliberate(d) \/ BaseGone(d) PROVE Advance
    BY <2>1, RunDraftAdvance, DeliberateAdvance, BaseGoneAdvance
  <2>2. ASSUME NEW v, NEW c \in limit.contents, Deliver(v, c) PROVE Advance
    <3>1. c \in Contents
      BY <1>0, <2>2
    <3> QED
      BY <2>2, <3>1, DeliverAdvance
  <2>3. ASSUME NEW v, GiveUp(v) PROVE Advance
    BY <2>3, GiveUpAdvance
  <2>4. ASSUME NEW w, PublishWaiting(w) PROVE Advance
    BY <2>4, PublishWaitingAdvance
  <2> QED
    BY <1>4, <2>1, <2>2, <2>3, <2>4, Zenon DEF DraftStep
<1>5. ASSUME NEW a, NEW t \in Scopes \cup Requests, Leave(a, t) PROVE Advance
  BY <1>5, LeaveAdvance
<1> QED
  BY <1>1, <1>2, <1>3, <1>4, <1>5, Zenon DEF Operation

-----------------------------------------------------------------------------
(* Commits that end, restarts, and the types as an invariant. *)

\* The operation that follows a failed automatic creation.
ReasonUndo(f) ==
    FormUndo(Only(forms, f.requests),
             Only(Override(mail, f.undo.mail), {Initiator[q] : q \in f.requests}))
Reason(f) == [f EXCEPT !.kind = "reason", !.undo = ReasonUndo(f)]

LEMMA ReasonFacts ==
    ASSUME Formed, NEW f \in flight
    PROVE  /\ Reason(f) = [requests |-> f.requests, drafts |-> f.drafts, undo |-> ReasonUndo(f),
                           after |-> f.after, kind |-> "reason"]
           /\ IsCommit(Reason(f))
           /\ ReasonUndo(f).forms = Only(forms, f.requests)
           /\ ReasonUndo(f).decided = <<>> /\ ReasonUndo(f).members = <<>> /\ ReasonUndo(f).drafts = <<>>
<1>1. IsCommit(f)
  BY DEF Formed
<1>2. f = [requests |-> f.requests, drafts |-> f.drafts, undo |-> f.undo, after |-> f.after, kind |-> f.kind]
  BY <1>1 DEF IsCommit
<1>3. f.requests \subseteq Requests /\ IsUndo(f.undo)
  BY <1>1 DEF IsCommit
<1>4. PICK F, S : F = Only(forms, f.requests) /\ S = {Initiator[q] : q \in f.requests}
  OBVIOUS
<1>5. PICK L : L = Only(Override(mail, f.undo.mail), S)
  OBVIOUS
<1>6. PICK u : u = ReasonUndo(f)
  OBVIOUS
<1>7. u = UndoIs(F, <<>>, <<>>, <<>>, L, {})
  <2>1. u = FormUndo(F, L)
    BY <1>4, <1>5, <1>6 DEF ReasonUndo
  <2> QED
    BY <2>1, FormUndoIs
<1>8. Reason(f) = [requests |-> f.requests, drafts |-> f.drafts, undo |-> u, after |-> f.after, kind |-> "reason"]
  <2>1. PICK g : g = [f EXCEPT !.kind = "reason"]
    OBVIOUS
  <2>2. g = [requests |-> f.requests, drafts |-> f.drafts, undo |-> f.undo, after |-> f.after, kind |-> "reason"]
    BY <1>2, <2>1
  <2>3. Reason(f) = [g EXCEPT !.undo = u]
    BY <1>6, <2>1 DEF Reason
  <2> QED
    BY <2>2, <2>3
<1>9. mail \in [Agents -> SUBSET (Requests \X Nat)] /\ forms \in [Requests -> FormTypes]
  BY DEF Formed
<1>10. S \subseteq Agents
  BY <1>3, <1>4, FormationAssumption
<1>11. \A a \in DOMAIN L : L[a] \in SUBSET (Requests \X Nat)
  <2>1. PICK m : m = Override(mail, f.undo.mail)
    OBVIOUS
  <2>2. \A a \in Agents : m[a] \in SUBSET (Requests \X Nat)
    BY <1>3, <1>9, <2>1 DEF Override, IsUndo
  <2>3. DOMAIN L = S /\ \A a \in S : L[a] = m[a]
    BY <1>5, <2>1, OnlyFacts
  <2> QED
    BY <1>10, <2>2, <2>3
<1>12. \A q \in DOMAIN F : F[q] \in FormTypes
  BY <1>3, <1>4, <1>9, OnlyFacts
<1>13. IsUndo(u)
  <2>1. PICK e, z : e = <<>> /\ z = {}
    OBVIOUS
  <2>2. /\ \A q \in DOMAIN e : e[q] \in SUBSET Judged
        /\ \A d \in DOMAIN e : e[d] \in Drafty
        /\ \A t \in DOMAIN e : e[t] \in SUBSET Agents
        /\ \A x \in z : Scopes \subseteq x /\ x \subseteq Scopes \cup Requests
    BY <2>1, EmptyDomain
  <2>3. IsUndo(UndoIs(F, e, e, e, L, z))
    BY <1>11, <1>12, <2>2, NewUndo
  <2> QED
    BY <1>7, <2>1, <2>3
<1>14. IsCommit(Reason(f))
  BY <1>3, <1>8, <1>13 DEF IsCommit
<1> QED
  BY <1>4, <1>6, <1>7, <1>8, <1>14 DEF UndoIs

\* What a failure leaves in flight and waiting.
LEMMA FailSteps ==
    ASSUME NEW f, Fail(f)
    PROVE  /\ flight' = (flight \ {f}) \cup (IF f.kind = "auto" THEN {Reason(f)} ELSE {})
           /\ forms' = Override(forms, f.undo.forms) /\ decided' = Override(decided, f.undo.decided)
           /\ drafts' = Override(drafts, f.undo.drafts) /\ members' = Override(members, f.undo.members)
           /\ mail' = Override(mail, f.undo.mail)
           /\ teams' = IF f.undo.teams = {} THEN teams ELSE UNION f.undo.teams
           /\ Adds("faults") /\ UNCHANGED <<jobs, thinking>>
<1>1. flight' = (flight \ {f}) \cup (IF f.kind = "auto" THEN {Reason(f)} ELSE {})
  BY DEF Fail, Reason, ReasonUndo, FormUndo
<1> QED
  BY <1>1 DEF Fail, Adds

Into(g, T) == \A x \in DOMAIN g : g[x] \in T

LEMMA OverrideType ==
    ASSUME NEW S, NEW T, NEW f \in [S -> T], NEW g, Into(g, T)
    PROVE  /\ Override(f, g) \in [S -> T]
           /\ \A x \in S : Override(f, g)[x] = At(g, f, x)
<1>1. DOMAIN f = S /\ \A x \in S : f[x] \in T
  OBVIOUS
<1>2. Override(f, g) = [x \in S |-> At(g, f, x)]
  BY <1>1 DEF Override, At
<1>3. \A x \in S : At(g, f, x) \in T
  BY <1>1 DEF At, Into
<1>4. PICK h : h = Override(f, g)
  OBVIOUS
<1>5. h = [x \in S |-> At(g, f, x)]
  BY <1>2, <1>4
<1>6. h \in [S -> T] /\ \A x \in S : h[x] = At(g, f, x)
  BY <1>3, <1>5
<1> QED
  BY <1>4, <1>6

LEMMA FormedByFail ==
    ASSUME Formed, Balloted, UNCHANGED <<limit, proposals>>, NEW f \in flight, Fail(f)
    PROVE  Formed' /\ Balloted'
<1>0. IsUndo(f.undo)
  BY DEF Formed, IsCommit
<1>1. /\ \A q \in DOMAIN f.undo.forms : f.undo.forms[q] \in FormTypes
      /\ \A q \in DOMAIN f.undo.decided : f.undo.decided[q] \in SUBSET Judged
      /\ \A d \in DOMAIN f.undo.drafts : f.undo.drafts[d] \in Drafty
      /\ \A t \in DOMAIN f.undo.members : f.undo.members[t] \in SUBSET Agents
      /\ \A a \in DOMAIN f.undo.mail : f.undo.mail[a] \in SUBSET (Requests \X Nat)
      /\ \A T \in f.undo.teams : Scopes \subseteq T /\ T \subseteq Scopes \cup Requests
  BY <1>0 DEF IsUndo
<1>2. /\ flight' = (flight \ {f}) \cup (IF f.kind = "auto" THEN {Reason(f)} ELSE {})
      /\ forms' = Override(forms, f.undo.forms) /\ decided' = Override(decided, f.undo.decided)
      /\ drafts' = Override(drafts, f.undo.drafts) /\ members' = Override(members, f.undo.members)
      /\ mail' = Override(mail, f.undo.mail)
      /\ teams' = IF f.undo.teams = {} THEN teams ELSE UNION f.undo.teams
      /\ UNCHANGED <<jobs, thinking>>
  BY FailSteps
<1>3. /\ forms' \in [Requests -> FormTypes] /\ decided' \in [Requests -> SUBSET Judged]
      /\ members' \in [Scopes \cup Requests -> SUBSET Agents]
  <2>1. /\ forms \in [Requests -> FormTypes] /\ decided \in [Requests -> SUBSET Judged]
        /\ members \in [Scopes \cup Requests -> SUBSET Agents]
    BY Registries
  <2>2. Override(forms, f.undo.forms) \in [Requests -> FormTypes]
    <3>1. PICK S, T, g : S = Requests /\ T = FormTypes /\ g = f.undo.forms
      OBVIOUS
    <3>2. forms \in [S -> T] /\ Into(g, T)
      BY <1>1, <2>1, <3>1 DEF Into
    <3>3. /\ Override(forms, g) \in [S -> T]
          /\ \A x \in S : Override(forms, g)[x] = At(g, forms, x)
      BY <3>2, OverrideType
    <3> QED
      BY <3>1, <3>3
  <2>3. Override(decided, f.undo.decided) \in [Requests -> SUBSET Judged]
    <3>1. PICK S, T, g : S = Requests /\ T = SUBSET Judged /\ g = f.undo.decided
      OBVIOUS
    <3>2. decided \in [S -> T] /\ Into(g, T)
      BY <1>1, <2>1, <3>1 DEF Into
    <3>3. /\ Override(decided, g) \in [S -> T]
          /\ \A x \in S : Override(decided, g)[x] = At(g, decided, x)
      BY <3>2, OverrideType
    <3> QED
      BY <3>1, <3>3
  <2>4. Override(members, f.undo.members) \in [Scopes \cup Requests -> SUBSET Agents]
    <3>1. PICK S, T, g : S = Scopes \cup Requests /\ T = SUBSET Agents /\ g = f.undo.members
      OBVIOUS
    <3>2. members \in [S -> T] /\ Into(g, T)
      BY <1>1, <2>1, <3>1 DEF Into
    <3>3. /\ Override(members, g) \in [S -> T]
          /\ \A x \in S : Override(members, g)[x] = At(g, members, x)
      BY <3>2, OverrideType
    <3> QED
      BY <3>1, <3>3
  <2> QED
    BY <1>2, <2>2, <2>3, <2>4
<1>4. drafts' \in [Drafts -> Drafty] /\ mail' \in [Agents -> SUBSET (Requests \X Nat)]
      /\ \A d \in Drafts : drafts'[d] = At(f.undo.drafts, drafts, d)
  <2>1. drafts \in [Drafts -> Drafty] /\ mail \in [Agents -> SUBSET (Requests \X Nat)]
    BY Registries
  <2>2. /\ Override(drafts, f.undo.drafts) \in [Drafts -> Drafty]
        /\ \A d \in Drafts : Override(drafts, f.undo.drafts)[d] = At(f.undo.drafts, drafts, d)
    <3>1. PICK S, T, g : S = Drafts /\ T = Drafty /\ g = f.undo.drafts
      OBVIOUS
    <3>2. drafts \in [S -> T] /\ Into(g, T)
      BY <1>1, <2>1, <3>1 DEF Into
    <3>3. /\ Override(drafts, g) \in [S -> T]
          /\ \A x \in S : Override(drafts, g)[x] = At(g, drafts, x)
      BY <3>2, OverrideType
    <3> QED
      BY <3>1, <3>3
  <2>3. Override(mail, f.undo.mail) \in [Agents -> SUBSET (Requests \X Nat)]
    <3>1. PICK S, T, g : S = Agents /\ T = SUBSET (Requests \X Nat) /\ g = f.undo.mail
      OBVIOUS
    <3>2. mail \in [S -> T] /\ Into(g, T)
      BY <1>1, <2>1, <3>1 DEF Into
    <3>3. /\ Override(mail, g) \in [S -> T]
          /\ \A x \in S : Override(mail, g)[x] = At(g, mail, x)
      BY <3>2, OverrideType
    <3> QED
      BY <3>1, <3>3
  <2> QED
    BY <1>2, <2>2, <2>3
<1>5. Scopes \subseteq teams' /\ teams' \subseteq Scopes \cup Requests
  <2>1. CASE f.undo.teams = {}
    BY <1>2, <2>1, Registries
  <2>2. CASE f.undo.teams # {}
    BY <1>1, <1>2, <2>2
  <2> QED
    BY <2>1, <2>2
<1>6. Publishable' = Publishable /\ Drafty' = Drafty
  BY DEF Publishable, Drafty
<1>7. \A w \in waiting' : IsWait(w)'
  <2> SUFFICES ASSUME NEW w \in waiting' PROVE IsWait(w)'
    OBVIOUS
  <2>1. PICK v \in waiting : w = IF v.draft \in DOMAIN f.undo.drafts /\ v.own = {}
                                 THEN [v EXCEPT !.own = {drafts[v.draft]}] ELSE v
    BY DEF Fail
  <2>2. IsWait(v)
    BY DEF Formed
  <2>3. /\ v = [draft |-> v.draft, own |-> v.own] /\ v.draft \in Drafts /\ v.own \subseteq Publishable
        /\ v.own = {} => drafts[v.draft] \in Publishable
    BY <2>2 DEF IsWait
  <2>4. CASE v.draft \in DOMAIN f.undo.drafts /\ v.own = {}
    <3>1. w = [draft |-> v.draft, own |-> {drafts[v.draft]}]
      BY <2>1, <2>3, <2>4
    <3>2. /\ w = [draft |-> w.draft, own |-> w.own] /\ w.draft = v.draft
          /\ w.own = {drafts[v.draft]}
      BY <3>1
    <3> QED
      BY <1>6, <2>3, <2>4, <3>2 DEF IsWait
  <2>5. CASE ~(v.draft \in DOMAIN f.undo.drafts /\ v.own = {})
    <3>1. w = v
      BY <2>1, <2>5
    <3>2. w.own = {} => drafts'[w.draft] = drafts[w.draft]
      BY <1>4, <2>3, <2>5, <3>1 DEF At
    <3> QED
      BY <1>6, <2>3, <3>1, <3>2 DEF IsWait
  <2> QED
    BY <2>4, <2>5
<1>8. \A g \in flight' : IsCommit(g)'
  <2>1. \A g : IsCommit(g)' <=> IsCommit(g)
    BY <1>6 DEF IsCommit, IsUndo
  <2>2. \A g \in flight' : g \in flight \/ g = Reason(f)
    BY <1>2
  <2>3. IsCommit(Reason(f))
    BY ReasonFacts
  <2> QED
    BY <2>1, <2>2, <2>3 DEF Formed
<1>9. Formed'
  <2>1. (\A x \in thinking' : x.draft \in Drafts) /\ limit'.contents \subseteq Contents
    BY <1>2 DEF Formed
  <2> QED
    BY <1>3, <1>4, <1>5, <1>6, <1>7, <1>8, <2>1 DEF Formed
<1>10. /\ proposals' = proposals /\ proposals \in [Proposals -> ProposalTypes]
       /\ \A p \in Proposals : proposals[p].executed => proposals[p].status \in {"approved", "rejected"}
  BY DEF Balloted
<1>11. Balloted'
  BY <1>3, <1>10 DEF Balloted
<1> QED
  BY <1>9, <1>11

LEMMA FormedStutter ==
    ASSUME Formed, UNCHANGED <<formOnly, limit>>
    PROVE  Formed'
<1>1. /\ UNCHANGED <<forms, decided, drafts, teams, mail, flight, waiting, jobs, thinking>>
      /\ UNCHANGED limit
  BY DEF formOnly
<1>2. Drafty' = Drafty /\ Publishable' = Publishable
  BY <1>1 DEF Drafty, Publishable
<1>3. /\ \A f : IsCommit(f)' <=> IsCommit(f)
      /\ \A w : IsWait(w)' <=> IsWait(w)
  BY <1>1, <1>2 DEF IsCommit, IsUndo, IsWait
<1> QED
  BY <1>1, <1>2, <1>3 DEF Formed

LEMMA FormedByEnd ==
    ASSUME Formed, Balloted, UNCHANGED <<limit, proposals>>, NEW f \in flight, Finish(f) \/ Cancel(f)
    PROVE  Formed' /\ Balloted'
<1>1. /\ flight' \subseteq flight /\ UNCHANGED <<forms, decided, drafts, teams, members, mail, waiting, thinking>>
  BY DEF Finish, Cancel
<1>2. Drafty' = Drafty /\ Publishable' = Publishable
  BY <1>1 DEF Drafty, Publishable
<1>3. /\ \A g : IsCommit(g)' <=> IsCommit(g)
      /\ \A w : IsWait(w)' <=> IsWait(w)
  BY <1>1, <1>2 DEF IsCommit, IsUndo, IsWait
<1>4. Formed'
  BY <1>1, <1>2, <1>3 DEF Formed
<1>5. Balloted'
  BY <1>1 DEF Balloted
<1> QED
  BY <1>4, <1>5

LEMMA FormedByRestart ==
    ASSUME Formed, Balloted, UNCHANGED limit, NEW frozen \in {"PENDING", "CANCELLED"}, Restart(frozen)
    PROVE  Formed' /\ Balloted'
<1>1. /\ flight = {} /\ waiting = {} /\ thinking' = {} /\ drafts' = Interrupted(frozen)
      /\ UNCHANGED <<forms, decided, teams, members, mail, flight, waiting>>
      /\ UNCHANGED proposals
  BY DEF Restart, Recover
<1>2. Drafty' = Drafty
  BY DEF Drafty
<1>3. drafts' \in [Drafts -> Drafty]
  <2>1. ASSUME NEW d \in Drafts, drafts[d].status = "RUNNING"
        PROVE  [drafts[d] EXCEPT !.status = frozen] \in Drafty
    <3>1. PICK x \in Drafty : x = drafts[d]
      BY DEF Formed
    <3>2. x.status = "RUNNING"
      BY <2>1, <3>1
    <3>3. [x EXCEPT !.status = frozen] \in Drafty
      BY <3>2 DEF Drafty, DraftTypes
    <3> QED
      BY <3>1, <3>3
  <2>2. \A d \in Drafts : drafts[d] \in Drafty
    BY DEF Formed
  <2> QED
    BY <1>1, <2>1, <2>2 DEF Interrupted
<1>4. Formed'
  BY <1>1, <1>2, <1>3 DEF Formed
<1>5. Balloted'
  BY <1>1 DEF Balloted
<1> QED
  BY <1>4, <1>5

LEMMA BallotedKept ==
    ASSUME Balloted, UNCHANGED proposals, members' \in [Scopes \cup Requests -> SUBSET Agents]
    PROVE  Balloted'
BY DEF Balloted

LEMMA FormedStep ==
    ASSUME Shaped, Formed, Balloted, [Next]_vars
    PROVE  Formed' /\ Balloted'
<1>1. CASE UNCHANGED vars
  <2>1. UNCHANGED <<formOnly, limit>> /\ UNCHANGED <<members, proposals>>
    BY <1>1 DEF vars, formVars, talkVars, formOnly
  <2> QED
    BY <2>1, FormedStutter DEF Balloted
<1>2. CASE TalkStep /\ UNCHANGED limit
  <2>1. UNCHANGED <<formOnly, limit>>
    BY <1>2 DEF TalkStep
  <2>2. Balloting
    BY <1>2, BallotingByTalk
  <2> QED
    BY <2>1, <2>2, FormedStutter DEF Balloting
<1>3. ASSUME NEW frozen \in {"PENDING", "CANCELLED"}, Restart(frozen), UNCHANGED limit
      PROVE  Formed' /\ Balloted'
  BY <1>3, FormedByRestart
<1>4. CASE Operation /\ UNCHANGED <<proposals, limit>>
  <2>1. Advance
    BY <1>4, OperationAdvance
  <2>2. Formed' /\ members' \in [Scopes \cup Requests -> SUBSET Agents]
    BY <2>1 DEF Advance, Shifted
  <2> QED
    BY <1>4, <2>2, BallotedKept
<1>5. ASSUME NEW f \in flight, Finish(f) \/ Cancel(f) \/ Fail(f), UNCHANGED <<proposals, limit>>
      PROVE  Formed' /\ Balloted'
  BY <1>5, FormedByEnd, FormedByFail
<1>6. CASE FormationStep /\ UNCHANGED limit
  <2>1. UNCHANGED proposals
    BY <1>6 DEF FormationStep, talkVars
  <2>2. Operation \/ \E f \in flight : Finish(f) \/ Cancel(f) \/ Fail(f)
    BY <1>6, Zenon DEF FormationStep, Operation
  <2> QED
    BY <1>4, <1>5, <1>6, <2>1, <2>2
<1> QED
  BY <1>1, <1>2, <1>3, <1>6, Zenon DEF Next

LEMMA FormedInit == Init => Formed /\ Balloted
<1> SUFFICES ASSUME Init PROVE Formed /\ Balloted
  OBVIOUS
<1>1. PICK s \in Starts : /\ limit = s
         /\ members = [t \in Scopes \cup Requests |-> IF t \in Scopes THEN s.members[t] ELSE {}]
  BY DEF Init
<1>2. s.contents \subseteq Contents /\ s.members \in [Scopes -> SUBSET Agents]
  BY TeamworkAssumption
<1>3. members \in [Scopes \cup Requests -> SUBSET Agents]
  BY <1>1, <1>2
<1>4. Unused \in FormTypes
  BY DEF Unused, FormTypes
<1>5. NoDraft \in Drafty
  BY DEF NoDraft, Drafty, DraftTypes
<1>6. /\ forms = [q \in Requests |-> Unused] /\ decided = [q \in Requests |-> {}]
      /\ drafts = [d \in Drafts |-> NoDraft] /\ teams = Scopes /\ mail = [a \in Agents |-> {}]
      /\ flight = {} /\ waiting = {} /\ thinking = {}
      /\ proposals = [p \in Proposals |-> [status |-> "none", by |-> {}, executed |-> FALSE,
                                           votes |-> [a \in Agents |-> "none"]]]
  BY DEF Init
<1>7. Formed
  <2>1. limit.contents \subseteq Contents
    BY <1>1, <1>2
  <2>2. forms \in [Requests -> FormTypes] /\ drafts \in [Drafts -> Drafty]
    BY <1>4, <1>5, <1>6
  <2> QED
    BY <1>6, <2>1, <2>2 DEF Formed
<1>8. Balloted
  <2>1. [status |-> "none", by |-> {}, executed |-> FALSE, votes |-> [a \in Agents |-> "none"]] \in ProposalTypes
    BY DEF ProposalTypes
  <2>2. proposals \in [Proposals -> ProposalTypes]
    BY <1>6, <2>1
  <2>3. \A p \in Proposals : proposals[p].executed = FALSE
    BY <1>6
  <2> QED
    BY <1>3, <2>2, <2>3 DEF Balloted
<1> QED
  BY <1>7, <1>8

LEMMA FormedInvariant == Spec => [](Formed /\ Balloted)
<1>1. Init => Formed /\ Balloted
  BY FormedInit
<1>2. Shaped /\ Formed /\ Balloted /\ [Next]_vars => Formed' /\ Balloted'
  BY FormedStep
<1> QED
  BY <1>1, <1>2, ShapedInvariant, PTL DEF Spec

-----------------------------------------------------------------------------
(* Consent. *)

\* No rollback meets a publication that has locked no request.
Orderly == limit.initial => spent.faults = 0

Fit(q, F, D, M) == Coherent(q, F, D) /\ Consented(q, F, D, M, proposals)

\* What the failure of a commit puts back fits what it leaves.
Undoable(f) ==
    /\ DOMAIN f.undo.forms \subseteq f.requests
    /\ DOMAIN f.undo.decided \subseteq DOMAIN f.undo.forms
    /\ DOMAIN f.undo.members \subseteq DOMAIN f.undo.forms
    /\ \A q \in DOMAIN f.undo.forms :
         /\ forms[q].status # "none" /\ f.undo.forms[q].status # "none"
         /\ Fit(q, f.undo.forms[q], At(f.undo.decided, decided, q), At(f.undo.members, members, q))
    /\ f.kind = "auto" =>
         /\ DOMAIN f.undo.forms = f.requests /\ f.undo.members = <<>>
         /\ \A q \in f.requests : At(f.undo.decided, decided, q) = decided[q]

Locks == \A f, g \in flight : f # g => f.requests \cap g.requests = {}

Consents ==
    /\ \A q \in Requests : Fit(q, forms[q], decided[q], members[q])
    /\ ~limit.initial => \A f \in flight : Undoable(f)

Consenting == Orderly => Consents

LEMMA MovedStatus ==
    ASSUME NEW q \in Requests, NEW F \in FormTypes, NEW D \in SUBSET Judged, NEW M \in SUBSET Agents,
           NEW G, NEW E, NEW N, Moved(q, F, D, M, G, E, N), F.status # "none"
    PROVE  G.status # "none"
<1>1. ASSUME NEW H, NEW c, NEW s, G = Revised(H, c, s) PROVE G.status # "none"
  BY <1>1 DEF Revised, Unused
<1>2. ASSUME NEW H \in FormTypes, NEW K, Realized(q, H, K, M, G, E, N) PROVE G.status # "none"
  BY <1>2 DEF Realized, FormTypes
<1>3. CASE Begun(q, F, D, M, G, E, N) \/ Rewritten(q, F, D, M, G, E, N)
  BY <1>1, <1>3 DEF Begun, Rewritten
<1>4. CASE Answered(q, F, D, M, G, E, N)
  <2>1. PICK a, v : LET g == [F EXCEPT !.attitude[a] = v]
                        all == Accepted(g) = Invited(g)
                    IN  G = [g EXCEPT !.status = IF all /\ ~Proposal(g).auto THEN "ready" ELSE "collecting"]
    BY <1>4 DEF Answered
  <2>2. PICK g : g = [F EXCEPT !.attitude[a] = v]
    OBVIOUS
  <2>3. PICK k \in {"ready", "collecting"} : G = [g EXCEPT !.status = k]
    BY <2>1, <2>2
  <2>4. "status" \in DOMAIN g
    BY <2>2 DEF FormTypes
  <2> QED
    BY <2>3, <2>4
<1>5. CASE Realized(q, F, D, M, G, E, N)
  BY <1>2, <1>5
<1>6. ASSUME NEW H, Answered(q, F, D, M, H, E, M), Realized(q, H, E, M, G, E, N) PROVE G.status # "none"
  <2>1. H \in FormTypes
    BY <1>6, AnsweredTypes
  <2> QED
    BY <1>2, <1>6, <2>1
<1>7. CASE Closing(q, F, D, M, G, E, N)
  BY <1>7 DEF Closing, FormTypes
<1>8. CASE Joining(q, F, D, M, G, E, N)
  <2>1. PICK a : G = [F EXCEPT !.attitude[a] = "accepted", !.joined = @ \cup {a}, !.late[a] = "approved"]
    BY <1>8 DEF Joining
  <2> QED
    BY <2>1 DEF FormTypes
<1>9. CASE Reconsidered(q, F, D, M, G, E, N) 
  <2>1. PICK a, v : G = [F EXCEPT !.attitude[a] = v,
                                  !.late[a] = IF v = "accepted" THEN "pending" ELSE "no"]
    BY <1>9 DEF Reconsidered
  <2> QED
    BY <2>1 DEF FormTypes
<1>10. CASE Refused(q, F, D, M, G, E, N)
  BY <1>10 DEF Refused, FormTypes
<1> QED
  BY <1>3, <1>4, <1>5, <1>6, <1>7, <1>8, <1>9, <1>10, Zenon DEF Moved

LEMMA ConsentedMore ==
    ASSUME NEW q, NEW F, NEW D, NEW M, NEW P, Consented(q, F, D, M, P),
           NEW N, NEW Q, \A a \in N : a \in M \/ Voted(Q, q, a),
           \A a : Voted(P, q, a) => Voted(Q, q, a)
    PROVE  Consented(q, F, D, N, Q)
BY DEF Consented

LEMMA FitMore ==
    ASSUME NEW q, NEW F, NEW D, NEW M, Fit(q, F, D, M), UNCHANGED proposals,
           NEW N, N \subseteq M
    PROVE  Coherent(q, F, D) /\ Consented(q, F, D, N, proposals')
BY ConsentedMore DEF Fit

LEMMA VotedKept ==
    ASSUME Balloting
    PROVE  \A q, a : Voted(proposals, q, a) => Voted(proposals', q, a)
BY DEF Balloting, Voted

LEMMA OrderlyBefore ==
    ASSUME Counted, [Next]_vars, Orderly'
    PROVE  Orderly
<1>1. UNCHANGED limit
  BY DEF Next, vars
<1>2. \/ spent'.faults = spent.faults
      \/ spent'.faults = spent.faults + 1
  BY Counting DEF Counted, Adds
<1> QED
  BY <1>1, <1>2 DEF Orderly, Counted

\* A formation that is not locked moves, and one that is locked stays.
LEMMA FitByAdvance ==
    ASSUME Formed, Balloted, UNCHANGED proposals, Shifted, NEW q \in Requests,
           Fit(q, forms[q], decided[q], members[q])
    PROVE  Fit(q, forms[q], decided[q], members[q])'
<1>1. PICK F, D, M, G, E, N : /\ F = forms[q] /\ D = decided[q] /\ M = members[q]
                              /\ G = forms'[q] /\ E = decided'[q] /\ N = members'[q]
  OBVIOUS
<1>2. F \in FormTypes /\ D \in SUBSET Judged /\ M \in SUBSET Agents
  BY <1>1, Registries
<1>3. Moved(q, F, D, M, G, E, N)
  BY <1>1 DEF Shifted
<1>4. Coherent(q, F, D) /\ Consented(q, F, D, M, proposals)
  BY <1>1 DEF Fit
<1>5. Coherent(q, G, E) /\ Consented(q, G, E, N, proposals)
  BY <1>2, <1>3, <1>4, MovedCoherent
<1> QED
  BY <1>1, <1>5 DEF Fit

LEMMA UndoableByAdvance ==
    ASSUME Formed, Balloted, UNCHANGED proposals, Shifted, NEW f \in flight, Undoable(f)
    PROVE  Undoable(f)'
<1>1. f.requests \subseteq Requests
  BY DEF Formed, IsCommit
<1>2. /\ DOMAIN f.undo.forms \subseteq f.requests
      /\ DOMAIN f.undo.decided \subseteq DOMAIN f.undo.forms
      /\ DOMAIN f.undo.members \subseteq DOMAIN f.undo.forms
      /\ f.kind = "auto" =>
           /\ DOMAIN f.undo.forms = f.requests /\ f.undo.members = <<>>
           /\ \A q \in f.requests : At(f.undo.decided, decided, q) = decided[q]
      /\ \A q \in DOMAIN f.undo.forms : forms[q].status # "none" /\ f.undo.forms[q].status # "none"
  BY DEF Undoable
<1>3. ASSUME NEW q \in DOMAIN f.undo.forms
      PROVE  /\ q \in Requests /\ forms'[q] = forms[q] /\ decided'[q] = decided[q]
             /\ members'[q] \subseteq members[q]
  <2>1. q \in Requests /\ ~LockFree(q)
    BY <1>1, <1>2 DEF LockFree
  <2> QED
    BY <1>2, <2>1 DEF Shifted
<1>4. ASSUME NEW q \in DOMAIN f.undo.forms
      PROVE  Fit(q, f.undo.forms[q], At(f.undo.decided, decided, q), At(f.undo.members, members, q))'
  <2>1. PICK F, D, M, N : /\ F = f.undo.forms[q] /\ D = At(f.undo.decided, decided, q)
                          /\ M = At(f.undo.members, members, q) /\ N = At(f.undo.members, members', q)
    OBVIOUS
  <2>2. Fit(q, F, D, M)
    BY <2>1 DEF Undoable
  <2>3. N \subseteq M
    BY <1>3, <2>1 DEF At
  <2>4. D = At(f.undo.decided, decided', q)
    BY <1>3, <2>1 DEF At
  <2>5. Coherent(q, F, D) /\ Consented(q, F, D, N, proposals')
    BY <2>2, <2>3, FitMore
  <2> QED
    BY <2>1, <2>4, <2>5 DEF Fit
<1>5. f.kind = "auto" => \A q \in f.requests : At(f.undo.decided, decided', q) = decided'[q]
  <2> SUFFICES ASSUME f.kind = "auto", NEW q \in f.requests PROVE At(f.undo.decided, decided', q) = decided'[q]
    OBVIOUS
  <2>1. q \in DOMAIN f.undo.forms /\ At(f.undo.decided, decided, q) = decided[q]
    BY <1>2
  <2>2. decided'[q] = decided[q]
    BY <1>3, <2>1
  <2> QED
    BY <2>1, <2>2 DEF At
<1>6. \A q \in DOMAIN f.undo.forms : forms'[q].status # "none"
  BY <1>2, <1>3
<1> QED
  BY <1>2, <1>4, <1>5, <1>6 DEF Undoable

LEMMA UndoableByCommit ==
    ASSUME Formed, Balloted, UNCHANGED <<limit, proposals>>, Shifted, ~limit.initial,
           NEW c, NewCommit(c),
           \A q \in Requests : Fit(q, forms[q], decided[q], members[q])
    PROVE  Undoable(c)'
<1>1. /\ c.requests \subseteq Requests
      /\ DOMAIN c.undo.forms \subseteq c.requests /\ \A q \in DOMAIN c.undo.forms : forms[q].status # "none"
      /\ DOMAIN c.undo.decided \subseteq DOMAIN c.undo.forms
      /\ DOMAIN c.undo.members \subseteq DOMAIN c.undo.forms
      /\ \A q \in c.requests :
           /\ At(c.undo.forms, forms', q) = forms[q]
           /\ At(c.undo.decided, decided', q) = decided[q]
           /\ At(c.undo.members, members', q) = members[q] \/ forms[q].status # "created"
      /\ c.kind = "auto" =>
           DOMAIN c.undo.forms = c.requests /\ c.undo.members = <<>> /\ decided' = decided
  BY DEF NewCommit, IsCommit
<1>2. ASSUME NEW q \in DOMAIN c.undo.forms
      PROVE  /\ Fit(q, c.undo.forms[q], At(c.undo.decided, decided, q), At(c.undo.members, members, q))'
             /\ forms'[q].status # "none" /\ c.undo.forms[q].status # "none"
  <2>1. q \in Requests /\ q \in c.requests
    BY <1>1
  <2>2. PICK F, D, M, N : /\ F = forms[q] /\ D = decided[q] /\ M = members[q]
                          /\ N = At(c.undo.members, members', q)
    OBVIOUS
  <2>3. F = c.undo.forms[q] /\ D = At(c.undo.decided, decided', q)
    BY <1>1, <2>1, <2>2 DEF At
  <2>4. Coherent(q, F, D) /\ Consented(q, F, D, M, proposals)
    BY <2>1, <2>2 DEF Fit
  <2>5. Consented(q, F, D, N, proposals)
    <3>1. N = M \/ F.status # "created"
      BY <1>1, <2>1, <2>2
    <3>2. CASE N = M
      BY <2>4, <3>2
    <3>3. CASE F.status # "created"
      BY <3>3 DEF Consented
    <3> QED
      BY <3>1, <3>2, <3>3
  <2>6. Fit(q, c.undo.forms[q], At(c.undo.decided, decided, q), At(c.undo.members, members, q))'
    BY <2>2, <2>3, <2>4, <2>5 DEF Fit
  <2>7. F.status # "none"
    BY <1>1, <2>2
  <2>8. forms'[q].status # "none"
    <3>1. F \in FormTypes /\ D \in SUBSET Judged /\ M \in SUBSET Agents
      BY <2>1, <2>2, Registries
    <3>2. PICK G, E, K : G = forms'[q] /\ E = decided'[q] /\ K = members'[q]
      OBVIOUS
    <3>3. Moved(q, F, D, M, G, E, K)
      BY <2>1, <2>2, <3>2 DEF Shifted
    <3> QED
      BY <2>1, <2>7, <3>1, <3>2, <3>3, MovedStatus
  <2> QED
    BY <2>3, <2>6, <2>7, <2>8
<1>3. c.kind = "auto" => \A q \in c.requests : At(c.undo.decided, decided', q) = decided'[q]
  BY <1>1
<1> QED
  BY <1>1, <1>2, <1>3 DEF Undoable

LEMMA ConsentsByAdvance ==
    ASSUME Formed, Balloted, UNCHANGED <<limit, proposals>>, Advance, Consents
    PROVE  Consents'
<1>1. Shifted /\ \A q \in Requests : Fit(q, forms[q], decided[q], members[q])
  BY DEF Advance, Consents
<1>2. \A q \in Requests : Fit(q, forms[q], decided[q], members[q])'
  BY <1>1, FitByAdvance
<1>3. ASSUME ~limit.initial, NEW f \in flight' PROVE Undoable(f)'
  <2>1. f \in flight \/ NewCommit(f)
    BY DEF Advance
  <2>2. CASE f \in flight
    BY <1>1, <1>3, <2>2, UndoableByAdvance DEF Consents
  <2>3. CASE NewCommit(f)
    BY <1>1, <1>3, <2>3, UndoableByCommit
  <2> QED
    BY <2>1, <2>2, <2>3
<1> QED
  BY <1>2, <1>3 DEF Consents

LEMMA ConsentsByTalk ==
    ASSUME Balloting, UNCHANGED <<formOnly, limit>>, Formed, Consents
    PROVE  Consents'
<1>1. UNCHANGED <<forms, decided, flight>>
  BY DEF formOnly
<1>2. \A t \in Scopes \cup Requests : \A a \in members'[t] : a \in members[t] \/ Voted(proposals', t, a)
  BY DEF Balloting
<1>3. \A q, a : Voted(proposals, q, a) => Voted(proposals', q, a)
  BY VotedKept
<1>4. ASSUME NEW q \in Requests PROVE Fit(q, forms[q], decided[q], members[q])'
  <2>1. PICK F, D, M, N : F = forms[q] /\ D = decided[q] /\ M = members[q] /\ N = members'[q]
    OBVIOUS
  <2>2. Coherent(q, F, D) /\ Consented(q, F, D, M, proposals)
    BY <2>1 DEF Consents, Fit
  <2>3. \A a \in N : a \in M \/ Voted(proposals', q, a)
    BY <1>2, <2>1
  <2>4. Consented(q, F, D, N, proposals')
    BY <1>3, <2>2, <2>3, ConsentedMore
  <2> QED
    BY <1>1, <2>1, <2>2, <2>4 DEF Fit
<1>5. ASSUME ~limit.initial, NEW f \in flight PROVE Undoable(f)'
  <2>0. Undoable(f)
    BY <1>5 DEF Consents
  <2>1. /\ DOMAIN f.undo.forms \subseteq f.requests
        /\ DOMAIN f.undo.decided \subseteq DOMAIN f.undo.forms
        /\ DOMAIN f.undo.members \subseteq DOMAIN f.undo.forms
        /\ f.kind = "auto" =>
             /\ DOMAIN f.undo.forms = f.requests /\ f.undo.members = <<>>
             /\ \A q \in f.requests : At(f.undo.decided, decided, q) = decided[q]
        /\ \A q \in DOMAIN f.undo.forms : forms[q].status # "none" /\ f.undo.forms[q].status # "none"
    BY <2>0 DEF Undoable
  <2>2. ASSUME NEW q \in DOMAIN f.undo.forms
        PROVE  Fit(q, f.undo.forms[q], At(f.undo.decided, decided, q), At(f.undo.members, members, q))'
    <3>1. PICK F, D, M, N : /\ F = f.undo.forms[q] /\ D = At(f.undo.decided, decided, q)
                            /\ M = At(f.undo.members, members, q) /\ N = At(f.undo.members, members', q)
      OBVIOUS
    <3>2. Coherent(q, F, D) /\ Consented(q, F, D, M, proposals)
      BY <2>0, <3>1 DEF Undoable, Fit
    <3>3. q \in Scopes \cup Requests
      BY <1>5, <2>1 DEF Formed, IsCommit
    <3>4. \A a \in N : a \in M \/ Voted(proposals', q, a)
      BY <1>2, <3>1, <3>3 DEF At
    <3>5. Consented(q, F, D, N, proposals')
      BY <1>3, <3>2, <3>4, ConsentedMore
    <3>6. D = At(f.undo.decided, decided', q)
      BY <1>1, <3>1
    <3> QED
      BY <3>1, <3>2, <3>5, <3>6 DEF Fit
  <2>3. f.kind = "auto" => \A q \in f.requests : At(f.undo.decided, decided', q) = decided'[q]
    BY <1>1, <2>1
  <2>4. \A q \in DOMAIN f.undo.forms : forms'[q].status # "none"
    BY <1>1, <2>1
  <2> QED
    BY <2>1, <2>2, <2>3, <2>4 DEF Undoable
<1> QED
  BY <1>1, <1>4, <1>5 DEF Consents

LEMMA ConsentsByEnd ==
    ASSUME Consents, flight' \subseteq flight, UNCHANGED <<forms, decided, members, proposals, limit>>
    PROVE  Consents'
<1>1. \A q \in Requests : Fit(q, forms[q], decided[q], members[q])'
  BY DEF Consents, Fit
<1>2. \A f \in flight : Undoable(f) => Undoable(f)'
  BY DEF Undoable, Fit, At
<1> QED
  BY <1>1, <1>2 DEF Consents

\* What a failure of f leaves of another request, and of its own.
LEMMA FailAt ==
    ASSUME Formed, Balloted, NEW f \in flight, Undoable(f), Fail(f), NEW q \in Requests
    PROVE  /\ forms'[q] = At(f.undo.forms, forms, q)
           /\ decided'[q] = At(f.undo.decided, decided, q)
           /\ members'[q] = At(f.undo.members, members, q)
           /\ q \notin DOMAIN f.undo.forms =>
                forms'[q] = forms[q] /\ decided'[q] = decided[q] /\ members'[q] = members[q]
<1>1. /\ DOMAIN forms = Requests /\ DOMAIN decided = Requests /\ DOMAIN members = Scopes \cup Requests
  BY Registries
<1>2. /\ forms' = Override(forms, f.undo.forms) /\ decided' = Override(decided, f.undo.decided)
      /\ members' = Override(members, f.undo.members)
  BY FailSteps
<1>3. /\ forms'[q] = At(f.undo.forms, forms, q)
      /\ decided'[q] = At(f.undo.decided, decided, q)
      /\ members'[q] = At(f.undo.members, members, q)
  BY <1>1, <1>2 DEF Override, At
<1>4. /\ DOMAIN f.undo.decided \subseteq DOMAIN f.undo.forms
      /\ DOMAIN f.undo.members \subseteq DOMAIN f.undo.forms
  BY DEF Undoable
<1> QED
  BY <1>3, <1>4 DEF At

LEMMA FitByFail ==
    ASSUME Formed, Balloted, UNCHANGED proposals, NEW f \in flight, Undoable(f), Fail(f),
           NEW q \in Requests, Fit(q, forms[q], decided[q], members[q])
    PROVE  Fit(q, forms[q], decided[q], members[q])'
<1>1. CASE q \in DOMAIN f.undo.forms
  <2>1. Fit(q, f.undo.forms[q], At(f.undo.decided, decided, q), At(f.undo.members, members, q))
    BY <1>1 DEF Undoable
  <2>2. /\ forms'[q] = f.undo.forms[q] /\ decided'[q] = At(f.undo.decided, decided, q)
        /\ members'[q] = At(f.undo.members, members, q)
    BY <1>1, FailAt DEF At
  <2> QED
    BY <2>1, <2>2 DEF Fit
<1>2. CASE q \notin DOMAIN f.undo.forms
  <2>1. forms'[q] = forms[q] /\ decided'[q] = decided[q] /\ members'[q] = members[q]
    BY <1>2, FailAt
  <2> QED
    BY <2>1 DEF Fit
<1> QED
  BY <1>1, <1>2

LEMMA UndoableStays ==
    ASSUME UNCHANGED proposals, NEW g, Undoable(g), g.requests \subseteq Requests,
           \A q \in g.requests : forms'[q] = forms[q] /\ decided'[q] = decided[q] /\ members'[q] = members[q]
    PROVE  Undoable(g)'
<1>1. /\ DOMAIN g.undo.forms \subseteq g.requests
      /\ DOMAIN g.undo.decided \subseteq DOMAIN g.undo.forms
      /\ DOMAIN g.undo.members \subseteq DOMAIN g.undo.forms
      /\ g.kind = "auto" =>
           /\ DOMAIN g.undo.forms = g.requests /\ g.undo.members = <<>>
           /\ \A q \in g.requests : At(g.undo.decided, decided, q) = decided[q]
      /\ \A q \in DOMAIN g.undo.forms : forms[q].status # "none" /\ g.undo.forms[q].status # "none"
  BY DEF Undoable
<1>2. \A q \in g.requests : /\ At(g.undo.decided, decided', q) = At(g.undo.decided, decided, q)
                            /\ At(g.undo.members, members', q) = At(g.undo.members, members, q)
  BY DEF At
<1>3. ASSUME NEW q \in DOMAIN g.undo.forms
      PROVE  Fit(q, g.undo.forms[q], At(g.undo.decided, decided, q), At(g.undo.members, members, q))'
  <2>1. Fit(q, g.undo.forms[q], At(g.undo.decided, decided, q), At(g.undo.members, members, q))
    BY DEF Undoable
  <2> QED
    BY <1>1, <1>2, <2>1 DEF Fit
<1>4. g.kind = "auto" => \A q \in g.requests : At(g.undo.decided, decided', q) = decided'[q]
  BY <1>1, <1>2
<1>5. \A q \in DOMAIN g.undo.forms : forms'[q].status # "none"
  BY <1>1
<1> QED
  BY <1>1, <1>3, <1>4, <1>5 DEF Undoable

\* The task of a failed automatic creation would put back the created object.
LEMMA UndoableReason ==
    ASSUME Formed, Balloted, UNCHANGED proposals, NEW f \in flight, Undoable(f), Fail(f), f.kind = "auto",
           \A q \in Requests : Fit(q, forms[q], decided[q], members[q]),
           NEW g, g = Reason(f)
    PROVE  Undoable(g)'
<1>2. PICK u : u = ReasonUndo(f)
  OBVIOUS
<1>3. /\ g = [requests |-> f.requests, drafts |-> f.drafts, undo |-> u, after |-> f.after, kind |-> "reason"]
      /\ u.forms = Only(forms, f.requests) /\ u.decided = <<>> /\ u.members = <<>>
  BY <1>2, ReasonFacts
<1>4. g.requests = f.requests /\ g.undo = u /\ g.kind = "reason"
  BY <1>3
<1>5. /\ DOMAIN u.forms = f.requests /\ \A q \in f.requests : u.forms[q] = forms[q]
      /\ DOMAIN u.decided = {} /\ DOMAIN u.members = {}
  BY <1>3, EmptyDomain, OnlyFacts
<1>6. /\ f.requests \subseteq Requests
      /\ DOMAIN f.undo.forms = f.requests /\ f.undo.members = <<>>
      /\ \A q \in f.requests : At(f.undo.decided, decided, q) = decided[q]
      /\ \A q \in f.requests : forms[q].status # "none" /\ f.undo.forms[q].status # "none"
  BY DEF Undoable, Formed, IsCommit
<1>7. ASSUME NEW q \in f.requests
      PROVE  /\ forms'[q].status # "none"
             /\ At(u.decided, decided', q) = decided[q] /\ At(u.members, members', q) = members[q]
  <2>1. /\ forms'[q] = At(f.undo.forms, forms, q) /\ decided'[q] = At(f.undo.decided, decided, q)
        /\ members'[q] = At(f.undo.members, members, q)
    BY <1>6, FailAt
  <2>2. decided'[q] = decided[q]
    BY <1>6, <2>1
  <2>3. members'[q] = members[q]
    BY <1>6, <2>1, EmptyDomain DEF At
  <2>4. forms'[q] = f.undo.forms[q]
    BY <1>6, <2>1 DEF At
  <2> QED
    BY <1>5, <1>6, <2>2, <2>3, <2>4 DEF At
<1>8. ASSUME NEW q \in f.requests
      PROVE  Fit(q, u.forms[q], At(u.decided, decided, q), At(u.members, members, q))'
  <2>1. Fit(q, forms[q], decided[q], members[q])
    BY <1>6
  <2> QED
    BY <1>5, <1>7, <2>1 DEF Fit
<1>9. Undoable(g)'
  BY <1>4, <1>5, <1>6, <1>7, <1>8 DEF Undoable
<1> QED
  BY <1>9

LEMMA ConsentsByFail ==
    ASSUME Formed, Balloted, UNCHANGED <<limit, proposals>>, Locks, ~limit.initial, Consents,
           NEW f \in flight, Fail(f)
    PROVE  Consents'
<1>1. Undoable(f) /\ \A q \in Requests : Fit(q, forms[q], decided[q], members[q])
  BY DEF Consents
<1>2. \A q \in Requests : Fit(q, forms[q], decided[q], members[q])'
  BY <1>1, FitByFail
<1>3. ASSUME NEW g \in flight' PROVE Undoable(g)'
  <2>1. (g \in flight /\ g # f) \/ (f.kind = "auto" /\ g = Reason(f))
    BY FailSteps
  <2>2. CASE g \in flight /\ g # f
    <3>1. /\ Undoable(g) /\ g.requests \subseteq Requests /\ f.requests \cap g.requests = {}
          /\ DOMAIN f.undo.forms \subseteq f.requests
      BY <1>1, <2>2 DEF Consents, Locks, Formed, IsCommit, Undoable
    <3>2. \A q \in g.requests : forms'[q] = forms[q] /\ decided'[q] = decided[q] /\ members'[q] = members[q]
      BY <1>1, <3>1, FailAt
    <3> QED
      BY <3>1, <3>2, UndoableStays
  <2>3. CASE f.kind = "auto" /\ g = Reason(f)
    BY <1>1, <2>3, UndoableReason
  <2> QED
    BY <2>1, <2>2, <2>3
<1> QED
  BY <1>2, <1>3 DEF Consents

LEMMA LocksStep ==
    ASSUME Shaped, Formed, Balloted, Locks, [Next]_vars
    PROVE  Locks'
<1>1. CASE flight' \subseteq flight
  BY <1>1 DEF Locks
<1>2. CASE Operation /\ UNCHANGED <<proposals, limit>>
  <2>1. flight' = flight \/ \E c : flight' = flight \cup {c} /\ NewCommit(c)
    BY <1>2, OperationAdvance DEF Advance
  <2>2. ASSUME NEW c, flight' = flight \cup {c}, NewCommit(c) PROVE Locks'
    <3>1. \A f \in flight : f.requests \cap c.requests = {}
      BY <2>2 DEF NewCommit, LockFree
    <3> QED
      BY <2>2, <3>1 DEF Locks
  <2> QED
    BY <1>1, <2>1, <2>2
<1>3. ASSUME NEW f \in flight, Fail(f) PROVE Locks'
  <2>1. \A g \in flight' : (g \in flight /\ g # f) \/ g = Reason(f)
    BY <1>3, FailSteps
  <2>2. PICK r : r = Reason(f)
    OBVIOUS
  <2>3. r.requests = f.requests
    BY <2>2, ReasonFacts
  <2> QED
    BY <2>1, <2>2, <2>3 DEF Locks
<1>4. CASE UNCHANGED vars \/ TalkStep \/ \E frozen : Restart(frozen)
  BY <1>1, <1>4 DEF vars, formVars, TalkStep, formOnly, Restart
<1>5. ASSUME NEW f \in flight, Finish(f) \/ Cancel(f) PROVE Locks'
  BY <1>1, <1>5 DEF Finish, Cancel
<1>6. CASE FormationStep /\ UNCHANGED limit
  <2>1. UNCHANGED proposals
    BY <1>6 DEF FormationStep, talkVars
  <2>2. Operation \/ \E f \in flight : Finish(f) \/ Cancel(f) \/ Fail(f)
    BY <1>6, Zenon DEF FormationStep, Operation
  <2> QED
    BY <1>2, <1>3, <1>5, <1>6, <2>1, <2>2
<1> QED
  BY <1>4, <1>6, Zenon DEF Next

LEMMA ConsentingStep ==
    ASSUME Shaped, Counted, Formed, Balloted, Locks, Consenting, [Next]_vars
    PROVE  Consenting'
<1> SUFFICES ASSUME Orderly' PROVE Consents'
  BY DEF Consenting
<1>0. Consents
  BY OrderlyBefore DEF Consenting
<1>1. CASE UNCHANGED vars
  <2>1. flight' \subseteq flight /\ UNCHANGED <<forms, decided, members, proposals, limit>>
    BY <1>1 DEF vars, formVars, talkVars
  <2> QED
    BY <1>0, <2>1, ConsentsByEnd
<1>2. CASE TalkStep /\ UNCHANGED limit
  <2>1. UNCHANGED <<formOnly, limit>>
    BY <1>2 DEF TalkStep
  <2> QED
    BY <1>0, <1>2, <2>1, BallotingByTalk, ConsentsByTalk
<1>3. ASSUME NEW frozen \in {"PENDING", "CANCELLED"}, Restart(frozen), UNCHANGED limit PROVE Consents'
  <2>1. flight' \subseteq flight /\ UNCHANGED <<forms, decided, members, proposals, limit>>
    BY <1>3 DEF Restart, Recover
  <2> QED
    BY <1>0, <2>1, ConsentsByEnd
<1>4. CASE Operation /\ UNCHANGED <<proposals, limit>>
  BY <1>0, <1>4, OperationAdvance, ConsentsByAdvance
<1>5. ASSUME NEW f \in flight, Finish(f) \/ Cancel(f), UNCHANGED <<proposals, limit>> PROVE Consents'
  <2>1. flight' \subseteq flight /\ UNCHANGED <<forms, decided, members, proposals, limit>>
    BY <1>5 DEF Finish, Cancel
  <2> QED
    BY <1>0, <2>1, ConsentsByEnd
<1>6. ASSUME NEW f \in flight, Fail(f), UNCHANGED <<proposals, limit>> PROVE Consents'
  <2>1. spent' = [spent EXCEPT !["faults"] = @ + 1]
    BY <1>6, FailSteps DEF Adds
  <2>2. spent'.faults # 0
    BY <2>1 DEF Counted
  <2>3. ~limit.initial
    BY <1>6, <2>2 DEF Orderly
  <2> QED
    BY <1>0, <1>6, <2>3, ConsentsByFail
<1>7. CASE FormationStep /\ UNCHANGED limit
  <2>1. UNCHANGED proposals
    BY <1>7 DEF FormationStep, talkVars
  <2>2. Operation \/ \E f \in flight : Finish(f) \/ Cancel(f) \/ Fail(f)
    BY <1>7, Zenon DEF FormationStep, Operation
  <2> QED
    BY <1>4, <1>5, <1>6, <1>7, <2>1, <2>2
<1> QED
  BY <1>1, <1>2, <1>3, <1>7, Zenon DEF Next

LEMMA ConsentingInit == Init => Locks /\ Consenting
<1> SUFFICES ASSUME Init PROVE Locks /\ Consents
  BY DEF Consenting
<1>1. /\ forms = [q \in Requests |-> Unused] /\ decided = [q \in Requests |-> {}] /\ flight = {}
  BY DEF Init
<1>2. ASSUME NEW q \in Requests PROVE Fit(q, forms[q], decided[q], members[q])
  <2>1. forms[q] = Unused /\ decided[q] = {}
    BY <1>1
  <2>2. /\ Unused.status = "none" /\ Unused.joined = {} /\ \A a \in Agents : Unused.late[a] = "no"
    BY DEF Unused
  <2>3. Coherent(q, Unused, {})
    BY <2>2 DEF Coherent, Open
  <2>4. \A M, P : Consented(q, Unused, {}, M, P)
    BY <2>2 DEF Consented
  <2> QED
    BY <2>1, <2>3, <2>4 DEF Fit
<1> QED
  BY <1>1, <1>2 DEF Locks, Consents

LEMMA ConsentingInvariant == Spec => [](Locks /\ Consenting)
<1>1. Init => Locks /\ Consenting
  BY ConsentingInit
<1>2. Shaped /\ Counted /\ Formed /\ Balloted /\ Locks /\ Consenting /\ [Next]_vars => Locks' /\ Consenting'
  BY LocksStep, ConsentingStep
<1> QED
  BY <1>1, <1>2, ShapedInvariant, CountedInvariant, FormedInvariant, PTL DEF Spec

\* Nobody is made a member of an AgentTeam without having accepted the revision that
\* was created, or being the initiator that joins, or having been voted in
\* (_finalize_locked, _join_late_locked, the rollbacks of both, and the execution of
\* membership proposals): also when commits fail, as long as no draft that proposes
\* a new formation is published then, the only operation that locks no request.
THEOREM MembersConsent == Spec => [](Orderly => Consent)
<1>1. Formed /\ Consenting => (Orderly => Consent)
  <2> SUFFICES ASSUME Formed, Consents, NEW q \in Requests, forms[q].status = "created", NEW a \in members[q]
               PROVE  \/ a = Initiator[q] /\ Proposal(forms[q]).joins
                      \/ /\ <<Revision(forms[q]), a, "accepted">> \in decided[q]
                         /\ a \in Proposal(forms[q]).invitees /\ a \in forms[q].joined
                      \/ Voted(proposals, q, a)
    BY DEF Consenting, Consent
  <2> QED
    BY DEF Consents, Fit, Consented
<1> QED
  BY <1>1, ConsentingInvariant, FormedInvariant, PTL

Remains(F, G) ==
    /\ G.status = F.status /\ G.revisions = F.revisions /\ F.joined \subseteq G.joined
    /\ \A a \in G.joined \ F.joined :
         \/ Proposal(F).late = "open"
         \/ Proposal(F).late = "confirm" /\ F.late[a] = "pending"

\* What happens to a formation that is created or abandoned, and not locked.
LEMMA MovedClosed ==
    ASSUME NEW q \in Requests, NEW F \in FormTypes, NEW D \in SUBSET Judged, NEW M \in SUBSET Agents,
           NEW G, NEW E, NEW N, Moved(q, F, D, M, G, E, N), Coherent(q, F, D),
           F.status \in {"created", "abandoned"}
    PROVE  Remains(F, G)
<1>1. CASE G = F
  BY <1>1 DEF Remains
<1>2. F.status # "none" /\ ~Open(F)
  BY DEF Open
<1>3. CASE Joining(q, F, D, M, G, E, N)
  <2>1. PICK a \in Agents :
         /\ G = [F EXCEPT !.attitude[a] = "accepted", !.joined = @ \cup {a}, !.late[a] = "approved"]
         /\ Proposal(F).late = "open" \/ F.late[a] = "pending"
    BY <1>3 DEF Joining
  <2>2. F.late[a] = "pending" => Proposal(F).late = "confirm"
    BY <1>3, <2>1 DEF Coherent, Joining
  <2>3. /\ "status" \in DOMAIN F /\ "revisions" \in DOMAIN F /\ "joined" \in DOMAIN F
        /\ F.joined \in SUBSET Agents
    BY DEF FormTypes
  <2>4. G.status = F.status /\ G.revisions = F.revisions /\ G.joined = F.joined \cup {a}
    BY <2>1, <2>3
  <2> QED
    BY <2>1, <2>2, <2>4 DEF Remains
<1>4. CASE Reconsidered(q, F, D, M, G, E, N)
  <2>1. PICK a, v : G = [F EXCEPT !.attitude[a] = v,
                                  !.late[a] = IF v = "accepted" THEN "pending" ELSE "no"]
    BY <1>4 DEF Reconsidered
  <2>2. G.status = F.status /\ G.revisions = F.revisions /\ G.joined = F.joined
    BY <2>1 DEF FormTypes
  <2> QED
    BY <2>2 DEF Remains
<1>5. CASE Refused(q, F, D, M, G, E, N)
  <2>1. PICK a : G = [F EXCEPT !.late[a] = "denied"]
    BY <1>5 DEF Refused
  <2>2. G.status = F.status /\ G.revisions = F.revisions /\ G.joined = F.joined
    BY <2>1 DEF FormTypes
  <2> QED
    BY <2>2 DEF Remains
<1>6. ~Begun(q, F, D, M, G, E, N) /\ ~Rewritten(q, F, D, M, G, E, N) /\ ~Realized(q, F, D, M, G, E, N)
  BY <1>2 DEF Begun, Rewritten, Realized
<1>7. ~Closing(q, F, D, M, G, E, N) /\ \A H : ~Answered(q, F, D, M, H, E, M)
  BY <1>2 DEF Closing, Answered
<1>8. ~Answered(q, F, D, M, G, E, N)
  BY <1>2 DEF Answered
<1> QED
  BY <1>1, <1>3, <1>4, <1>5, <1>6, <1>7, <1>8, Zenon DEF Moved

ClosedStep == \A q \in Requests : Settled(q) => Closed(q)

LEMMA ClosedByStay ==
    ASSUME NEW q \in Requests, forms'[q] = forms[q]
    PROVE  Closed(q)
BY DEF Closed

LEMMA ClosedByStep ==
    ASSUME Shaped, Counted, Formed, Balloted, Consenting, Orderly', [Next]_vars
    PROVE  ClosedStep
<1> SUFFICES ASSUME NEW q \in Requests, Settled(q) PROVE Closed(q)
  BY DEF ClosedStep
<1>0. Consents
  BY OrderlyBefore DEF Consenting
<1>1. CASE UNCHANGED forms
  BY <1>1, ClosedByStay
<1>2. CASE Operation /\ UNCHANGED <<proposals, limit>>
  <2>1. Shifted
    BY <1>2, OperationAdvance DEF Advance
  <2>2. PICK F, D, M, G, E, N : /\ F = forms[q] /\ D = decided[q] /\ M = members[q]
                                /\ G = forms'[q] /\ E = decided'[q] /\ N = members'[q]
    OBVIOUS
  <2>3. F \in FormTypes /\ D \in SUBSET Judged /\ M \in SUBSET Agents
    BY <2>2, Registries
  <2>4. Moved(q, F, D, M, G, E, N)
    BY <2>1, <2>2 DEF Shifted
  <2>5. Coherent(q, F, D)
    BY <1>0, <2>2 DEF Consents, Fit
  <2>6. F.status \in {"created", "abandoned"}
    BY <2>2 DEF Settled
  <2>7. Remains(F, G)
    BY <2>3, <2>4, <2>5, <2>6, MovedClosed
  <2> QED
    BY <2>2, <2>7 DEF Closed, Remains
<1>3. ASSUME NEW f \in flight, Fail(f), UNCHANGED <<proposals, limit>> PROVE Closed(q)
  <2>1. spent' = [spent EXCEPT !["faults"] = @ + 1]
    BY <1>3, FailSteps DEF Adds
  <2>2. spent'.faults # 0
    BY <2>1 DEF Counted
  <2>3. ~limit.initial
    BY <1>3, <2>2 DEF Orderly
  <2>4. Undoable(f)
    BY <1>0, <2>3 DEF Consents
  <2>5. q \notin DOMAIN f.undo.forms
    BY <2>4 DEF Undoable, Settled, LockFree
  <2>6. forms'[q] = forms[q]
    BY <1>3, <2>4, <2>5, FailAt
  <2> QED
    BY <2>6, ClosedByStay
<1>4. CASE UNCHANGED vars \/ TalkStep \/ \E frozen : Restart(frozen)
  BY <1>1, <1>4 DEF vars, formVars, TalkStep, formOnly, Restart
<1>5. ASSUME NEW f \in flight, Finish(f) \/ Cancel(f) PROVE Closed(q)
  BY <1>1, <1>5 DEF Finish, Cancel
<1>6. CASE FormationStep /\ UNCHANGED limit
  <2>1. UNCHANGED proposals
    BY <1>6 DEF FormationStep, talkVars
  <2>2. Operation \/ \E f \in flight : Finish(f) \/ Cancel(f) \/ Fail(f)
    BY <1>6, Zenon DEF FormationStep, Operation
  <2> QED
    BY <1>2, <1>3, <1>5, <1>6, <2>1, <2>2
<1> QED
  BY <1>4, <1>6, Zenon DEF Next

\* A formation that is created or abandoned keeps its status and its revisions, and
\* only those join it that its late policy admits (_accept_late_locked,
\* _decide_late_locked): a rollback that is still to come meets its lock.
THEOREM FormationsStayClosed == Spec /\ []Orderly => ClosedForGood
<1>1. Shaped /\ Counted /\ Formed /\ Balloted /\ Consenting /\ Orderly' /\ [Next]_vars => [ClosedStep]_vars
  BY ClosedByStep
<1>2. [][ClosedStep]_vars => ClosedForGood
  BY PTL DEF ClosedForGood, ClosedStep
<1> QED
  BY <1>1, <1>2, ShapedInvariant, CountedInvariant, FormedInvariant, ConsentingInvariant, PTL DEF Spec

-----------------------------------------------------------------------------
(* Votes take effect between rounds. *)

Solo == \A r, s \in sessions : r # s /\ r.team = s.team => ~Running(r) \/ ~Running(s)

\* A discussion goes on alone, or ends.
LEMMA ProceedSessions ==
    ASSUME Shaped, NEW s \in sessions, Proceed(s)
    PROVE  /\ Running(s) \/ Idle(s.team)
           /\ \E y : /\ y.team = s.team /\ y.round = s.round + 1
                     /\ \A r \in sessions' : r \in sessions \ {s} \/ r = y \/ ~Running(r)
<1>0. IsSession(s) /\ s.round \in Nat
  BY DEF Shaped, IsSession
<1> DEFINE Goal == \E y : /\ y.team = s.team /\ y.round = s.round + 1
                          /\ \A r \in sessions' : r \in sessions \ {s} \/ r = y \/ ~Running(r)
<1>1. PICK z : z.team = s.team /\ z.round = s.round + 1
  <2>1. [team |-> s.team, round |-> s.round + 1].team = s.team /\
        [team |-> s.team, round |-> s.round + 1].round = s.round + 1
    OBVIOUS
  <2> QED
    BY <2>1
<1>2. ASSUME NEW kinds, NEW ok, Close(s, kinds, ok) PROVE Goal
  BY <1>1, <1>2, CloseSessions
<1>3. ASSUME NEW r, r.team = s.team, r.round = s.round + 1, sessions' = (sessions \ {s}) \cup {r} PROVE Goal
  BY <1>3
<1>4. CASE Enter(s)
  <2>1. sessions' = (sessions \ {s}) \cup {Prepared(s)} /\ Idle(s.team)
    BY <1>4 DEF Enter, Prepare
  <2>2. Prepared(s).team = s.team /\ Prepared(s).round = s.round + 1
    BY <1>0, PreparedShaped
  <2> QED
    BY <1>3, <2>1, <2>2
<1>5. ASSUME NEW errors \in BOOLEAN, EndRound(s, errors) PROVE Goal /\ Running(s)
  <2> DEFINE x == [s EXCEPT !.errors = @ \/ errors]
  <2>1. IsSession(x) /\ x.team = s.team /\ x.round = s.round
    <3>1. PICK v : x = [s EXCEPT !.errors = v]
      BY Zenon
    <3> QED
      BY <1>0, <3>1, OtherFields
  <2>2. /\ Prepared(x).team = s.team /\ Prepared(x).round = s.round + 1
        /\ [x EXCEPT !.round = @ + 1].team = s.team /\ [x EXCEPT !.round = @ + 1].round = s.round + 1
    <3>1. x.round + 1 \in Nat
      BY <2>1 DEF IsSession
    <3> HIDE DEF x
    <3> QED
      BY <2>1, <3>1, PreparedShaped, RoundField
  <2>3. \/ sessions' = (sessions \ {s}) \cup {Prepared(x)}
        \/ sessions' = (sessions \ {s}) \cup {[x EXCEPT !.round = @ + 1]}
        \/ Close(s, {}, TRUE)
    BY <1>5 DEF EndRound
  <2>4. Goal
    <3> HIDE DEF x
    <3> QED
      BY <1>2, <1>3, <2>2, <2>3
  <2>5. s.round \in 1..limit.rounds
    BY <1>5 DEF EndRound
  <2>6. Running(s)
    BY <1>0, <2>5 DEF Shaped, Running
  <2> QED
    BY <2>4, <2>6
<1>6. ASSUME NEW kind, Audited(s, kind) PROVE Goal /\ Running(s)
  <2>1. s.round > limit.rounds /\ \E kinds : Close(s, kinds, TRUE)
    BY <1>6, Zenon DEF Audited
  <2>2. Running(s)
    BY <1>0, <2>1 DEF Shaped, Running
  <2> QED
    BY <1>2, <2>1, <2>2
<1>7. ASSUME Abort(s) \/ Break(s) PROVE Goal /\ Running(s)
  <2>1. (s.round \in 1..limit.rounds \/ Running(s)) /\ \E kinds : Close(s, kinds, FALSE)
    BY <1>7, Zenon DEF Abort, Break
  <2>2. Running(s)
    BY <1>0, <2>1 DEF Shaped, Running
  <2> QED
    BY <1>2, <2>1, <2>2
<1>8. Enter(s) => Idle(s.team)
  BY DEF Enter
<1> QED
  BY <1>4, <1>5, <1>6, <1>7, <1>8, Zenon DEF Proceed

LEMMA SoloByProceed ==
    ASSUME Shaped, Solo, NEW s \in sessions, Proceed(s)
    PROVE  Solo'
<1>1. PICK y : /\ y.team = s.team
               /\ \A r \in sessions' : r \in sessions \ {s} \/ r = y \/ ~Running(r)
  BY ProceedSessions
<1>2. \A r \in sessions \ {s} : r.team = s.team => ~Running(r)
  BY ProceedSessions DEF Solo, Idle
<1> SUFFICES ASSUME NEW r \in sessions', NEW q \in sessions', r # q, r.team = q.team, Running(r), Running(q)
             PROVE FALSE
  BY DEF Solo, Running
<1> QED
  BY <1>1, <1>2 DEF Solo

LEMMA SoloStep ==
    ASSUME Shaped, Solo, [Next]_vars
    PROVE  Solo'
<1>1. CASE UNCHANGED sessions \/ sessions' = {}
  BY <1>1 DEF Solo, Running
<1>2. ASSUME NEW t \in Scopes, Call(t) PROVE Solo'
  <2>1. PICK n : n = NewSession(t, Called, FALSE)
    OBVIOUS
  <2>2. ~Running(n) /\ sessions' = sessions \cup {n}
    BY <1>2, <2>1, NewSessionShaped DEF Call
  <2> QED
    BY <2>2 DEF Solo, Running
<1>3. CASE TalkStep
  <2>1. ASSUME NEW t, NEW id, Acknowledge(t, id) PROVE UNCHANGED sessions
    BY <2>1, Zenon DEF Acknowledge
  <2>2. ASSUME NEW m, Send(m) \/ SendReturns(m) PROVE UNCHANGED sessions
    BY <2>2, Zenon DEF Send, SendReturns
  <2>3. ASSUME NEW p, Vote(p) PROVE UNCHANGED sessions
    BY <2>3, Zenon DEF Vote, Initiate, Retract, CastVote
  <2> QED
    BY <1>1, <1>2, <1>3, <2>1, <2>2, <2>3, SoloByProceed, Zenon DEF TalkStep
<1>4. ASSUME NEW frozen, Restart(frozen) PROVE Solo'
  <2>1. sessions' = {}
    BY <1>4, Zenon DEF Restart, Recover
  <2> QED
    BY <1>1, <2>1
<1>5. CASE FormationStep \/ UNCHANGED vars
  <2>1. UNCHANGED sessions
    BY <1>5 DEF FormationStep, vars, talkVars
  <2> QED
    BY <1>1, <2>1
<1> QED
  BY <1>3, <1>4, <1>5, Zenon DEF Next

LEMMA SoloInvariant == Spec => []Solo
<1>1. Init => Solo
  BY DEF Init, Solo
<1>2. Shaped /\ Solo /\ [Next]_vars => Solo'
  BY SoloStep
<1> QED
  BY <1>1, <1>2, ShapedInvariant, PTL DEF Spec

\* A vote that executes its proposal meets no round.
LEMMA VoteIdle ==
    ASSUME Balloted, NEW p \in Proposals, Vote(p),
           NEW r \in Proposals, proposals'[r].executed, ~proposals[r].executed
    PROVE  Idle(Ballot[r].team)
<1>0. proposals \in [Proposals -> ProposalTypes] /\ proposals[p] \in ProposalTypes
  BY DEF Balloted
<1>1. ASSUME NEW x, proposals' = [proposals EXCEPT ![p] = x] PROVE r = p /\ x.executed # proposals[p].executed
  BY <1>0, <1>1
<1>2. ASSUME NEW a, NEW by, Initiate(p, a, by) PROVE FALSE
  <2>1. PICK v, y : /\ v = [b \in Agents |-> IF b \in by THEN "Agree" ELSE "none"] /\ y = proposals[p]
    OBVIOUS
  <2>2. PICK x : x = [y EXCEPT !.status = "active", !.by = by, !.votes = v]
    OBVIOUS
  <2>3. proposals' = [proposals EXCEPT ![p] = x]
    BY <1>0, <1>2, <2>1, <2>2 DEF Initiate
  <2>4. y \in ProposalTypes
    BY <1>0, <2>1
  <2>5. x.executed = y.executed
    BY <2>2, <2>4 DEF ProposalTypes
  <2> QED
    BY <1>1, <2>1, <2>3, <2>5
<1>3. ASSUME NEW a, Retract(p, a) PROVE FALSE
  <2>1. PICK x : x = [proposals[p] EXCEPT !.status = "retracted"]
    OBVIOUS
  <2>2. proposals' = [proposals EXCEPT ![p] = x]
    BY <1>0, <1>3, <2>1 DEF Retract
  <2>3. x.executed = proposals[p].executed
    BY <1>0, <2>1, StatusField
  <2> QED
    BY <1>1, <2>2, <2>3
<1>4. ASSUME NEW a \in Agents, NEW vote \in {"Agree", "Disagree", "Abstain"}, CastVote(p, a, vote)
      PROVE  Idle(Ballot[r].team)
  <2>1. PICK x : x = [proposals[p] EXCEPT !.votes[a] = vote]
    OBVIOUS
  <2>2. x \in ProposalTypes /\ x.executed = proposals[p].executed
    <3>1. vote \in {"none", "Agree", "Disagree", "Abstain"}
      OBVIOUS
    <3> QED
      BY <1>0, <2>1, <3>1, VoteField
  <2>3. \/ proposals' = [proposals EXCEPT ![p] = x]
        \/ \E k \in {"rejected", "approved"} : proposals' = [proposals EXCEPT ![p] = [x EXCEPT !.status = k]]
        \/ Idle(Ballot[p].team) /\ \E y : proposals' = [proposals EXCEPT ![p] = y]
    BY <1>4, <2>1 DEF CastVote, Deferred
  <2>4. \A k \in {"rejected", "approved"} : [x EXCEPT !.status = k].executed = x.executed
    BY <2>2, StatusField
  <2> QED
    BY <1>1, <2>2, <2>3, <2>4
<1> QED
  BY <1>2, <1>3, <1>4, Zenon DEF Vote

LEMMA ApplyOwn ==
    ASSUME Balloted, NEW t \in Scopes, Apply(t), NEW r \in Proposals, proposals'[r] # proposals[r]
    PROVE  Ballot[r].team = t
<1>1. PICK x \in Outcomes(t) : proposals' = x.proposals
  BY ApplyFacts DEF Balloted
<1> QED
  BY <1>1 DEF Outcomes, Approved

LEMMA ExecutedBetween ==
    ASSUME Shaped, Balloted, Solo, TalkStep,
           NEW p \in Proposals, proposals'[p].executed, proposals'[p] # proposals[p]
    PROVE  TakesEffect(p)
<1>1. ~proposals[p].executed /\ proposals[p].status \in {"active", "approved"}
  BY BallotingByTalk DEF Balloting
<1>2. ASSUME NEW s \in sessions, s.team = Ballot[p].team, Running(s) PROVE s \notin sessions'
  <2>1. ASSUME NEW c \in sessions, Proceed(c) PROVE s \notin sessions'
    <3>1. UNCHANGED proposals \/ \E errors \in BOOLEAN : EndRound(c, errors)
      BY <2>1, Zenon DEF Proceed, Enter, Abort, Break, Audited
    <3>2. PICK errors \in BOOLEAN : EndRound(c, errors)
      BY <3>1
    <3>3. Apply(c.team) /\ c.round \in 1..limit.rounds
      BY <3>2 DEF EndRound
    <3>4. c.team \in Scopes /\ c.round \in Nat
      BY DEF Shaped, IsSession
    <3>5. c.team = Ballot[p].team
      BY <3>3, <3>4, ApplyOwn
    <3>6. Running(c)
      BY <3>3, <3>4 DEF Shaped, Running
    <3>7. s = c
      BY <1>2, <3>5, <3>6 DEF Solo
    <3>8. PICK y : /\ y.round = c.round + 1
                   /\ \A r \in sessions' : r \in sessions \ {c} \/ r = y \/ ~Running(r)
      BY <2>1, ProceedSessions
    <3>9. y # c
      BY <3>4, <3>8
    <3> QED
      BY <3>6, <3>7, <3>8, <3>9
  <2>2. ASSUME NEW t, Call(t) \/ \E id : Acknowledge(t, id) PROVE FALSE
    BY <2>2, Zenon DEF Call, Acknowledge
  <2>3. ASSUME NEW m, Send(m) \/ SendReturns(m) PROVE FALSE
    BY <2>3, Zenon DEF Send, SendReturns
  <2>4. ASSUME NEW v \in Proposals, Vote(v) PROVE s \notin sessions'
    BY <1>1, <1>2, <2>4, VoteIdle DEF Idle
  <2> QED
    BY <2>1, <2>2, <2>3, <2>4, Zenon DEF TalkStep
<1> QED
  BY <1>1, <1>2 DEF TakesEffect

DeferredStep ==
    /\ \A p \in Proposals :
         proposals'[p].executed /\ proposals'[p] # proposals[p] => TakesEffect(p)
    /\ \A t \in Scopes \cup Requests :
         members'[t] # members[t] /\ <<flight, spent>>' = <<flight, spent>> =>
           \E p \in Proposals : Ballot[p].team = t /\ ~proposals[p].executed /\ proposals'[p].executed

LEMMA AddsChanges ==
    ASSUME Counted, NEW field \in {"faults", "leaves"}, Adds(field)
    PROVE  spent' # spent
<1>1. spent'[field] = spent[field] + 1 /\ spent[field] \in Nat
  BY DEF Adds, Counted
<1> QED
  BY <1>1

LEMMA DeferredByOther ==
    ASSUME UNCHANGED proposals, UNCHANGED members \/ flight' # flight \/ spent' # spent
    PROVE  DeferredStep
BY DEF DeferredStep

LEMMA DeferredByStep ==
    ASSUME Shaped, Counted, Formed, Balloted, Solo, [Next]_vars
    PROVE  DeferredStep
<1>1. CASE TalkStep
  <2>1. \A p \in Proposals : proposals'[p].executed /\ proposals'[p] # proposals[p] => TakesEffect(p)
    BY <1>1, ExecutedBetween
  <2>2. \A t \in Scopes \cup Requests : members'[t] # members[t] =>
          \E p \in Proposals : Ballot[p].team = t /\ ~proposals[p].executed /\ proposals'[p].executed
    BY <1>1, BallotingByTalk DEF Balloting
  <2> QED
    BY <2>1, <2>2 DEF DeferredStep
<1>2. CASE Operation /\ UNCHANGED <<proposals, limit>>
  <2>1. Advance
    BY <1>2, OperationAdvance
  <2>2. ASSUME NEW c, flight' = flight \cup {c}, NewCommit(c), c.requests # {} PROVE flight' # flight
    <3>1. c \notin flight
      BY <2>2 DEF NewCommit, LockFree
    <3> QED
      BY <2>2, <3>1
  <2>3. members' = members \/ Adds("leaves") \/ flight' # flight
    BY <2>1, <2>2 DEF Advance
  <2> QED
    BY <1>2, <2>3, AddsChanges, DeferredByOther
<1>3. ASSUME NEW f \in flight, Fail(f), UNCHANGED <<proposals, limit>> PROVE DeferredStep
  BY <1>3, FailSteps, AddsChanges, DeferredByOther
<1>4. CASE UNCHANGED vars \/ \E frozen : Restart(frozen)
  <2>1. UNCHANGED <<members, proposals>>
    BY <1>4 DEF vars, formVars, talkVars, Restart, Recover
  <2> QED
    BY <2>1, DeferredByOther
<1>5. ASSUME NEW f \in flight, Finish(f) \/ Cancel(f), UNCHANGED proposals PROVE DeferredStep
  BY <1>5, DeferredByOther DEF Finish, Cancel
<1>6. CASE FormationStep /\ UNCHANGED limit
  <2>1. UNCHANGED proposals
    BY <1>6 DEF FormationStep, talkVars
  <2>2. Operation \/ \E f \in flight : Finish(f) \/ Cancel(f) \/ Fail(f)
    BY <1>6, Zenon DEF FormationStep, Operation
  <2> QED
    BY <1>2, <1>3, <1>5, <1>6, <2>1, <2>2
<1> QED
  BY <1>1, <1>4, <1>6, Zenon DEF Next

\* A proposal is executed once, when no round of its AgentTeam goes on (apply_proposals
\* runs at the end of a round, and a vote that comes in a round waits for it); a step
\* that executes none changes members only where a commit begins, one is rolled back
\* or a member is removed.
THEOREM VotesTakeEffectBetweenRounds == Spec => VotesDeferred
<1>1. Shaped /\ Counted /\ Formed /\ Balloted /\ Solo /\ [Next]_vars => [DeferredStep]_vars
  BY DeferredByStep
<1>2. [][DeferredStep]_vars => VotesDeferred
  BY PTL DEF VotesDeferred, DeferredStep
<1> QED
  BY <1>1, <1>2, ShapedInvariant, CountedInvariant, FormedInvariant, SoloInvariant, PTL DEF Spec

-----------------------------------------------------------------------------
(* What can be restored.  Without failures every draft fits the formation  *)
(* it belongs to, and the revisions that come from it.                      *)

\* Drafts that no deliberation has completed.
Early == {"PENDING", "RUNNING", "FAILED", "CANCELLED"}

Sourced(d, q, n) == Known(q, n) /\ forms[q].revisions[n].source = d

\* What a draft x says of a revision that comes from it.
Matches(d, x, q, n) ==
    /\ x.status = "PUBLISHED" /\ x.candidate = ContentAt(q, n)
    /\ Initiator[q] = Initiator[d] /\ Scope[q] = Scope[d]
    /\ IF x.request = Initial THEN n = 1 ELSE q = x.request /\ n = x.base + 1

Based(d, x) ==
    x.status # "none" /\ x.request \in Requests =>
        /\ Known(x.request, x.base)
        /\ Initiator[d] = Initiator[x.request] /\ Scope[d] = Scope[x.request]

Borne(d, x) ==
    x.status = "PUBLISHED" =>
        /\ x.candidate \in Contents
        /\ \/ \E q \in Requests, n \in Nat : Sourced(d, q, n)
           \/ x.request \in Requests /\ x.candidate = ContentAt(x.request, x.base)

Origin(d, x) ==
    /\ \A q \in Requests, n \in Nat : Sourced(d, q, n) => Matches(d, x, q, n)
    /\ \A q, r \in Requests, n, m \in Nat : Sourced(d, q, n) /\ Sourced(d, r, m) => q = r

Sound(d, x) ==
    /\ Based(d, x) /\ Borne(d, x) /\ Origin(d, x)
    /\ x.status \in Early => x.candidate = Nothing
    /\ x.status = "READY" => BaseCurrent(x)

Tidy ==
    /\ \A d \in Drafts : Sound(d, drafts[d])
    /\ \A w \in waiting : w.own = {} /\ drafts[w.draft].status \in {"READY", "STALE"}
    /\ \A q \in Requests : forms[q].status = "created" => q \in teams

\* Revisions stay.
Growing ==
    \A q \in Requests, n \in Nat : Known(q, n) =>
        Known(q, n)' /\ forms'[q].revisions[n] = forms[q].revisions[n]

\* G has the revisions of F.
Extends(F, G) ==
    \A n \in 1..Len(F.revisions) : n \in 1..Len(G.revisions) /\ G.revisions[n] = F.revisions[n]

\* New revisions come from d, or from no draft.
Brings(d) ==
    \A q \in Requests, n \in Nat : Known(q, n)' => Known(q, n) \/ forms'[q].revisions[n].source = d

\* A draft an operation does not own stays, but that it may become stale.
Spared(e) ==
    \/ drafts'[e] = drafts[e]
    \/ drafts[e].status = "READY" /\ drafts'[e] = [drafts[e] EXCEPT !.status = "STALE"]

Timely(e) == drafts'[e].status = "READY" => BaseCurrent(drafts[e])'

Queued(d) ==
    \A w \in waiting' : /\ w.own = {} /\ w.draft # d /\ w.draft \in Drafts
                        /\ drafts[w.draft].status \in {"READY", "STALE"}

Housed ==
    /\ teams \subseteq teams'
    /\ \A q \in Requests : forms'[q].status = "created" => forms[q].status = "created" \/ q \in teams'

\* An operation of the draft d, or of no draft.
Works(d) ==
    /\ Brings(d) /\ Queued(d) /\ Housed
    /\ \A e \in Drafts \ {d} : Spared(e) /\ Timely(e)
    /\ d \in Drafts => Sound(d, drafts[d])'

LEMMA Appended ==
    ASSUME NEW F \in FormTypes, NEW c \in Contents, NEW s \in Drafts \cup {Nothing},
           NEW G, G = Revised(F, c, s)
    PROVE  /\ G.status \in {"collecting", "ready"} /\ Len(F.revisions) \in Nat
           /\ Len(G.revisions) = Len(F.revisions) + 1
           /\ G.revisions[Len(F.revisions) + 1] = [content |-> c, source |-> s]
           /\ \A n \in 1..Len(F.revisions) : G.revisions[n] = F.revisions[n]
<1>1. F.revisions \in Seq([content : Contents, source : Drafts \cup {Nothing}])
  BY DEF FormTypes
<1>2. [content |-> c, source |-> s] \in [content : Contents, source : Drafts \cup {Nothing}]
  OBVIOUS
<1>3. /\ G.revisions = Append(F.revisions, [content |-> c, source |-> s])
      /\ G.status = IF Content[c].invitees = {} /\ ~Content[c].auto THEN "ready" ELSE "collecting"
  <2>1. /\ G \in FormTypes
        /\ G.status = IF Content[c].invitees = {} /\ ~Content[c].auto THEN "ready" ELSE "collecting"
        /\ G.revisions = Append(F.revisions, [content |-> c, source |-> s])
        /\ G.attitude = [a \in Agents |-> IF a \in Content[c].invitees THEN "silent" ELSE "none"]
        /\ G.joined = {} /\ G.late = [a \in Agents |-> "no"]
    BY RevisedFields
  <2> QED
    BY <2>1
<1>4. Len(F.revisions) \in Nat
  BY <1>1
<1> QED
  BY <1>1, <1>2, <1>3, <1>4, AppendProperties

LEMMA RevisedExtends ==
    ASSUME NEW F \in FormTypes, NEW c \in Contents, NEW s \in Drafts \cup {Nothing},
           NEW G, G = Revised(F, c, s)
    PROVE  Extends(F, G)
<1>1. /\ G.status \in {"collecting", "ready"} /\ Len(F.revisions) \in Nat
      /\ Len(G.revisions) = Len(F.revisions) + 1
      /\ G.revisions[Len(F.revisions) + 1] = [content |-> c, source |-> s]
      /\ \A n \in 1..Len(F.revisions) : G.revisions[n] = F.revisions[n]
  BY Appended
<1> QED
  BY <1>1 DEF Extends

LEMMA SameExtends ==
    ASSUME NEW F, NEW G, G.revisions = F.revisions
    PROVE  Extends(F, G)
BY DEF Extends

LEMMA MovedExtends ==
    ASSUME NEW q \in Requests, NEW F \in FormTypes, NEW D \in SUBSET Judged, NEW M \in SUBSET Agents,
           NEW G, NEW E, NEW N, Moved(q, F, D, M, G, E, N), F.status # "none"
    PROVE  Extends(F, G)
<1>1. CASE Rewritten(q, F, D, M, G, E, N)
  <2>1. PICK c \in Contents, s \in Drafts \cup {Nothing} : G = Revised(F, c, s)
    BY <1>1 DEF Rewritten
  <2> QED
    BY <2>1, RevisedExtends
<1>2. CASE Begun(q, F, D, M, G, E, N)
  BY <1>2 DEF Begun
<1>3. ASSUME NEW H \in FormTypes, NEW K, Realized(q, H, K, M, G, E, N) PROVE G.revisions = H.revisions
  <2>1. G = [H EXCEPT !.status = "created", !.joined = Accepted(H)]
    BY <1>3 DEF Realized
  <2> QED
    BY <2>1 DEF FormTypes
<1>4. ASSUME NEW H, Answered(q, F, D, M, H, E, M) PROVE H \in FormTypes /\ H.revisions = F.revisions
  <2>1. H \in FormTypes
    BY <1>4, AnsweredTypes
  <2>2. PICK a, v, g, k : g = [F EXCEPT !.attitude[a] = v] /\ H = [g EXCEPT !.status = k]
    BY <1>4 DEF Answered
  <2>3. g.revisions = F.revisions /\ H.revisions = g.revisions
    BY <2>2 DEF FormTypes
  <2> QED
    BY <2>1, <2>3
<1>5. CASE Answered(q, F, D, M, G, E, N)
  <2>1. Answered(q, F, D, M, G, E, M)
    BY <1>5 DEF Answered
  <2> QED
    BY <1>4, <2>1, SameExtends
<1>6. CASE Closing(q, F, D, M, G, E, N)
  <2>1. G = [F EXCEPT !.status = "abandoned"]
    BY <1>6 DEF Closing
  <2> QED
    BY <2>1, SameExtends DEF FormTypes
<1>7. CASE Joining(q, F, D, M, G, E, N)
  <2>1. PICK a \in Agents : G = Taken(F, a, "accepted", "approved")
    BY <1>7 DEF Joining, Taken
  <2>2. PICK g : g = [F EXCEPT !.attitude[a] = "accepted"]
    OBVIOUS
  <2>3. PICK h : h = [g EXCEPT !.joined = @ \cup {a}]
    OBVIOUS
  <2>4. G = [h EXCEPT !.late[a] = "approved"]
    BY <2>1, <2>2, <2>3 DEF Taken, FormTypes
  <2>5. g.revisions = F.revisions /\ h.revisions = g.revisions /\ G.revisions = h.revisions
    BY <2>2, <2>3, <2>4 DEF FormTypes
  <2> QED
    BY <2>5, SameExtends
<1>8. CASE Reconsidered(q, F, D, M, G, E, N)
  <2>1. PICK a \in Invited(F) \ F.joined, v \in Answers :
         G = [F EXCEPT !.attitude[a] = v, !.late[a] = IF v = "accepted" THEN "pending" ELSE "no"]
    BY <1>8 DEF Reconsidered
  <2>2. PICK g : g = [F EXCEPT !.attitude[a] = v]
    OBVIOUS
  <2>3. G = [g EXCEPT !.late[a] = IF v = "accepted" THEN "pending" ELSE "no"]
    BY <2>1, <2>2
  <2>4. g.revisions = F.revisions /\ G.revisions = g.revisions
    BY <2>2, <2>3 DEF FormTypes
  <2> QED
    BY <2>4, SameExtends
<1>9. CASE Refused(q, F, D, M, G, E, N)
  <2>1. PICK a : G = [F EXCEPT !.late[a] = "denied"]
    BY <1>9 DEF Refused
  <2> QED
    BY <2>1, SameExtends DEF FormTypes
<1>10. ASSUME NEW H, Answered(q, F, D, M, H, E, M), Realized(q, H, E, M, G, E, N) PROVE G.revisions = F.revisions
  BY <1>3, <1>4, <1>10
<1>11. CASE Realized(q, F, D, M, G, E, N)
  BY <1>3, <1>11, SameExtends
<1>12. ASSUME G.revisions = F.revisions PROVE Extends(F, G)
  BY <1>12, SameExtends
<1>13. ASSUME G = F /\ E = D /\ N \in SUBSET M PROVE G.revisions = F.revisions
  BY <1>13
<1> QED
  BY <1>1, <1>2, <1>5, <1>6, <1>7, <1>8, <1>9, <1>10, <1>11, <1>12, <1>13, Zenon DEF Moved

LEMMA GrowingByShift ==
    ASSUME Formed, Balloted, Shifted
    PROVE  Growing
<1> SUFFICES ASSUME NEW q \in Requests, NEW n \in Nat, Known(q, n)
             PROVE  Known(q, n)' /\ forms'[q].revisions[n] = forms[q].revisions[n]
  BY DEF Growing
<1>1. PICK F, D, M, G, E, N : /\ F = forms[q] /\ D = decided[q] /\ M = members[q]
                              /\ G = forms'[q] /\ E = decided'[q] /\ N = members'[q]
  OBVIOUS
<1>2. F \in FormTypes /\ D \in SUBSET Judged /\ M \in SUBSET Agents /\ Moved(q, F, D, M, G, E, N)
  BY <1>1, Registries DEF Shifted
<1>3. F.status # "none" /\ n \in 1..Len(F.revisions)
  BY <1>1 DEF Known, Revision
<1>4. G.status # "none"
  BY <1>2, <1>3, MovedStatus
<1>5. Extends(F, G)
  BY <1>2, <1>3, MovedExtends
<1>6. n \in 1..Len(G.revisions) /\ G.revisions[n] = F.revisions[n]
  BY <1>3, <1>5 DEF Extends
<1> QED
  BY <1>1, <1>4, <1>6 DEF Known, Revision

LEMMA RelabelFields ==
    ASSUME NEW x \in DraftTypes, NEW k, NEW y, y = [x EXCEPT !.status = k]
    PROVE  y.status = k /\ y.request = x.request /\ y.base = x.base /\ y.candidate = x.candidate
BY DEF DraftTypes

LEMMA SparedFields ==
    ASSUME Formed, NEW e \in Drafts, Spared(e)
    PROVE  /\ drafts'[e].request = drafts[e].request /\ drafts'[e].base = drafts[e].base
           /\ drafts'[e].candidate = drafts[e].candidate /\ drafts[e].base \in Nat
           /\ \/ drafts'[e].status = drafts[e].status
              \/ drafts[e].status = "READY" /\ drafts'[e].status = "STALE"
<1>1. PICK x \in DraftTypes : x = drafts[e]
  BY DEF Formed, Drafty
<1>2. CASE drafts'[e] = drafts[e]
  BY <1>1, <1>2 DEF DraftTypes
<1>3. CASE drafts[e].status = "READY" /\ drafts'[e] = [drafts[e] EXCEPT !.status = "STALE"]
  <2>1. PICK y : y = drafts'[e]
    OBVIOUS
  <2>2. y = [x EXCEPT !.status = "STALE"]
    BY <1>1, <1>3, <2>1
  <2>3. y.status = "STALE" /\ y.request = x.request /\ y.base = x.base /\ y.candidate = x.candidate
    BY <2>2, RelabelFields
  <2> QED
    BY <1>1, <1>3, <2>1, <2>3 DEF DraftTypes
<1> QED
  BY <1>2, <1>3 DEF Spared

\* Revisions of another draft are not new, and stay.
LEMMA SourcedAgain ==
    ASSUME Growing, NEW d, Brings(d), NEW e, e # d, NEW q \in Requests, NEW n \in Nat
    PROVE  /\ (Sourced(e, q, n)' => Sourced(e, q, n)) /\ (Sourced(e, q, n) => Sourced(e, q, n)')
           /\ Known(q, n) => Known(q, n)' /\ ContentAt(q, n)' = ContentAt(q, n)
<1>1. Known(q, n) => Known(q, n)' /\ forms'[q].revisions[n] = forms[q].revisions[n]
  BY DEF Growing
<1>2. Known(q, n)' => Known(q, n) \/ forms'[q].revisions[n].source = d
  BY DEF Brings
<1>3. Sourced(e, q, n)' <=> Known(q, n)' /\ forms'[q].revisions[n].source = e
  BY DEF Sourced
<1>4. Sourced(e, q, n) <=> Known(q, n) /\ forms[q].revisions[n].source = e
  BY DEF Sourced
<1>5. ContentAt(q, n)' = forms'[q].revisions[n].content /\ ContentAt(q, n) = forms[q].revisions[n].content
  BY DEF ContentAt
<1>6. Known(q, n) => Known(q, n)' /\ ContentAt(q, n)' = ContentAt(q, n)
  BY <1>1, <1>5
<1>7. Sourced(e, q, n) => Sourced(e, q, n)'
  BY <1>1, <1>3, <1>4
<1>8. Sourced(e, q, n)' => Known(q, n)
  BY <1>2, <1>3
<1>9. Sourced(e, q, n)' => Sourced(e, q, n)
  BY <1>1, <1>3, <1>4, <1>8
<1> QED
  BY <1>6, <1>7, <1>9

LEMMA SparedSound ==
    ASSUME Formed, Growing, NEW d, Brings(d), NEW e \in Drafts, e # d, Sound(e, drafts[e]), Spared(e), Timely(e)
    PROVE  Sound(e, drafts[e])'
<1>1. PICK x, y : x = drafts[e] /\ y = drafts'[e]
  OBVIOUS
<1>2. /\ y.request = x.request /\ y.base = x.base /\ y.candidate = x.candidate /\ x.base \in Nat
      /\ \/ y.status = x.status
         \/ x.status = "READY" /\ y.status = "STALE"
  BY <1>1, SparedFields
<1>3. \A q \in Requests, n \in Nat : /\ (Sourced(e, q, n)' => Sourced(e, q, n)) /\ (Sourced(e, q, n) => Sourced(e, q, n)')
                                     /\ Known(q, n) => Known(q, n)' /\ ContentAt(q, n)' = ContentAt(q, n)
  BY SourcedAgain
<1>4. Based(e, x) /\ Borne(e, x) /\ Origin(e, x) /\ (x.status \in Early => x.candidate = Nothing)
  BY <1>1 DEF Sound
<1>5. Based(e, y)'
  BY <1>2, <1>3, <1>4 DEF Based
<1>6. Borne(e, y)'
  <2> SUFFICES ASSUME y.status = "PUBLISHED" PROVE Borne(e, y)'
    BY DEF Borne
  <2>1. x.status = "PUBLISHED" /\ x.status # "none"
    BY <1>2
  <2>2. y.candidate \in Contents
    BY <1>2, <1>4, <2>1 DEF Borne
  <2>3. ASSUME NEW q \in Requests, NEW n \in Nat, Sourced(e, q, n) PROVE Borne(e, y)'
    BY <1>3, <2>2, <2>3 DEF Borne
  <2>4. CASE x.request \in Requests /\ x.candidate = ContentAt(x.request, x.base)
    <3>1. Known(x.request, x.base)
      BY <1>4, <2>1, <2>4 DEF Based
    <3>2. ContentAt(x.request, x.base)' = ContentAt(x.request, x.base)
      BY <1>2, <1>3, <2>4, <3>1
    <3> QED
      BY <1>2, <2>2, <2>4, <3>2 DEF Borne
  <2> QED
    BY <1>4, <2>1, <2>3, <2>4 DEF Borne
<1>7. Origin(e, y)'
  <2>1. ASSUME NEW q \in Requests, NEW n \in Nat, Sourced(e, q, n)' PROVE Matches(e, y, q, n)'
    <3>1. Sourced(e, q, n) /\ Matches(e, x, q, n)
      BY <1>3, <1>4, <2>1 DEF Origin
    <3>2. ContentAt(q, n)' = ContentAt(q, n)
      BY <1>3, <3>1 DEF Sourced
    <3> QED
      BY <1>2, <3>1, <3>2 DEF Matches
  <2>2. ASSUME NEW q \in Requests, NEW r \in Requests, NEW n \in Nat, NEW m \in Nat,
               Sourced(e, q, n)', Sourced(e, r, m)' PROVE q = r
    BY <1>3, <1>4, <2>2 DEF Origin
  <2> QED
    BY <2>1, <2>2 DEF Origin
<1>8. y.status \in Early => y.candidate = Nothing
  BY <1>2, <1>4 DEF Early
<1>9. (y.status = "READY" => BaseCurrent(y))'
  BY <1>1 DEF Timely
<1>10. Sound(e, y)'
  BY <1>5, <1>6, <1>7, <1>8, <1>9 DEF Sound
<1> QED
  BY <1>1, <1>10

LEMMA TidyByWorks ==
    ASSUME Formed, Tidy, Growing, NEW d, Works(d)
    PROVE  Tidy'
<1>1. \A e \in Drafts : Sound(e, drafts[e])'
  <2> SUFFICES ASSUME NEW e \in Drafts PROVE Sound(e, drafts[e])'
    OBVIOUS
  <2>1. CASE e = d
    BY <2>1 DEF Works
  <2>2. CASE e # d
    <3>1. Sound(e, drafts[e]) /\ Brings(d) /\ Spared(e) /\ Timely(e)
      BY <2>2 DEF Tidy, Works
    <3> QED
      BY <2>2, <3>1, SparedSound
  <2> QED
    BY <2>1, <2>2
<1>2. ASSUME NEW w \in waiting' PROVE w.own = {} /\ drafts'[w.draft].status \in {"READY", "STALE"}
  <2>1. w.own = {} /\ w.draft \in Drafts /\ w.draft # d /\ drafts[w.draft].status \in {"READY", "STALE"}
    BY <1>2 DEF Works, Queued
  <2>2. Spared(w.draft)
    BY <2>1 DEF Works
  <2>3. \/ drafts'[w.draft].status = drafts[w.draft].status
        \/ drafts[w.draft].status = "READY" /\ drafts'[w.draft].status = "STALE"
    BY <2>1, <2>2, SparedFields
  <2> QED
    BY <2>1, <2>3
<1>3. \A q \in Requests : forms'[q].status = "created" => q \in teams'
  BY DEF Tidy, Works, Housed
<1> QED
  BY <1>1, <1>2, <1>3 DEF Tidy

\* What an operation on no formation, or on one, brings.
LEMMA BringsNothing ==
    ASSUME UNCHANGED forms
    PROVE  \A d : Brings(d)
BY DEF Brings, Known

LEMMA BringsNoRevision ==
    ASSUME Formed, NEW q \in Requests, forms[q].status # "none", NEW G, G.revisions = forms[q].revisions,
           forms' = [forms EXCEPT ![q] = G]
    PROVE  \A d : Brings(d)
<1> SUFFICES ASSUME NEW r \in Requests, NEW n \in Nat, Known(r, n)' PROVE Known(r, n)
  BY DEF Brings
<1>1. forms'[q] = G /\ \A x \in Requests : x # q => forms'[x] = forms[x]
  BY DEF Formed
<1>2. CASE r = q
  BY <1>1, <1>2 DEF Known, Revision
<1>3. CASE r # q
  BY <1>1, <1>3 DEF Known
<1> QED
  BY <1>2, <1>3

\* The revision k of q is new, and the only one that is.
Gains(q, k, c, s) ==
    /\ k \in Nat /\ Known(q, k)' /\ forms'[q].revisions[k] = [content |-> c, source |-> s]
    /\ \A r \in Requests, n \in Nat : Known(r, n)' => Known(r, n) \/ (r = q /\ n = k)

LEMMA BringsRevision ==
    ASSUME Formed, NEW q \in Requests, NEW f \in FormTypes,
           f = forms[q] \/ (forms[q].status = "none" /\ f = Unused), forms[q].status = "none" => f = Unused,
           NEW c \in Contents, NEW s \in Drafts \cup {Nothing}, NEW G, G = Revised(f, c, s),
           forms' = [forms EXCEPT ![q] = G], NEW k, k = Len(f.revisions) + 1
    PROVE  Gains(q, k, c, s) /\ Brings(s)
<1>1. forms'[q] = G /\ \A x \in Requests : x # q => forms'[x] = forms[x]
  BY DEF Formed
<1>2. /\ G.status \in {"collecting", "ready"} /\ Len(f.revisions) \in Nat
      /\ Len(G.revisions) = Len(f.revisions) + 1
      /\ G.revisions[Len(f.revisions) + 1] = [content |-> c, source |-> s]
      /\ \A n \in 1..Len(f.revisions) : G.revisions[n] = f.revisions[n]
  BY Appended
<1>3. k \in Nat /\ k >= 1 /\ Known(q, k)' /\ forms'[q].revisions[k] = [content |-> c, source |-> s]
  BY <1>1, <1>2 DEF Known, Revision
<1>4. ASSUME NEW r \in Requests, NEW n \in Nat, Known(r, n)', ~(r = q /\ n = k) PROVE Known(r, n)
  <2>1. CASE r # q
    BY <1>1, <1>4, <2>1 DEF Known
  <2>2. CASE r = q
    <3>1. n \in 1..Len(f.revisions)
      BY <1>1, <1>2, <1>4, <2>2 DEF Known, Revision
    <3>2. Unused.revisions = <<>> /\ Len(Unused.revisions) = 0
      BY DEF Unused
    <3>3. f # Unused
      BY <3>1, <3>2
    <3>4. f = forms[q] /\ forms[q].status # "none"
      BY <3>3
    <3> QED
      BY <2>2, <3>1, <3>4 DEF Known, Revision
  <2> QED
    BY <2>1, <2>2
<1>5. Brings(s)
  BY <1>3, <1>4 DEF Brings
<1> QED
  BY <1>3, <1>4, <1>5 DEF Gains

\* Drafts are as fresh as they were.
LEMMA TimelyStill ==
    ASSUME UNCHANGED forms, NEW e, Sound(e, drafts[e]), drafts'[e] = drafts[e]
    PROVE  Spared(e) /\ Timely(e)
<1>1. drafts[e].status = "READY" => BaseCurrent(drafts[e])
  BY DEF Sound
<1> QED
  BY <1>1 DEF Spared, Timely, BaseCurrent

LEMMA TimelyElsewhere ==
    ASSUME Formed, NEW q \in Requests, NEW G, forms' = [forms EXCEPT ![q] = G],
           NEW e, Sound(e, drafts[e]), drafts'[e] = drafts[e],
           \/ drafts[e].status = "READY" => drafts[e].request # q
           \/ Open(forms[q]) => Open(G) /\ G.revisions = forms[q].revisions
    PROVE  Spared(e) /\ Timely(e)
<1>1. drafts[e].status = "READY" => BaseCurrent(drafts[e])
  BY DEF Sound
<1>2. forms'[q] = G /\ \A x \in Requests : x # q => forms'[x] = forms[x]
  BY DEF Formed
<1>3. ASSUME drafts[e].status = "READY", NEW r \in Requests \cap {drafts[e].request}
      PROVE  Open(forms'[r]) /\ drafts[e].base = Revision(forms'[r])
  <2>1. Open(forms[r]) /\ drafts[e].base = Revision(forms[r])
    BY <1>1, <1>3 DEF BaseCurrent
  <2> QED
    BY <1>2, <1>3, <2>1 DEF Revision
<1>4. Timely(e)
  BY <1>3 DEF Timely, BaseCurrent
<1> QED
  BY <1>4 DEF Spared

\* Whoever closes or revises a formation has made the drafts of its revision stale.
LEMMA StaleSpares ==
    ASSUME Formed, NEW q \in Requests, NEW G, forms' = [forms EXCEPT ![q] = G], NEW except,
           NEW e \in Drafts \ except, Sound(e, drafts[e]), drafts'[e] = Staled(Stale(q, except))[e]
    PROVE  Spared(e) /\ Timely(e)
<1>1. PICK S : S = Stale(q, except)
  OBVIOUS
<1>2. e \in S <=> drafts[e].status = "READY" /\ drafts[e].request = q
  BY <1>1 DEF Stale
<1>3. CASE e \in S
  <2>1. drafts'[e] = [drafts[e] EXCEPT !.status = "STALE"] /\ drafts[e].status = "READY"
    BY <1>1, <1>2, <1>3 DEF Staled
  <2>2. drafts[e] \in DraftTypes
    BY DEF Formed, Drafty
  <2>3. drafts'[e].status = "STALE"
    BY <2>1, <2>2 DEF DraftTypes
  <2> QED
    BY <2>1, <2>3 DEF Spared, Timely
<1>4. CASE e \notin S
  <2>1. drafts'[e] = drafts[e]
    BY <1>1, <1>4 DEF Staled
  <2>2. drafts[e].status = "READY" => drafts[e].request # q
    BY <1>2, <1>4
  <2> QED
    BY <2>1, <2>2, TimelyElsewhere
<1> QED
  BY <1>3, <1>4

\* Publications that wait go on waiting.
LEMMA QueuedStill ==
    ASSUME Formed, Tidy, waiting' \subseteq waiting, NEW d, \A w \in waiting' : w.draft # d
    PROVE  Queued(d)
<1> SUFFICES ASSUME NEW w \in waiting'
             PROVE  w.own = {} /\ w.draft # d /\ w.draft \in Drafts /\ drafts[w.draft].status \in {"READY", "STALE"}
  BY DEF Queued
<1>1. IsWait(w)
  BY DEF Formed
<1>2. w.own = {} /\ drafts[w.draft].status \in {"READY", "STALE"}
  BY DEF Tidy
<1> QED
  BY <1>1, <1>2 DEF IsWait

LEMMA QueuedNone ==
    ASSUME Formed, Tidy, waiting' \subseteq waiting
    PROVE  Queued(Nothing) /\ Nothing \notin Drafts
<1>1. Nothing \notin Drafts
  BY FormationAssumption
<1>2. \A w \in waiting' : w.draft # Nothing
  BY <1>1 DEF Formed, IsWait
<1> QED
  BY <1>1, <1>2, QueuedStill

LEMMA HousedSame ==
    ASSUME UNCHANGED <<forms, teams>>
    PROVE  Housed
BY DEF Housed

LEMMA HousedAt ==
    ASSUME Formed, NEW q \in Requests, NEW G, forms' = [forms EXCEPT ![q] = G], teams \subseteq teams',
           G.status = "created" => forms[q].status = "created" \/ q \in teams'
    PROVE  Housed
<1>1. forms'[q] = G /\ \A x \in Requests : x # q => forms'[x] = forms[x]
  BY DEF Formed
<1> QED
  BY <1>1 DEF Housed

\* An operation that changes no draft and no formation.
LEMMA IdleWorks ==
    ASSUME Formed, Tidy, UNCHANGED <<forms, drafts, teams>>, waiting' \subseteq waiting
    PROVE  Works(Nothing)
<1>1. \A e \in Drafts : Spared(e) /\ Timely(e)
  BY TimelyStill DEF Tidy
<1> QED
  BY <1>1, BringsNothing, QueuedNone, HousedSame DEF Works

\* Answers, and what comes after creation.
LEMMA AnswerWorks ==
    ASSUME Formed, Tidy, UNCHANGED <<drafts, teams, waiting>>, NEW q \in Requests, NEW G,
           forms' = [forms EXCEPT ![q] = G], forms[q].status # "none", G.revisions = forms[q].revisions,
           Open(forms[q]) => Open(G), G.status = "created" => forms[q].status = "created"
    PROVE  Works(Nothing)
<1>1. \A e \in Drafts : Spared(e) /\ Timely(e)
  BY TimelyElsewhere DEF Tidy
<1>2. Brings(Nothing)
  BY BringsNoRevision
<1>3. Queued(Nothing) /\ Nothing \notin Drafts
  BY QueuedNone
<1>4. Housed
  BY HousedAt
<1> QED
  BY <1>1, <1>2, <1>3, <1>4 DEF Works

\* Creation and abandonment.
LEMMA ClosingWorks ==
    ASSUME Formed, Tidy, UNCHANGED waiting, NEW q \in Requests, NEW G, forms' = [forms EXCEPT ![q] = G],
           forms[q].status # "none", G.revisions = forms[q].revisions,
           teams \subseteq teams', G.status = "created" => q \in teams',
           drafts' = Staled(Stale(q, {}))
    PROVE  Works(Nothing)
<1>1. ASSUME NEW e \in Drafts PROVE Spared(e) /\ Timely(e)
  <2>1. PICK except : except = {}
    OBVIOUS
  <2>2. e \in Drafts \ except /\ drafts'[e] = Staled(Stale(q, except))[e] /\ Sound(e, drafts[e])
    BY <2>1 DEF Tidy
  <2> QED
    BY <2>2, StaleSpares
<1>2. Brings(Nothing)
  BY BringsNoRevision
<1>3. Queued(Nothing) /\ Nothing \notin Drafts
  BY QueuedNone
<1>4. Housed
  BY HousedAt
<1> QED
  BY <1>1, <1>2, <1>3, <1>4 DEF Works

\* The request of a draft has been proposed.
LEMMA BegunSpares ==
    ASSUME Formed, NEW q \in Requests, forms[q].status = "none", NEW G, forms' = [forms EXCEPT ![q] = G],
           NEW e, Sound(e, drafts[e]), drafts'[e] = drafts[e]
    PROVE  Spared(e) /\ Timely(e)
<1>1. drafts[e].status = "READY" => drafts[e].request # q
  BY DEF Sound, Based, Known
<1> QED
  BY <1>1, TimelyElsewhere

LEMMA ProposeWorks ==
    ASSUME Formed, Tidy, NEW q \in Requests, NEW c \in Contents, Propose(q, c)
    PROVE  Works(Nothing)
<1>1. PICK G : G = Revised(Unused, c, Nothing)
  OBVIOUS
<1>2. forms[q].status = "none" /\ forms' = [forms EXCEPT ![q] = G] /\ UNCHANGED <<drafts, teams, waiting>>
  BY <1>1 DEF Propose
<1>3. PICK f \in FormTypes : f = Unused
  <2>1. Unused \in FormTypes
    BY DEF Unused, FormTypes
  <2> QED
    BY <2>1
<1>4. PICK s \in Drafts \cup {Nothing} : s = Nothing
  OBVIOUS
<1>5. PICK k : k = Len(f.revisions) + 1
  OBVIOUS
<1>6. G = Revised(f, c, s)
  BY <1>1, <1>3, <1>4
<1>7. Brings(s)
  BY <1>2, <1>3, <1>5, <1>6, BringsRevision
<1>8. \A e \in Drafts : Spared(e) /\ Timely(e)
  BY <1>2, BegunSpares DEF Tidy
<1>9. Queued(Nothing) /\ Nothing \notin Drafts
  BY <1>2, QueuedNone
<1>10. G.status # "created"
  BY <1>3, <1>6, Appended
<1>11. Housed
  BY <1>2, <1>10, HousedAt
<1> QED
  BY <1>4, <1>7, <1>8, <1>9, <1>11 DEF Works

LEMMA ReviseFormationWorks ==
    ASSUME Formed, Tidy, NEW q \in Requests, NEW c \in Contents, ReviseFormation(q, c)
    PROVE  Works(Nothing)
<1>1. PICK s \in Drafts \cup {Nothing} : s = Nothing
  OBVIOUS
<1>2. PICK f \in FormTypes : f = forms[q]
  BY DEF Formed
<1>3. PICK G : G = Revised(f, c, s)
  OBVIOUS
<1>4. /\ forms[q].status # "none" /\ forms' = [forms EXCEPT ![q] = G] /\ UNCHANGED <<teams, waiting>>
  BY <1>1, <1>2, <1>3 DEF ReviseFormation, Revisable, Open, Revise
<1>5. PICK none, except : none = <<>> /\ except = {s}
  OBVIOUS
<1>6. drafts' = Override(Staled(Stale(q, except)), none)
  BY <1>1, <1>5 DEF ReviseFormation, Revise
<1>7. ASSUME NEW e \in Drafts PROVE drafts'[e] = Staled(Stale(q, except))[e] /\ e \notin except
  <2>1. DOMAIN Staled(Stale(q, except)) = Drafts
    BY DEF Staled
  <2>2. e # s
    BY <1>1, FormationAssumption
  <2> QED
    BY <1>5, <1>6, <2>1, <2>2, EmptyDomain DEF Override
<1>8. PICK k : k = Len(f.revisions) + 1
  OBVIOUS
<1>9. Brings(s)
  BY <1>2, <1>3, <1>4, <1>8, BringsRevision
<1>10. \A e \in Drafts : Spared(e) /\ Timely(e)
  BY <1>4, <1>7, StaleSpares DEF Tidy
<1>11. Queued(Nothing) /\ Nothing \notin Drafts
  BY <1>4, QueuedNone
<1>12. G.status # "created"
  BY <1>3, Appended
<1>13. Housed
  BY <1>4, <1>12, HousedAt
<1> QED
  BY <1>1, <1>9, <1>10, <1>11, <1>13 DEF Works

LEMMA FinalizeWorks ==
    ASSUME Formed, Tidy, UNCHANGED waiting, NEW q \in Requests, forms[q].status # "none",
           NEW f \in FormTypes, f.revisions = forms[q].revisions, NEW before, NEW kind, Finalize(q, f, before, kind)
    PROVE  Works(Nothing)
<1>1. PICK G : G = [f EXCEPT !.status = "created", !.joined = Accepted(f)]
  OBVIOUS
<1>2. G.revisions = f.revisions
  BY <1>1 DEF FormTypes
<1>3. /\ forms' = [forms EXCEPT ![q] = G] /\ teams' = teams \cup {q} /\ drafts' = Staled(Stale(q, {}))
  BY <1>1 DEF Finalize, NewTeam
<1> QED
  BY <1>2, <1>3, ClosingWorks

LEMMA CreateWorks ==
    ASSUME Formed, Tidy, NEW q \in Requests, Create(q)
    PROVE  Works(Nothing)
<1>1. PICK f \in FormTypes : f = forms[q]
  BY DEF Formed
<1>2. forms[q].status # "none" /\ Finalize(q, f, forms[q], "call") /\ waiting' = waiting
  BY <1>1 DEF Create, Creatable, Open
<1> QED
  BY <1>1, <1>2, FinalizeWorks

LEMMA AutoCreateWorks ==
    ASSUME Formed, Tidy, NEW q \in Requests, NEW n, AutoCreate(q, n)
    PROVE  Works(Nothing)
<1>1. CASE Creatable(q, forms[q]) /\ Finalize(q, forms[q], forms[q], "auto")
  <2>1. PICK f \in FormTypes : f = forms[q]
    BY DEF Formed
  <2>2. forms[q].status # "none" /\ Finalize(q, f, forms[q], "auto") /\ waiting' = waiting
    BY <1>1, <2>1 DEF AutoCreate, Creatable, Open
  <2> QED
    BY <2>1, <2>2, FinalizeWorks
<1>2. CASE UNCHANGED <<forms, drafts, teams, members, mail, flight>>
  BY <1>2, IdleWorks DEF AutoCreate
<1> QED
  BY <1>1, <1>2 DEF AutoCreate

LEMMA AbandonWorks ==
    ASSUME Formed, Tidy, NEW q \in Requests, Abandon(q)
    PROVE  Works(Nothing)
<1>1. PICK F \in FormTypes : F = forms[q]
  BY DEF Formed
<1>2. PICK G : G = [F EXCEPT !.status = "abandoned"]
  OBVIOUS
<1>3. G.revisions = F.revisions /\ G.status = "abandoned"
  BY <1>2 DEF FormTypes
<1>4. /\ forms[q].status # "none" /\ forms' = [forms EXCEPT ![q] = G] /\ drafts' = Staled(Stale(q, {}))
      /\ UNCHANGED <<teams, waiting>>
  BY <1>1, <1>2 DEF Abandon, Open
<1> QED
  BY <1>1, <1>3, <1>4, ClosingWorks

LEMMA RespondWorks ==
    ASSUME Formed, Tidy, NEW q \in Requests, NEW a \in Agents, NEW n, NEW answer \in Answers, Respond(q, a, n, answer)
    PROVE  Works(Nothing)
<1>1. PICK F \in FormTypes : F = forms[q]
  BY DEF Formed
<1>2. PICK g : g = [F EXCEPT !.attitude[a] = answer]
  OBVIOUS
<1>3. PICK k \in {"ready", "collecting"} : k = IF Accepted(g) = Invited(g) /\ ~Proposal(g).auto THEN "ready" ELSE "collecting"
  OBVIOUS
<1>4. PICK f : f = [g EXCEPT !.status = k]
  OBVIOUS
<1>5. g \in FormTypes /\ g.revisions = F.revisions
  BY <1>2, AttitudeField
<1>6. f \in FormTypes /\ f.status = k /\ f.revisions = F.revisions
  BY <1>4, <1>5, FormStatusField
<1>7. forms[q].status # "none" /\ waiting' = waiting /\ Open(f) /\ f.status # "created"
  BY <1>3, <1>6 DEF Respond, Open
<1>8. \/ Finalize(q, f, forms[q], "call")
      \/ forms' = [forms EXCEPT ![q] = f] /\ UNCHANGED <<drafts, teams>>
  BY <1>1, <1>2, <1>3, <1>4 DEF Respond
<1>9. CASE Finalize(q, f, forms[q], "call")
  BY <1>1, <1>6, <1>7, <1>9, FinalizeWorks
<1>10. CASE forms' = [forms EXCEPT ![q] = f] /\ UNCHANGED <<drafts, teams>>
  BY <1>1, <1>6, <1>7, <1>10, AnswerWorks
<1> QED
  BY <1>8, <1>9, <1>10

LEMMA TakenRevisions ==
    ASSUME NEW F \in FormTypes, NEW a, NEW v, NEW k
    PROVE  /\ Put(F, a, v, k).revisions = F.revisions /\ Put(F, a, v, k).status = F.status
           /\ Taken(F, a, v, k).revisions = F.revisions /\ Taken(F, a, v, k).status = F.status
<1>1. PICK g : g = [F EXCEPT !.attitude[a] = v]
  OBVIOUS
<1>2. PICK h : h = [g EXCEPT !.joined = @ \cup {a}]
  OBVIOUS
<1>3. Put(F, a, v, k) = [g EXCEPT !.late[a] = k]
  BY <1>1 DEF Put
<1>4. Taken(F, a, v, k) = [h EXCEPT !.late[a] = k]
  BY <1>1, <1>2 DEF Taken, FormTypes
<1>5. g.revisions = F.revisions /\ g.status = F.status
  BY <1>1 DEF FormTypes
<1>6. h.revisions = g.revisions /\ h.status = g.status
  BY <1>1, <1>2 DEF FormTypes
<1>7. Put(F, a, v, k).revisions = g.revisions /\ Put(F, a, v, k).status = g.status
  BY <1>1, <1>3 DEF FormTypes
<1>8. Taken(F, a, v, k).revisions = h.revisions /\ Taken(F, a, v, k).status = h.status
  BY <1>1, <1>2, <1>4 DEF FormTypes
<1> QED
  BY <1>5, <1>6, <1>7, <1>8

LEMMA JoinWorks ==
    ASSUME Formed, Tidy, NEW q \in Requests, NEW a, forms[q].status = "created",
           NEW before, NEW undone, Join(q, a, before, undone)
    PROVE  Works(Nothing)
<1>1. PICK G : G = Taken(forms[q], a, "accepted", "approved")
  OBVIOUS
<1>2. forms' = [forms EXCEPT ![q] = G]
  <2>1. forms' = TakenAt(forms, q, a, "accepted", "approved")
    BY DEF Join, TakenAt
  <2>2. forms \in [Requests -> FormTypes]
    BY DEF Formed
  <2> QED
    BY <1>1, <2>1, <2>2, AtMember
<1>3. G.revisions = forms[q].revisions /\ G.status = forms[q].status
  BY <1>1, TakenRevisions DEF Formed
<1>4. UNCHANGED <<drafts, teams, waiting>>
  BY DEF Join
<1>5. ~Open(forms[q])
  BY DEF Open
<1> QED
  BY <1>2, <1>3, <1>4, <1>5, AnswerWorks

LEMMA RespondLateWorks ==
    ASSUME Formed, Tidy, NEW q \in Requests, NEW a \in Agents, NEW n, NEW answer, RespondLate(q, a, n, answer)
    PROVE  Works(Nothing)
<1>1. forms[q].status = "created" /\ ~Open(forms[q])
  BY DEF RespondLate, Open
<1>2. CASE answer = "accepted" /\ Proposal(forms[q]).late = "open"
  <2>1. PICK before, S : before = forms[q] /\ S = {Initiator[q], a}
    OBVIOUS
  <2>2. Join(q, a, before, S)
    BY <1>2, <2>1 DEF RespondLate
  <2> QED
    BY <1>1, <2>2, JoinWorks
<1>3. CASE ~(answer = "accepted" /\ Proposal(forms[q]).late = "open")
  <2>1. PICK k : k = IF answer = "accepted" THEN "pending" ELSE "no"
    OBVIOUS
  <2>2. PICK G : G = Put(forms[q], a, answer, k)
    OBVIOUS
  <2>3. forms' = [forms EXCEPT ![q] = G]
    <3>1. forms' = PutAt(forms, q, a, answer, k)
      BY <1>3, <2>1 DEF RespondLate, PutAt
    <3>2. forms \in [Requests -> FormTypes]
      BY DEF Formed
    <3> QED
      BY <2>2, <3>1, <3>2, AtInvitation
  <2>4. UNCHANGED <<drafts, teams, waiting>>
    BY <1>3 DEF RespondLate
  <2>5. G.revisions = forms[q].revisions /\ G.status = forms[q].status
    BY <2>2, TakenRevisions DEF Formed
  <2> QED
    BY <1>1, <2>3, <2>4, <2>5, AnswerWorks
<1> QED
  BY <1>2, <1>3

LEMMA DecideLateWorks ==
    ASSUME Formed, Tidy, NEW q \in Requests, NEW a \in Agents, NEW approved, DecideLate(q, a, approved)
    PROVE  Works(Nothing)
<1>1. forms[q].status = "created" /\ ~Open(forms[q])
  BY DEF DecideLate, Open
<1>2. CASE approved
  <2>1. PICK before, S : before = forms[q] /\ S = {a}
    OBVIOUS
  <2>2. Join(q, a, before, S)
    BY <1>2, <2>1 DEF DecideLate
  <2> QED
    BY <1>1, <2>2, JoinWorks
<1>3. CASE ~approved
  <2>1. PICK G : G = [forms[q] EXCEPT !.late[a] = "denied"]
    OBVIOUS
  <2>2. forms' = [forms EXCEPT ![q] = G] /\ UNCHANGED <<drafts, teams, waiting>>
    BY <1>3, <2>1 DEF DecideLate
  <2>3. G.revisions = forms[q].revisions /\ G.status = forms[q].status
    <3>1. PICK F \in FormTypes : F = forms[q]
      BY DEF Formed
    <3> QED
      BY <2>1, <3>1 DEF FormTypes
  <2> QED
    BY <1>1, <2>2, <2>3, AnswerWorks
<1> QED
  BY <1>2, <1>3

\* A draft that is not published says what it said, if it is what it should be.
LEMMA UnpublishedSound ==
    ASSUME UNCHANGED forms, NEW d, Sound(d, drafts[d]), drafts[d].status # "PUBLISHED",
           NEW y, y.status # "PUBLISHED", Based(d, y), y.status \in Early => y.candidate = Nothing,
           y.status = "READY" => BaseCurrent(y)
    PROVE  Sound(d, y)'
<1>1. \A q \in Requests, n \in Nat : ~Sourced(d, q, n)
  BY DEF Sound, Origin, Matches
<1>2. \A q \in Requests, n \in Nat : ~Sourced(d, q, n)'
  BY <1>1 DEF Sourced, Known
<1>3. Origin(d, y)'
  BY <1>2 DEF Origin
<1>4. Based(d, y)'
  BY DEF Based, Known
<1>5. Borne(d, y)'
  BY DEF Borne
<1>6. (y.status = "READY" => BaseCurrent(y))'
  BY DEF BaseCurrent
<1> QED
  BY <1>3, <1>4, <1>5, <1>6 DEF Sound

\* One draft changes.
LEMMA DraftWorks ==
    ASSUME Formed, Tidy, UNCHANGED <<forms, teams, waiting>>, NEW d \in Drafts, DraftFree(d),
           drafts[d].status # "PUBLISHED", NEW y, drafts' = [drafts EXCEPT ![d] = y], y.status # "PUBLISHED",
           Based(d, y), y.status \in Early => y.candidate = Nothing, y.status = "READY" => BaseCurrent(y)
    PROVE  Works(d)
<1>1. drafts'[d] = y /\ \A e \in Drafts \ {d} : drafts'[e] = drafts[e]
  BY DEF Formed
<1>2. \A e \in Drafts \ {d} : Spared(e) /\ Timely(e)
  BY <1>1, TimelyStill DEF Tidy
<1>3. Sound(d, y)'
  BY UnpublishedSound DEF Tidy
<1>4. Sound(d, drafts[d])'
  BY <1>1, <1>3
<1>5. Queued(d)
  BY QueuedStill DEF DraftFree
<1> QED
  BY <1>2, <1>4, <1>5, BringsNothing, HousedSame DEF Works

LEMMA NewDraftWorks ==
    ASSUME Formed, Tidy, \A q \in Requests : forms[q].status # "none" => Revision(forms[q]) > 0,
           NEW d \in Drafts, NEW q \in Requests \cup {Initial}, NewDraft(d, q)
    PROVE  Works(d)
<1>1. PICK b : b = IF q = Initial THEN 0 ELSE Revision(forms[q])
  OBVIOUS
<1>2. PICK y : y = [NoDraft EXCEPT !.status = "PENDING", !.request = q, !.base = b]
  OBVIOUS
<1>3. /\ UNCHANGED <<forms, teams, waiting>> /\ drafts[d].status = "none" /\ drafts' = [drafts EXCEPT ![d] = y]
      /\ q # Initial => Open(forms[q]) /\ Initiator[d] = Initiator[q] /\ Scope[d] = Scope[q]
  BY <1>1, <1>2 DEF NewDraft
<1>4. y = [status |-> "PENDING", request |-> q, base |-> b, candidate |-> Nothing]
  BY <1>2 DEF NoDraft
<1>5. Based(d, y)
  <2> SUFFICES ASSUME q \in Requests PROVE Known(q, b) /\ Initiator[d] = Initiator[q] /\ Scope[d] = Scope[q]
    BY <1>4 DEF Based
  <2>1. q # Initial /\ b = Revision(forms[q]) /\ forms[q].status # "none"
    BY <1>1, <1>3, FormationAssumption DEF Open
  <2>2. b \in Nat /\ b > 0
    BY <2>1, RevisionType DEF Formed
  <2> QED
    BY <1>3, <2>1, <2>2 DEF Known
<1>6. y.status = "PENDING" /\ y.candidate = Nothing
  BY <1>4
<1>7. \A w \in waiting : w.draft # d
  BY <1>3 DEF Tidy
<1>8. drafts'[d] = y /\ \A e \in Drafts \ {d} : drafts'[e] = drafts[e]
  BY <1>3 DEF Formed
<1>9. \A e \in Drafts \ {d} : Spared(e) /\ Timely(e)
  BY <1>3, <1>8, TimelyStill DEF Tidy
<1>10. Sound(d, y)'
  BY <1>3, <1>5, <1>6, UnpublishedSound DEF Tidy
<1>11. Sound(d, drafts[d])'
  BY <1>8, <1>10
<1>12. Queued(d)
  BY <1>3, <1>7, QueuedStill
<1> QED
  BY <1>3, <1>9, <1>11, <1>12, BringsNothing, HousedSame DEF Works

\* Another status of a draft.
LEMMA RelabelWorks ==
    ASSUME Formed, Tidy, UNCHANGED <<forms, teams, waiting>>, NEW d \in Drafts, DraftFree(d),
           NEW k \in {"PENDING", "RUNNING", "STALE", "FAILED"}, drafts[d].status \in Early,
           drafts' = [drafts EXCEPT ![d] = [drafts[d] EXCEPT !.status = k]]
    PROVE  Works(d)
<1>1. PICK x \in DraftTypes : x = drafts[d]
  BY DEF Formed, Drafty
<1>2. PICK y : y = [x EXCEPT !.status = k]
  OBVIOUS
<1>3. y.status = k /\ y.request = x.request /\ y.base = x.base /\ y.candidate = x.candidate
  BY <1>2, RelabelFields
<1>4. Based(d, x) /\ x.candidate = Nothing /\ x.status # "none" /\ x.status # "PUBLISHED"
  BY <1>1 DEF Tidy, Sound, Early
<1>5. Based(d, y)
  BY <1>3, <1>4 DEF Based
<1>6. y.status # "PUBLISHED" /\ y.status # "READY" /\ y.candidate = Nothing
  BY <1>3, <1>4
<1>7. drafts' = [drafts EXCEPT ![d] = y] /\ drafts[d].status # "PUBLISHED"
  BY <1>1, <1>2, <1>4
<1> QED
  BY <1>5, <1>6, <1>7, DraftWorks

LEMMA RetryDraftWorks ==
    ASSUME Formed, Tidy, NEW d \in Drafts, RetryDraft(d)
    PROVE  Works(d)
<1>1. PICK k \in {"PENDING", "RUNNING", "STALE", "FAILED"} : k = "PENDING"
  OBVIOUS
<1>2. /\ DraftFree(d) /\ drafts[d].status \in Early /\ UNCHANGED <<forms, teams, waiting>>
      /\ drafts' = [drafts EXCEPT ![d] = [drafts[d] EXCEPT !.status = k]]
  BY <1>1 DEF RetryDraft, SetDraft, Early
<1> QED
  BY <1>2, RelabelWorks

LEMMA RunDraftWorks ==
    ASSUME Formed, Tidy, NEW d \in Drafts, RunDraft(d)
    PROVE  Works(d) \/ Works(Nothing)
<1>1. CASE drafts[d].status = "PENDING"
  <2>1. PICK k \in {"PENDING", "RUNNING", "STALE", "FAILED"} : k = "RUNNING"
    OBVIOUS
  <2>2. /\ DraftFree(d) /\ drafts[d].status \in Early /\ UNCHANGED <<forms, teams, waiting>>
        /\ drafts' = [drafts EXCEPT ![d] = [drafts[d] EXCEPT !.status = k]]
    BY <1>1, <2>1 DEF RunDraft, SetDraft, Early
  <2> QED
    BY <2>2, RelabelWorks
<1>2. CASE drafts[d].status # "PENDING"
  BY <1>2, IdleWorks DEF RunDraft
<1> QED
  BY <1>1, <1>2

LEMMA ConcludeWorks ==
    ASSUME Formed, Tidy, NEW d \in Drafts, NEW y, Conclude(d, y), drafts[d].status # "RUNNING" \/ Works(d)
    PROVE  Works(d) \/ Works(Nothing)
<1>1. CASE drafts[d].status # "RUNNING"
  BY <1>1, IdleWorks DEF Conclude
<1> QED
  BY <1>1

LEMMA BaseGoneWorks ==
    ASSUME Formed, Tidy, NEW d \in Drafts, BaseGone(d)
    PROVE  Works(d) \/ Works(Nothing)
<1>1. PICK k \in {"PENDING", "RUNNING", "STALE", "FAILED"} : k = "STALE"
  OBVIOUS
<1>2. PICK y : y = [drafts[d] EXCEPT !.status = k]
  OBVIOUS
<1>3. Conclude(d, y)
  BY <1>1, <1>2 DEF BaseGone
<1>4. CASE drafts[d].status = "RUNNING"
  <2>1. /\ DraftFree(d) /\ drafts[d].status \in Early /\ UNCHANGED <<forms, teams, waiting>>
        /\ drafts' = [drafts EXCEPT ![d] = [drafts[d] EXCEPT !.status = k]]
    BY <1>2, <1>3, <1>4 DEF Conclude, Early
  <2> QED
    BY <2>1, RelabelWorks
<1> QED
  BY <1>3, <1>4, ConcludeWorks

LEMMA GiveUpWorks ==
    ASSUME Formed, Tidy, NEW v, GiveUp(v)
    PROVE  \E d \in Drafts : Works(d) \/ Works(Nothing)
<1>1. PICK d \in Drafts : d = v.draft
  BY DEF GiveUp, Formed
<1>2. PICK k \in {"PENDING", "RUNNING", "STALE", "FAILED"} : k = "FAILED"
  OBVIOUS
<1>3. PICK y : y = [drafts[d] EXCEPT !.status = k]
  OBVIOUS
<1>4. Conclude(d, y)
  BY <1>1, <1>2, <1>3 DEF GiveUp
<1>5. CASE drafts[d].status = "RUNNING"
  <2>1. /\ DraftFree(d) /\ drafts[d].status \in Early /\ UNCHANGED <<forms, teams, waiting>>
        /\ drafts' = [drafts EXCEPT ![d] = [drafts[d] EXCEPT !.status = k]]
    BY <1>3, <1>4, <1>5 DEF Conclude, Early
  <2> QED
    BY <2>1, RelabelWorks
<1> QED
  BY <1>4, <1>5, ConcludeWorks

LEMMA DeliverWorks ==
    ASSUME Formed, Tidy, NEW v, NEW c \in Contents, Deliver(v, c)
    PROVE  \E d \in Drafts : Works(d) \/ Works(Nothing)
<1>1. PICK d \in Drafts : d = v.draft
  BY DEF Deliver, Formed
<1>2. PICK k \in {"READY", "STALE"} : k = IF BaseCurrent(drafts[d]) THEN "READY" ELSE "STALE"
  OBVIOUS
<1>3. PICK x \in DraftTypes : x = drafts[d]
  BY DEF Formed, Drafty
<1>4. PICK y : y = [x EXCEPT !.status = k, !.candidate = c]
  OBVIOUS
<1>5. Conclude(d, y)
  BY <1>1, <1>2, <1>3, <1>4 DEF Deliver
<1>6. y.status = k /\ y.request = x.request /\ y.base = x.base
  BY <1>4 DEF DraftTypes
<1>7. CASE drafts[d].status = "RUNNING"
  <2>1. Based(d, x) /\ x.status # "none" /\ x.status # "PUBLISHED"
    BY <1>3, <1>7 DEF Tidy, Sound
  <2>2. Based(d, y)
    BY <1>6, <2>1 DEF Based
  <2>3. y.status = "READY" => BaseCurrent(y)
    BY <1>2, <1>3, <1>6 DEF BaseCurrent
  <2>4. y.status # "PUBLISHED" /\ y.status \notin Early
    BY <1>6 DEF Early
  <2>5. DraftFree(d) /\ UNCHANGED <<forms, teams, waiting>> /\ drafts' = [drafts EXCEPT ![d] = y]
    BY <1>5, <1>7 DEF Conclude
  <2> QED
    BY <1>7, <2>2, <2>3, <2>4, <2>5, DraftWorks
<1> QED
  BY <1>5, <1>7, ConcludeWorks

\* No revision comes from a draft that is not published.
LEMMA Unsourced ==
    ASSUME NEW d, Sound(d, drafts[d]), drafts[d].status # "PUBLISHED"
    PROVE  \A q \in Requests, n \in Nat : ~Sourced(d, q, n)
BY DEF Sound, Origin, Matches

\* A draft is published whose candidate its request has already.
LEMMA RepublishedSound ==
    ASSUME UNCHANGED forms, NEW d, NEW x \in DraftTypes, x = drafts[d], Sound(d, x),
           x.status \in {"READY", "STALE"}, x.candidate \in Contents,
           x.request \in Requests, x.candidate = ContentAt(x.request, x.base),
           NEW y, y = [x EXCEPT !.status = "PUBLISHED"]
    PROVE  Sound(d, y)'
<1>1. y.status = "PUBLISHED" /\ y.request = x.request /\ y.base = x.base /\ y.candidate = x.candidate
  BY RelabelFields
<1>2. \A q \in Requests, n \in Nat : ~Sourced(d, q, n)
  BY Unsourced
<1>3. \A q \in Requests, n \in Nat : ~Sourced(d, q, n)'
  BY <1>2 DEF Sourced, Known
<1>4. Origin(d, y)'
  BY <1>3 DEF Origin
<1>5. Based(d, x)
  BY DEF Sound
<1>6. Based(d, y)'
  BY <1>1, <1>5 DEF Based, Known
<1>7. Borne(d, y)'
  BY <1>1 DEF Borne, ContentAt
<1>8. y.status \notin Early /\ y.status # "READY"
  BY <1>1 DEF Early
<1> QED
  BY <1>4, <1>6, <1>7, <1>8 DEF Sound

\* A draft is published as a new revision.
LEMMA PublishedSound ==
    ASSUME Growing, NEW d \in Drafts, NEW x \in DraftTypes, x = drafts[d], Sound(d, x),
           x.status \in {"READY", "STALE"}, x.candidate \in Contents,
           NEW q \in Requests, NEW k, Gains(q, k, x.candidate, d),
           Initiator[q] = Initiator[d], Scope[q] = Scope[d],
           IF x.request = Initial THEN k = 1 ELSE q = x.request /\ k = x.base + 1,
           NEW y, y = [x EXCEPT !.status = "PUBLISHED"]
    PROVE  Sound(d, y)'
<1>1. y.status = "PUBLISHED" /\ y.request = x.request /\ y.base = x.base /\ y.candidate = x.candidate /\ x.base \in Nat
  BY RelabelFields DEF DraftTypes
<1>0. /\ k \in Nat /\ Known(q, k)' /\ forms'[q].revisions[k] = [content |-> x.candidate, source |-> d]
      /\ \A r \in Requests, n \in Nat : Known(r, n)' => Known(r, n) \/ (r = q /\ n = k)
  BY DEF Gains
<1>2. \A r \in Requests, n \in Nat : ~Sourced(d, r, n)
  BY Unsourced
<1>3. ASSUME NEW r \in Requests, NEW n \in Nat, Sourced(d, r, n)' PROVE r = q /\ n = k
  <2>1. Known(r, n)' /\ forms'[r].revisions[n].source = d
    BY <1>3 DEF Sourced
  <2>2. CASE Known(r, n)
    <3>1. forms'[r].revisions[n] = forms[r].revisions[n]
      BY <2>2 DEF Growing
    <3> QED
      BY <1>2, <2>1, <2>2, <3>1 DEF Sourced
  <2> QED
    BY <1>0, <2>1, <2>2
<1>4. Sourced(d, q, k)'
  BY <1>0 DEF Sourced
<1>5. Matches(d, y, q, k)'
  BY <1>0, <1>1 DEF Matches, ContentAt
<1>6. Origin(d, y)'
  BY <1>3, <1>5 DEF Origin
<1>7. Borne(d, y)'
  BY <1>0, <1>1, <1>4 DEF Borne
<1>8. Based(d, x) /\ x.status # "none"
  BY DEF Sound
<1>9. Based(d, y)'
  BY <1>1, <1>8 DEF Based, Growing
<1>10. y.status \notin Early /\ y.status # "READY"
  BY <1>1 DEF Early
<1> QED
  BY <1>6, <1>7, <1>9, <1>10 DEF Sound

\* What a publication makes of the drafts f: its own has the status k.
LEMMA RegisteredDrafts ==
    ASSUME NEW f, DOMAIN f = Drafts, NEW w, w.own = {}, w.draft \in Drafts, NEW k,
           NEW g, g = Override(f, Registered(w, k))
    PROVE  /\ g[w.draft] = [drafts[w.draft] EXCEPT !.status = k]
           /\ \A e \in Drafts \ {w.draft} : g[e] = f[e]
<1>1. PICK r : r = Registered(w, k)
  OBVIOUS
<1>2. r = [e \in {w.draft} |-> [drafts[e] EXCEPT !.status = k]]
  BY <1>1 DEF Registered
<1>3. DOMAIN r = {w.draft} /\ r[w.draft] = [drafts[w.draft] EXCEPT !.status = k]
  BY <1>2
<1>4. g = [e \in Drafts |-> IF e \in {w.draft} THEN r[e] ELSE f[e]]
  BY <1>1, <1>3 DEF Override
<1> QED
  BY <1>3, <1>4

LEMMA MarkWorks ==
    ASSUME Formed, Tidy, UNCHANGED teams, NEW w, w.own = {}, w.draft \in Drafts,
           waiting' \subseteq waiting, \A v \in waiting' : v.draft # w.draft,
           NEW x \in DraftTypes, x = drafts[w.draft], x.status \in {"READY", "STALE"}, x.candidate \in Contents,
           NEW k \in {"STALE", "PUBLISHED"}, Mark(w, k),
           k = "PUBLISHED" => x.request \in Requests /\ x.candidate = ContentAt(x.request, x.base)
    PROVE  Works(w.draft)
<1>1. PICK d \in Drafts : d = w.draft
  OBVIOUS
<1>2. PICK y : y = [x EXCEPT !.status = k]
  OBVIOUS
<1>3. UNCHANGED forms /\ drafts' = Override(drafts, Registered(w, k))
  BY DEF Mark
<1>4. DOMAIN drafts = Drafts
  BY DEF Formed
<1>5. drafts'[d] = y /\ \A e \in Drafts \ {d} : drafts'[e] = drafts[e]
  BY <1>1, <1>2, <1>3, <1>4, RegisteredDrafts
<1>6. Sound(d, x)
  BY <1>1 DEF Tidy
<1>7. y.status = k /\ y.request = x.request /\ y.base = x.base /\ y.candidate = x.candidate
  BY <1>2, RelabelFields
<1>8. CASE k = "STALE"
  <2>1. Based(d, x) /\ x.status # "none"
    BY <1>6 DEF Sound
  <2>2. Based(d, y)
    BY <1>7, <2>1 DEF Based
  <2>3. Sound(d, y)'
    BY <1>1, <1>3, <1>6, <1>7, <1>8, <2>2, UnpublishedSound DEF Early
  <2> QED
    BY <1>1, <1>3, <1>5, <2>3, QueuedStill, BringsNothing, HousedSame, TimelyStill DEF Works, Tidy
<1>9. CASE k = "PUBLISHED"
  <2>1. Sound(d, y)'
    BY <1>1, <1>2, <1>3, <1>6, <1>9, RepublishedSound
  <2> QED
    BY <1>1, <1>3, <1>5, <2>1, QueuedStill, BringsNothing, HousedSame, TimelyStill DEF Works, Tidy
<1> QED
  BY <1>8, <1>9

LEMMA PublishHeldWorks ==
    ASSUME Formed, Tidy, Growing, \A q \in Requests : forms[q].status # "none" => Revision(forms[q]) > 0,
           NEW w, IsWait(w), w.own = {}, drafts[w.draft].status \in {"READY", "STALE"},
           waiting' \subseteq waiting, \A v \in waiting' : v.draft # w.draft, PublishHeld(w)
    PROVE  \E d : Works(d)
<1>1. PICK x \in Publishable : x = drafts[w.draft]
  BY DEF IsWait
<1>2. /\ x \in DraftTypes /\ x.status \in {"READY", "STALE"} /\ x.request \in Requests /\ x.candidate \in Contents
      /\ x = Held(w)
  BY <1>1 DEF Publishable, Drafty, Held
<1>3. PICK q \in Requests : q = x.request
  BY <1>2
<1>4. PICK c \in Contents : c = x.candidate
  BY <1>2
<1>5. PICK d \in Drafts : d = w.draft
  BY DEF IsWait
<1>6. UNCHANGED teams
  BY DEF PublishHeld
<1>7. ASSUME BaseCurrent(x) PROVE Open(forms[q]) /\ x.base = Revision(forms[q]) /\ forms[q].status # "none"
  BY <1>3, <1>7 DEF BaseCurrent, Open
<1>8. CASE Mark(w, "STALE")
  <2>1. PICK k \in {"STALE", "PUBLISHED"} : k = "STALE"
    OBVIOUS
  <2>2. Mark(w, k)
    BY <1>8, <2>1
  <2>3. Works(w.draft)
    BY <1>1, <1>2, <1>5, <1>6, <2>1, <2>2, MarkWorks
  <2> QED
    BY <2>3
<1>9. CASE BaseCurrent(x) /\ Last(forms[q].revisions).content = x.candidate /\ Mark(w, "PUBLISHED")
  <2>1. PICK k \in {"STALE", "PUBLISHED"} : k = "PUBLISHED"
    OBVIOUS
  <2>2. Mark(w, k)
    BY <1>9, <2>1
  <2>3. forms[q] \in FormTypes /\ Revision(forms[q]) > 0
    BY <1>7, <1>9 DEF Formed
  <2>4. Last(forms[q].revisions) = forms[q].revisions[Revision(forms[q])]
    BY <2>3, LastRevision
  <2>5. x.candidate = ContentAt(x.request, x.base)
    BY <1>3, <1>7, <1>9, <2>4 DEF ContentAt
  <2>6. Works(w.draft)
    BY <1>1, <1>2, <1>5, <1>6, <2>2, <2>5, MarkWorks
  <2> QED
    BY <2>6
<1>10. CASE UNCHANGED <<forms, drafts, mail, flight>>
  BY <1>6, <1>10, IdleWorks
<1>11. CASE /\ BaseCurrent(x) /\ Revisable(q, c)
            /\ Revise(q, c, w.draft, Registered(w, "PUBLISHED"), [e \in {w.draft} |-> x], {w.draft})
  <2>1. PICK s \in Drafts \cup {Nothing} : s = d
    OBVIOUS
  <2>2. PICK f \in FormTypes : f = forms[q]
    BY DEF Formed
  <2>3. PICK G : G = Revised(f, c, s)
    OBVIOUS
  <2>4. PICK except : except = {d}
    OBVIOUS
  <2>5. /\ forms' = [forms EXCEPT ![q] = G]
        /\ drafts' = Override(Staled(Stale(q, except)), Registered(w, "PUBLISHED"))
    BY <1>5, <1>11, <2>1, <2>2, <2>3, <2>4 DEF Revise
  <2>6. PICK t : t = Staled(Stale(q, except))
    OBVIOUS
  <2>7. DOMAIN t = Drafts
    BY <2>6 DEF Staled
  <2>8. PICK y : y = [x EXCEPT !.status = "PUBLISHED"]
    OBVIOUS
  <2>9. drafts'[d] = y /\ \A e \in Drafts \ {d} : drafts'[e] = t[e]
    BY <1>1, <1>5, <2>5, <2>6, <2>7, <2>8, RegisteredDrafts
  <2>10. \A e \in Drafts \ {d} : Spared(e) /\ Timely(e)
    BY <2>4, <2>5, <2>6, <2>9, StaleSpares DEF Tidy
  <2>11. PICK k : k = Len(f.revisions) + 1
    OBVIOUS
  <2>12. forms[q].status # "none" /\ (f = forms[q] \/ (forms[q].status = "none" /\ f = Unused))
    BY <1>7, <1>11, <2>2
  <2>13. Gains(q, k, c, s) /\ Brings(s)
    BY <2>2, <2>3, <2>5, <2>11, <2>12, BringsRevision
  <2>14. Sound(d, x) /\ Initiator[q] = Initiator[d] /\ Scope[q] = Scope[d]
    <3>1. Sound(d, x)
      BY <1>1, <1>5 DEF Tidy
    <3>2. x.status # "none"
      BY <1>2
    <3> QED
      BY <1>3, <3>1, <3>2 DEF Sound, Based
  <2>15. x.request # Initial /\ q = x.request /\ k = x.base + 1
    BY <1>3, <1>7, <1>11, <2>2, <2>11, FormationAssumption DEF Revision
  <2>16. Sound(d, y)'
    BY <1>1, <1>2, <1>4, <1>5, <2>1, <2>8, <2>13, <2>14, <2>15, PublishedSound
  <2>17. Sound(d, drafts[d])'
    BY <2>9, <2>16
  <2>18. Queued(d)
    BY <1>5, QueuedStill
  <2>19. G.status # "created"
    BY <2>3, Appended
  <2>20. Housed
    BY <1>6, <2>5, <2>19, HousedAt
  <2>21. Works(d)
    BY <2>1, <2>10, <2>13, <2>17, <2>18, <2>20 DEF Works
  <2> QED
    BY <2>21
<1>12. /\ q = Held(w).request /\ c = Held(w).candidate /\ [e \in {w.draft} |-> x] = [e \in {w.draft} |-> Held(w)]
  BY <1>2, <1>3, <1>4
<1>13. \/ Mark(w, "STALE")
       \/ BaseCurrent(x) /\ Last(forms[q].revisions).content = c /\ Mark(w, "PUBLISHED")
       \/ /\ BaseCurrent(x)
          /\ \/ /\ Revisable(q, c)
                /\ Revise(q, c, w.draft, Registered(w, "PUBLISHED"), [e \in {w.draft} |-> x], {w.draft})
             \/ UNCHANGED <<forms, drafts, mail, flight>>
  <2> HIDE DEF Mark, Revise, Revisable, BaseCurrent
  <2> QED
    BY <1>2, <1>12, Zenon DEF PublishHeld
<1> QED
  BY <1>4, <1>8, <1>9, <1>10, <1>11, <1>13

LEMMA PublishWaitingWorks ==
    ASSUME Formed, Tidy, Growing, \A q \in Requests : forms[q].status # "none" => Revision(forms[q]) > 0,
           NEW w, PublishWaiting(w)
    PROVE  \E d : Works(d)
<1>1. w \in waiting /\ PublishHeld(w) /\ waiting' = waiting \ {w}
  BY DEF PublishWaiting
<1>2. \A v \in waiting : IsWait(v) /\ v.own = {} /\ drafts[v.draft].status \in {"READY", "STALE"}
  BY DEF Formed, Tidy
<1>3. ASSUME NEW v \in waiting' PROVE v.draft # w.draft
  <2>1. v = [draft |-> v.draft, own |-> {}] /\ w = [draft |-> w.draft, own |-> {}] /\ v # w
    BY <1>1, <1>2 DEF IsWait
  <2> QED
    BY <2>1
<1> QED
  BY <1>1, <1>2, <1>3, PublishHeldWorks

LEMMA PublishRevisionWorks ==
    ASSUME Formed, Tidy, Growing, \A q \in Requests : forms[q].status # "none" => Revision(forms[q]) > 0,
           NEW d \in Drafts, PublishRevision(d)
    PROVE  \E e : Works(e)
<1>1. PICK w : w = [draft |-> d, own |-> {}]
  OBVIOUS
<1>2. DraftFree(d) /\ drafts[d].status = "READY" /\ drafts[d].request # Initial
  BY DEF PublishRevision
<1>3. drafts[d] \in Drafty
  BY DEF Formed
<1>4. drafts[d] \in Publishable
  BY <1>2, <1>3 DEF Publishable, Drafty, DraftTypes
<1>5. IsWait(w) /\ w.own = {} /\ w.draft = d
  BY <1>1, <1>4 DEF IsWait
<1>6. CASE PublishHeld(w) /\ UNCHANGED waiting
  <2>1. \A v \in waiting' : v.draft # w.draft
    BY <1>2, <1>5, <1>6 DEF DraftFree
  <2> QED
    BY <1>2, <1>5, <1>6, <2>1, PublishHeldWorks
<1>7. CASE waiting' = waiting \cup {w} /\ UNCHANGED <<forms, drafts, teams>>
  <2>1. Nothing \notin Drafts
    BY FormationAssumption
  <2>2. Queued(Nothing)
    BY <1>2, <1>5, <1>7, <2>1 DEF Queued, Tidy, Formed, IsWait
  <2>3. \A e \in Drafts : Spared(e) /\ Timely(e)
    BY <1>7, TimelyStill DEF Tidy
  <2>4. Works(Nothing)
    BY <1>7, <2>1, <2>2, <2>3, BringsNothing, HousedSame DEF Works
  <2> QED
    BY <2>4
<1> QED
  BY <1>1, <1>6, <1>7 DEF PublishRevision

LEMMA PublishInitialWorks ==
    ASSUME Formed, Tidy, Growing, NEW d \in Drafts, NEW q \in Requests, PublishInitial(d, q)
    PROVE  Works(d)
<1>1. PICK x \in Drafty : x = drafts[d]
  BY DEF Formed
<1>2. /\ DraftFree(d) /\ x.status = "READY" /\ x.request = Initial /\ forms[q].status = "none"
      /\ Initiator[q] = Initiator[d] /\ Scope[q] = Scope[d] /\ UNCHANGED <<teams, waiting>>
  BY <1>1 DEF PublishInitial
<1>3. PICK c \in Contents : c = x.candidate
  BY <1>2 DEF Drafty
<1>4. PICK f \in FormTypes : f = Unused
  <2>1. Unused \in FormTypes
    BY DEF Unused, FormTypes
  <2> QED
    BY <2>1
<1>5. PICK s \in Drafts \cup {Nothing} : s = d
  OBVIOUS
<1>6. PICK G : G = Revised(f, c, s)
  OBVIOUS
<1>7. PICK y : y = [x EXCEPT !.status = "PUBLISHED"]
  OBVIOUS
<1>8. forms' = [forms EXCEPT ![q] = G] /\ drafts' = [drafts EXCEPT ![d] = y]
  BY <1>1, <1>3, <1>4, <1>5, <1>6, <1>7 DEF PublishInitial
<1>9. PICK k : k = Len(f.revisions) + 1
  OBVIOUS
<1>10. Gains(q, k, c, s) /\ Brings(s)
  BY <1>2, <1>4, <1>6, <1>8, <1>9, BringsRevision
<1>11. k = 1
  BY <1>4, <1>9 DEF Unused
<1>12. drafts'[d] = y /\ \A e \in Drafts \ {d} : drafts'[e] = drafts[e]
  BY <1>8 DEF Formed
<1>13. \A e \in Drafts \ {d} : Spared(e) /\ Timely(e)
  BY <1>2, <1>8, <1>12, BegunSpares DEF Tidy
<1>14. Sound(d, x) /\ x \in DraftTypes
  BY <1>1 DEF Tidy, Drafty
<1>15. Sound(d, y)'
  BY <1>1, <1>2, <1>3, <1>5, <1>7, <1>10, <1>11, <1>14, PublishedSound
<1>16. Sound(d, drafts[d])'
  BY <1>12, <1>15
<1>17. Queued(d)
  BY <1>2, QueuedStill DEF DraftFree
<1>18. G.status # "created"
  BY <1>6, Appended
<1>19. Housed
  BY <1>2, <1>8, <1>18, HousedAt
<1> QED
  BY <1>5, <1>10, <1>13, <1>16, <1>17, <1>19 DEF Works

\* Every operation works on one draft at most.
LEMMA OperationWorks ==
    ASSUME Formed, Balloted, Tidy, Growing,
           \A q \in Requests : forms[q].status # "none" => Revision(forms[q]) > 0, Operation
    PROVE  \E d : Works(d)
<1>0. limit.contents \subseteq Contents
  BY DEF Formed
<1> DEFINE Goal == \E d : Works(d)
<1> HIDE DEF Goal
<1>1. ASSUME NEW d, Works(d) PROVE Goal
  BY <1>1 DEF Goal
<1>2. ASSUME NEW q \in Requests, Request(q) PROVE Goal
  <2>1. ASSUME NEW c \in limit.contents, Propose(q, c) \/ ReviseFormation(q, c) PROVE Goal
    <3>1. c \in Contents
      BY <1>0, <2>1
    <3> QED
      BY <1>1, <2>1, <3>1, ProposeWorks, ReviseFormationWorks
  <2>2. ASSUME NEW a \in Agents, NEW n, NEW answer \in Answers,
               Respond(q, a, n, answer) \/ RespondLate(q, a, n, answer) PROVE Goal
    BY <1>1, <2>2, RespondWorks, RespondLateWorks
  <2>3. ASSUME Create(q) \/ Abandon(q) PROVE Goal
    BY <1>1, <2>3, CreateWorks, AbandonWorks
  <2>4. ASSUME NEW a \in Agents, NEW approved, DecideLate(q, a, approved) PROVE Goal
    BY <1>1, <2>4, DecideLateWorks
  <2> QED
    BY <1>2, <2>1, <2>2, <2>3, <2>4, Zenon DEF Request, Answer
<1>3. ASSUME NEW q \in Requests, NEW n, AutoCreate(q, n) PROVE Goal
  BY <1>1, <1>3, AutoCreateWorks
<1>4. ASSUME NEW d \in Drafts, Draft(d) PROVE Goal
  <2>1. ASSUME NEW q \in Requests \cup {Initial}, NewDraft(d, q) PROVE Goal
    BY <1>1, <2>1, NewDraftWorks
  <2>2. ASSUME RetryDraft(d) PROVE Goal
    BY <1>1, <2>2, RetryDraftWorks
  <2>3. ASSUME PublishRevision(d) PROVE Goal
    BY <2>3, PublishRevisionWorks DEF Goal
  <2>4. ASSUME NEW q \in Requests, PublishInitial(d, q) PROVE Goal
    BY <1>1, <2>4, PublishInitialWorks
  <2> QED
    BY <1>4, <2>1, <2>2, <2>3, <2>4, Zenon DEF Draft
<1>5. ASSUME NEW d \in Drafts, DraftStep(d) PROVE Goal
  <2>1. ASSUME RunDraft(d) \/ BaseGone(d) PROVE Goal
    BY <1>1, <2>1, RunDraftWorks, BaseGoneWorks
  <2>2. ASSUME Deliberate(d) PROVE Goal
    BY <1>1, <2>2, IdleWorks DEF Deliberate
  <2>3. ASSUME NEW v, NEW c \in limit.contents, Deliver(v, c) PROVE Goal
    <3>1. c \in Contents
      BY <1>0, <2>3
    <3> QED
      BY <1>1, <2>3, <3>1, DeliverWorks
  <2>4. ASSUME NEW v, GiveUp(v) PROVE Goal
    BY <1>1, <2>4, GiveUpWorks
  <2>5. ASSUME NEW w, PublishWaiting(w) PROVE Goal
    BY <2>5, PublishWaitingWorks DEF Goal
  <2> QED
    BY <1>5, <2>1, <2>2, <2>3, <2>4, <2>5, Zenon DEF DraftStep
<1>6. ASSUME NEW a, NEW t, Leave(a, t) PROVE Goal
  BY <1>1, <1>6, IdleWorks DEF Leave
<1> QED
  BY <1>2, <1>3, <1>4, <1>5, <1>6, Zenon DEF Operation, Goal, AutoStep

LEMMA TidyByRestart ==
    ASSUME Formed, Tidy, NEW frozen \in {"PENDING", "CANCELLED"}, Restart(frozen)
    PROVE  Tidy'
<1>1. UNCHANGED <<forms, teams>> /\ waiting' = {} /\ drafts' = Interrupted(frozen)
  BY DEF Restart
<1>2. ASSUME NEW d \in Drafts PROVE Sound(d, drafts[d])'
  <2>1. PICK x \in DraftTypes : x = drafts[d]
    BY DEF Formed, Drafty
  <2>2. Sound(d, x)
    BY <2>1 DEF Tidy
  <2>3. CASE x.status = "RUNNING"
    <3>1. PICK y : y = [x EXCEPT !.status = frozen]
      OBVIOUS
    <3>2. drafts'[d] = y
      BY <1>1, <2>1, <2>3, <3>1 DEF Interrupted
    <3>3. y.status = frozen /\ y.request = x.request /\ y.base = x.base /\ y.candidate = x.candidate
      BY <3>1, RelabelFields
    <3>4. Based(d, x) /\ x.candidate = Nothing /\ x.status # "none"
      BY <2>2, <2>3 DEF Sound, Early
    <3>5. Based(d, y)
      BY <3>3, <3>4 DEF Based
    <3>6. y.status # "PUBLISHED" /\ y.status # "READY" /\ y.candidate = Nothing
      BY <3>3, <3>4
    <3>7. Sound(d, y)'
      BY <1>1, <2>1, <2>2, <2>3, <3>5, <3>6, UnpublishedSound
    <3> QED
      BY <3>2, <3>7
  <2>4. CASE x.status # "RUNNING"
    <3>1. drafts'[d] = drafts[d]
      BY <1>1, <2>1, <2>4 DEF Interrupted
    <3>2. Spared(d) /\ Timely(d)
      BY <1>1, <2>1, <2>2, <3>1, TimelyStill
    <3>3. Growing
      BY <1>1 DEF Growing, Known
    <3>4. Brings(Nothing) /\ d # Nothing
      BY <1>1, BringsNothing, FormationAssumption
    <3> QED
      BY <2>1, <2>2, <3>2, <3>3, <3>4, SparedSound
  <2> QED
    BY <2>3, <2>4
<1> QED
  BY <1>1, <1>2 DEF Tidy

LEMMA TidyStays ==
    ASSUME Tidy, UNCHANGED <<forms, drafts, teams, waiting>>
    PROVE  Tidy'
BY DEF Tidy, Sound, Based, Borne, Origin, Sourced, Matches, Known, ContentAt, BaseCurrent

LEMMA TidyStep ==
    ASSUME Counted, Formed, Balloted, Consenting, spent.faults = 0 => Tidy, [Next]_vars
    PROVE  (spent.faults = 0 => Tidy)'
<1> SUFFICES ASSUME spent'.faults = 0 PROVE Tidy'
  OBVIOUS
<1>0. spent.faults = 0
  <2>1. spent'.faults = spent.faults \/ spent'.faults = spent.faults + 1
    BY Counting DEF Counted, Adds
  <2> QED
    BY <2>1 DEF Counted
<1>1. Tidy /\ Consents
  BY <1>0 DEF Consenting, Orderly
<1>2. \A q \in Requests : forms[q].status # "none" => Revision(forms[q]) > 0
  BY <1>1 DEF Consents, Fit, Coherent, Recorded
<1>3. CASE UNCHANGED <<forms, drafts, teams, waiting>>
  BY <1>1, <1>3, TidyStays
<1>4. CASE Operation /\ UNCHANGED limit
  <2>1. Shifted
    BY <1>4, OperationAdvance DEF Advance
  <2>2. Growing
    BY <2>1, GrowingByShift
  <2>3. PICK d : Works(d)
    BY <1>1, <1>2, <1>4, <2>2, OperationWorks
  <2> QED
    BY <1>1, <2>2, <2>3, TidyByWorks
<1>5. ASSUME NEW frozen \in {"PENDING", "CANCELLED"}, Restart(frozen) PROVE Tidy'
  BY <1>1, <1>5, TidyByRestart
<1>6. ASSUME NEW f \in flight, Finish(f) \/ Cancel(f) PROVE Tidy'
  BY <1>3, <1>6 DEF Finish, Cancel
<1>7. ASSUME NEW f \in flight, Fail(f) PROVE FALSE
  <2>1. spent' = [spent EXCEPT !["faults"] = @ + 1]
    BY <1>7, FailSteps DEF Adds
  <2> QED
    BY <2>1 DEF Counted
<1>8. CASE FormationStep /\ UNCHANGED limit
  <2>1. Operation \/ \E f \in flight : Finish(f) \/ Cancel(f) \/ Fail(f)
    BY <1>8, Zenon DEF FormationStep, Operation
  <2> QED
    BY <1>4, <1>6, <1>7, <1>8, <2>1
<1>9. CASE UNCHANGED vars \/ TalkStep
  BY <1>3, <1>9 DEF vars, formVars, TalkStep, formOnly
<1> QED
  BY <1>5, <1>8, <1>9, Zenon DEF Next

LEMMA TidyInit == Init => Tidy
<1> SUFFICES ASSUME Init PROVE Tidy
  OBVIOUS
<1>1. /\ forms = [q \in Requests |-> Unused] /\ drafts = [d \in Drafts |-> NoDraft] /\ waiting = {}
  BY DEF Init
<1>2. \A q \in Requests : forms[q].status = "none"
  BY <1>1 DEF Unused
<1>3. \A d \in Drafts : drafts[d].status = "none"
  BY <1>1 DEF NoDraft
<1>4. \A q \in Requests, n \in Nat : ~Known(q, n)
  BY <1>2 DEF Known
<1>5. \A d \in Drafts : Sound(d, drafts[d])
  BY <1>3, <1>4 DEF Sound, Based, Borne, Origin, Sourced, Early
<1> QED
  BY <1>1, <1>2, <1>5 DEF Tidy

\* A formation that is coherent is valid.
LEMMA ValidFormation ==
    ASSUME NEW q \in Requests, NEW f \in FormTypes, f = forms[q], f.status # "none",
           decided[q] \in SUBSET Judged, Coherent(q, f, decided[q]), f.status = "created" => q \in teams
    PROVE  ValidHistory(q, f) /\ ValidStatus(q, f) /\ ValidInvitations(f) /\ ValidDecisions(q, f)
<1>1. Recorded(f, decided[q])
  BY DEF Coherent
<1>2. Invited(f) \subseteq Agents
  BY DEF Invited
<1>3. ValidHistory(q, f)
  <2>1. \A n \in 2..Revision(f) : f.revisions[n].content # f.revisions[n - 1].content
    BY DEF Coherent
  <2> QED
    BY <1>1, <2>1 DEF ValidHistory, Recorded, ContentAt
<1>4. ValidStatus(q, f)
  <2>1. Open(f) => (f.status = "ready" <=> Accepted(f) = Invited(f) /\ ~Proposal(f).auto)
    BY DEF Coherent
  <2>2. f.status # "created" => f.joined = {} /\ \A a \in Agents : f.late[a] = "no"
    BY DEF Coherent
  <2>3. f.status = "created" =>
          /\ f.joined \subseteq Accepted(f)
          /\ \A a \in Agents : f.late[a] = "pending" => Proposal(f).late = "confirm" /\ f.attitude[a] = "accepted"
    BY DEF Coherent
  <2> QED
    BY <1>2, <2>1, <2>2, <2>3 DEF ValidStatus
<1>5. ValidInvitations(f)
  <2>1. \A a \in Agents : (f.late[a] = "denied" => a \notin f.joined) /\ (f.late[a] = "approved" => a \in f.joined)
    BY DEF Coherent
  <2> QED
    BY <1>2, <2>1 DEF ValidInvitations
<1>6. ValidDecisions(q, f)
  <2>1. ASSUME NEW a \in Invited(f), NEW last,
               last = {x[3] : x \in {y \in decided[q] : y[1] = Revision(f) /\ y[2] = a}}
        PROVE  last = {f.attitude[a]} \/ (last = {} /\ f.attitude[a] = "silent")
    <3>1. \A v \in last : v = f.attitude[a]
      BY <1>1, <2>1 DEF Recorded
    <3>2. f.attitude[a] # "silent" => f.attitude[a] \in last
      <4>1. SUFFICES ASSUME f.attitude[a] # "silent" PROVE f.attitude[a] \in last
        OBVIOUS
      <4>2. <<Revision(f), a, f.attitude[a]>> \in decided[q]
        BY <1>1, <4>1 DEF Recorded
      <4>3. PICK t \in decided[q] : t = <<Revision(f), a, f.attitude[a]>>
        BY <4>2
      <4>4. t[1] = Revision(f) /\ t[2] = a /\ t[3] = f.attitude[a]
        BY <4>3
      <4> QED
        BY <2>1, <4>4
    <3> QED
      BY <3>1, <3>2
  <2>2. ASSUME NEW x \in decided[q]
        PROVE  Known(q, x[1]) /\ x[2] \in Content[ContentAt(q, x[1])].invitees
    BY <1>1 DEF Recorded, Known, ContentAt
  <2> QED
    BY <2>1, <2>2 DEF ValidDecisions
<1> QED
  BY <1>3, <1>4, <1>5, <1>6

\* A revision that comes from a draft is the only one.
LEMMA SourcesAre ==
    ASSUME Formed, NEW d \in Drafts, Sound(d, drafts[d])
    PROVE  /\ \A r \in Sources(d) : r = <<r[1], r[2]>> /\ r[1] \in Requests /\ r[2] \in Nat /\ Sourced(d, r[1], r[2])
           /\ \A q \in Requests, n \in Nat : Sourced(d, q, n) => <<q, n>> \in Sources(d)
           /\ Cardinality(Sources(d)) <= 1
<1>1. ASSUME NEW r \in Sources(d)
      PROVE  r = <<r[1], r[2]>> /\ r[1] \in Requests /\ r[2] \in Nat /\ Sourced(d, r[1], r[2])
  <2>1. PICK q \in Requests : r \in {q} \X (1..Revision(forms[q]))
    BY DEF Sources
  <2>2. Revision(forms[q]) \in Nat
    BY RevisionType DEF Formed
  <2>3. Known(r[1], r[2]) /\ forms[r[1]].revisions[r[2]].source = d
    BY DEF Sources
  <2> QED
    BY <2>1, <2>2, <2>3 DEF Sourced
<1>2. ASSUME NEW q \in Requests, NEW n \in Nat, Sourced(d, q, n) PROVE <<q, n>> \in Sources(d)
  <2>1. n \in 1..Revision(forms[q]) /\ Known(q, n) /\ forms[q].revisions[n].source = d
    BY <1>2 DEF Sourced, Known
  <2>2. PICK r : r = <<q, n>>
    OBVIOUS
  <2>3. r \in {q} \X (1..Revision(forms[q])) /\ r[1] = q /\ r[2] = n
    BY <2>1, <2>2
  <2> QED
    BY <2>1, <2>2, <2>3 DEF Sources
<1>3. ASSUME NEW r \in Sources(d), NEW s \in Sources(d) PROVE r = s
  <2>1. /\ r = <<r[1], r[2]>> /\ s = <<s[1], s[2]>> /\ Sourced(d, r[1], r[2]) /\ Sourced(d, s[1], s[2])
        /\ r[1] \in Requests /\ s[1] \in Requests /\ r[2] \in Nat /\ s[2] \in Nat
    BY <1>1
  <2>2. Origin(d, drafts[d])
    BY DEF Sound
  <2>3. r[1] = s[1] /\ Matches(d, drafts[d], r[1], r[2]) /\ Matches(d, drafts[d], s[1], s[2])
    BY <2>1, <2>2 DEF Origin
  <2>4. r[2] = s[2]
    BY <2>3 DEF Matches
  <2> QED
    BY <2>1, <2>3, <2>4
<1>4. Cardinality(Sources(d)) <= 1
  <2>1. CASE Sources(d) = {}
    <3>1. Cardinality({}) = 0
      BY FS_EmptySet
    <3> QED
      BY <2>1, <3>1
  <2>2. CASE Sources(d) # {}
    <3>1. PICK r : r \in Sources(d)
      BY <2>2
    <3>2. Sources(d) = {r}
      BY <1>3, <3>1
    <3>3. Cardinality({r}) = 1
      BY FS_Singleton
    <3> QED
      BY <3>2, <3>3
  <2> QED
    BY <2>1, <2>2
<1> QED
  BY <1>1, <1>2, <1>4

LEMMA ValidByTidy ==
    ASSUME Formed, Tidy, Consents
    PROVE  ValidState
<1>1. ASSUME NEW q \in Requests
      PROVE  IF forms[q].status = "none" THEN decided[q] = {}
             ELSE /\ ValidHistory(q, forms[q]) /\ ValidStatus(q, forms[q])
                  /\ ValidInvitations(forms[q]) /\ ValidDecisions(q, forms[q])
  <2>1. PICK f \in FormTypes : f = forms[q]
    BY DEF Formed
  <2>2. Coherent(q, f, decided[q])
    BY <2>1 DEF Consents, Fit
  <2>3. CASE f.status = "none"
    BY <2>1, <2>2, <2>3 DEF Coherent
  <2>4. CASE f.status # "none"
    <3>1. decided[q] \in SUBSET Judged /\ (f.status = "created" => q \in teams)
      BY <2>1 DEF Formed, Tidy
    <3>2. ValidHistory(q, f) /\ ValidStatus(q, f) /\ ValidInvitations(f) /\ ValidDecisions(q, f)
      BY <2>1, <2>2, <2>4, <3>1, ValidFormation
    <3> QED
      BY <2>1, <2>4, <3>2
  <2> QED
    BY <2>3, <2>4
<1>2. ASSUME NEW d \in Drafts, drafts[d].status # "none" PROVE ValidDraft(d, drafts[d])
  <2>1. PICK x \in Drafty : x = drafts[d]
    BY DEF Formed
  <2>2. x \in DraftTypes /\ (x.status = "READY" => x.candidate \in Contents)
    BY DEF Drafty
  <2>3. Sound(d, x)
    BY <2>1 DEF Tidy
  <2>4. /\ \A r \in Sources(d) : r = <<r[1], r[2]>> /\ r[1] \in Requests /\ r[2] \in Nat /\ Sourced(d, r[1], r[2])
        /\ \A q \in Requests, n \in Nat : Sourced(d, q, n) => <<q, n>> \in Sources(d)
        /\ Cardinality(Sources(d)) <= 1
    BY <2>1, <2>3, SourcesAre
  <2>5. x.request # Initial => Known(x.request, x.base)
    BY <1>2, <2>1, <2>2, <2>3 DEF Sound, Based, DraftTypes
  <2>6. Nothing \notin Contents
    BY FormationAssumption
  <2>7. x.status \in {"READY", "PUBLISHED"} => x.candidate # Nothing
    BY <2>2, <2>3, <2>6 DEF Sound, Borne
  <2>8. x.status \in {"PENDING", "RUNNING", "FAILED", "CANCELLED"} => x.candidate = Nothing
    BY <2>3 DEF Sound, Early
  <2>9. x.status = "READY" => BaseCurrent(x)
    BY <2>3 DEF Sound
  <2>10. ASSUME NEW r \in Sources(d)
         PROVE  /\ x.status = "PUBLISHED" /\ x.candidate = ContentAt(r[1], r[2])
                /\ Initiator[r[1]] = Initiator[d] /\ Scope[r[1]] = Scope[d]
                /\ IF x.request = Initial THEN r[2] = 1 ELSE r = <<x.request, x.base + 1>>
    <3>1. r = <<r[1], r[2]>> /\ r[1] \in Requests /\ r[2] \in Nat /\ Sourced(d, r[1], r[2])
      BY <2>4
    <3>2. Matches(d, x, r[1], r[2])
      BY <2>3, <3>1 DEF Sound, Origin
    <3> QED
      BY <3>1, <3>2 DEF Matches
  <2>11. ASSUME x.status = "PUBLISHED", Sources(d) = {}
         PROVE  x.request # Initial /\ x.candidate = ContentAt(x.request, x.base)
    <3>1. \A q \in Requests, n \in Nat : ~Sourced(d, q, n)
      BY <2>4, <2>11
    <3>2. x.request \in Requests /\ x.candidate = ContentAt(x.request, x.base)
      BY <2>3, <2>11, <3>1 DEF Sound, Borne
    <3> QED
      BY <3>2, FormationAssumption
  <2>12. ValidDraft(d, x)
    BY <2>4, <2>5, <2>7, <2>8, <2>9, <2>10, <2>11 DEF ValidDraft
  <2> QED
    BY <2>1, <2>12
<1> QED
  BY <1>1, <1>2 DEF ValidState

\* Until a commit fails, whatever is in memory between two operations, and what they
\* leave while they await their commits, can be restored (validate_formations,
\* _validate_drafts and validate_deliveries_and_inboxes): formations with their
\* answers and members, drafts with the revisions that come from them, and inboxes.
THEOREM WhatIsKeptCanBeRestored == Spec => [](spent.faults = 0 => ValidState /\ Restorable)
<1>1. Init => (spent.faults = 0 => Tidy)
  BY TidyInit
<1>2. Counted /\ Formed /\ Balloted /\ Consenting /\ (spent.faults = 0 => Tidy) /\ [Next]_vars
        => (spent.faults = 0 => Tidy)'
  BY TidyStep
<1>3. Formed /\ Consenting /\ (spent.faults = 0 => Tidy) /\ ValidDeliveries(letters, peer)
        => (spent.faults = 0 => ValidState /\ Restorable)
  BY ValidByTidy DEF Consenting, Orderly, Restorable
<1> QED
  BY <1>1, <1>2, <1>3, CountedInvariant, FormedInvariant, ConsentingInvariant, DeliveriesAgree, PTL DEF Spec
=============================================================================
