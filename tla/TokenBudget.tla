----------------------------- MODULE TokenBudget -----------------------------
(***************************************************************************)
(* Hard token budgets: TokenBudgetLedger, the retry loop of                *)
(* generate_with_retry and the model failover of an Agent's turn           *)
(* (AgentTeam.execute_reasoning_step with FailoverService).                *)
(*                                                                         *)
(* A turn makes up to MaxRounds model calls; each call is attempted up to  *)
(* MaxRetries + 1 times; every attempt reserves, dispatches and settles.   *)
(* Steps without an await are one action: a reservation and its dispatch   *)
(* are atomic, a reservation and its settlement are not.                   *)
(*                                                                         *)
(* A turn has one attempt in flight, so a reservation is named by its turn *)
(* and an amount of zero in the ledger means that there is none.  The      *)
(* ledger's branch for an unbounded output request is never taken:         *)
(* generate_with_retry always passes the configured output limit.          *)
(***************************************************************************)
EXTENDS Integers, FiniteSets, FiniteSetsExt

CONSTANTS
    Turns,        \* concurrent turns of different Agents
    Limited,      \* aliases in config.model_token_limits
    Default,      \* the alias "default"
    Limit,        \* config.model_token_limits
    Rank,         \* the order of the keys of config.model_token_limits
    Output,       \* the configured output limit of each alias
    Bounded,      \* aliases whose client accepts an output limit
    Prompts,      \* possible sizes of a request's input
    Reports,      \* possible sizes of the usage a provider reports
    MaxRetries,   \* config.llm_max_retries
    MaxRounds     \* model calls of one turn, bounded by max_tool_rounds

Models == Limited \cup {Default}

ASSUME BudgetAssumption ==
    /\ IsFiniteSet(Turns) /\ IsFiniteSet(Limited)
    /\ Limit \in [Limited -> Nat]
    /\ Rank \in [Models -> Nat]
    /\ \A m, n \in Models : Rank[m] = Rank[n] => m = n
    /\ Output \in [Models -> Nat \ {0}]
    /\ Prompts \subseteq Nat
    /\ Reports \subseteq Nat
    /\ MaxRetries \in Nat
    /\ MaxRounds \in Nat \ {0}

VARIABLES
    policy,      \* config.failover_policy
    pc,          \* where each turn stands
    model,       \* the alias of agent.llm_client
    prompt,      \* input_tokens of the current call
    attempt,     \* attempt number of the current call
    round,       \* calls made since the strategy was started
    swaps,       \* failover_attempts of the turn
    choices,     \* candidates put to the parent
    ledger,      \* _reservations: the tokens reserved for each turn
    reservedBy,  \* _reserved_by_model
    usage,       \* manager.model_token_usage
    overrun,     \* tokens a provider reported beyond their reservation
    sent,        \* attempts dispatched on each alias
    settled,     \* attempts settled on each alias
    unsent,      \* attempts released as never dispatched
    stage        \* shutdown: "open", then "closing", then "closed" storage

turnVars == <<pc, model, prompt, attempt, round, swaps, choices>>
ledgerVars == <<ledger, reservedBy, usage, overrun, settled, unsent>>
vars == <<policy, turnVars, ledgerVars, sent, stage>>

EndedPCs == {"completed", "incomplete", "cancelled", "crashed"}
PCs == {"idle", "request", "inFlight", "backoff", "exhausted", "asking"} \cup EndedPCs

\* What one attempt needs, and what the ledger still has for it.
Required(t) == prompt[t] + Output[model[t]]
Room(m) == Limit[m] - usage[m] - reservedBy[m]

\* TokenBudgetLedger.available
Available(m) == IF Room(m) > 0 THEN Room(m) ELSE 0

Goto(t, label) == pc' = [pc EXCEPT ![t] = label]

-----------------------------------------------------------------------------
(* The ledger. *)

\* Tokens that are reserved but not yet charged are overlooked.
FaultyFits(t) == Required(t) <= Limit[model[t]] - usage[model[t]]

\* TokenBudgetLedger.reserve
Fits(t) == Required(t) <= Room(model[t])

ReserveTokens(t) ==
    /\ ledger' = [ledger EXCEPT ![t] = Required(t)]
    /\ reservedBy' = [reservedBy EXCEPT ![model[t]] = @ + Required(t)]
    /\ UNCHANGED <<usage, overrun, settled, unsent>>

\* Only what was used is given back, not what was reserved.
FaultyDrop(t, actual) ==
    /\ ledger' = [ledger EXCEPT ![t] = 0]
    /\ reservedBy' = [reservedBy EXCEPT ![model[t]] = @ - (IF actual < ledger[t] THEN actual ELSE ledger[t])]

\* _release_locked, which settle and release share.
Drop(t, actual) ==
    /\ ledger' = [ledger EXCEPT ![t] = 0]
    /\ reservedBy' = [reservedBy EXCEPT ![model[t]] = @ - ledger[t]]

\* TokenBudgetLedger.settle: charge what was used, give back the rest.
Settle(t, actual) ==
    /\ Drop(t, actual)
    /\ usage' = [usage EXCEPT ![model[t]] = @ + actual]
    /\ overrun' = [overrun EXCEPT ![model[t]] =
                       @ + (IF actual > ledger[t] THEN actual - ledger[t] ELSE 0)]
    /\ settled' = [settled EXCEPT ![model[t]] = @ + 1]
    /\ UNCHANGED unsent

\* TokenBudgetLedger.release: nothing was dispatched, nothing is charged.
Release(t) ==
    /\ Drop(t, 0)
    /\ unsent' = [unsent EXCEPT ![model[t]] = @ + 1]
    /\ UNCHANGED <<usage, overrun, settled>>

\* settle and release do nothing for an alias without a limit.
SettleIfLimited(t, actual) ==
    IF model[t] \in Limited THEN Settle(t, actual) ELSE UNCHANGED ledgerVars

ReleaseIfLimited(t) ==
    IF model[t] \in Limited THEN Release(t) ELSE UNCHANGED ledgerVars

-----------------------------------------------------------------------------
Init ==
    /\ policy \in {"auto", "parent", "none"}
    /\ pc = [t \in Turns |-> "idle"]
    /\ model \in [Turns -> Models]
    /\ prompt = [t \in Turns |-> 0]
    /\ attempt = [t \in Turns |-> 1]
    /\ round = [t \in Turns |-> 0]
    /\ swaps = [t \in Turns |-> 0]
    /\ choices = [t \in Turns |-> {}]
    /\ ledger = [t \in Turns |-> 0]
    /\ reservedBy = [m \in Limited |-> 0]
    /\ usage = [m \in Limited |-> 0]
    /\ overrun = [m \in Limited |-> 0]
    /\ sent = [m \in Limited |-> 0]
    /\ settled = [m \in Limited |-> 0]
    /\ unsent = [m \in Limited |-> 0]
    /\ stage = "open"

\* The strategy issues a model call and counts its input once.
Call(t, p) ==
    /\ pc[t] = "idle"
    /\ Goto(t, "request")
    /\ prompt' = [prompt EXCEPT ![t] = p]
    /\ attempt' = [attempt EXCEPT ![t] = 1]
    /\ round' = [round EXCEPT ![t] = @ + 1]
    /\ UNCHANGED <<policy, model, swaps, choices, ledgerVars, sent, stage>>

-----------------------------------------------------------------------------
(* One attempt. *)

\* Reserve, and hand the request to the provider.
Dispatch(t) ==
    /\ pc[t] = "request"
    /\ stage = "open"
    /\ IF model[t] \in Limited
       THEN /\ Fits(t)
            /\ model[t] \in Bounded
            /\ ReserveTokens(t)
            /\ sent' = [sent EXCEPT ![model[t]] = @ + 1]
       ELSE UNCHANGED <<ledgerVars, sent>>
    /\ Goto(t, "inFlight")
    /\ UNCHANGED <<policy, model, prompt, attempt, round, swaps, choices, stage>>

\* The reservation is refused: TokenLimitExceededError.
Exceed(t) ==
    /\ pc[t] = "request"
    /\ model[t] \in Limited
    /\ ~Fits(t)
    /\ Goto(t, "exhausted")
    /\ UNCHANGED <<policy, model, prompt, attempt, round, swaps, choices,
                   ledgerVars, sent, stage>>

\* The client takes no output limit: reserve, release, LLMGenerationError.
RejectUnbounded(t) ==
    /\ pc[t] = "request"
    /\ model[t] \in Limited \ Bounded
    /\ Fits(t)
    /\ Goto(t, "incomplete")
    /\ UNCHANGED <<policy, model, prompt, attempt, round, swaps, choices,
                   ledgerVars, sent, stage>>

\* _await_external_llm refuses a dispatch during shutdown, and the cancelled
\* request is marked as not sent.
RefuseClosing(t) ==
    /\ pc[t] = "request"
    /\ stage # "open"
    /\ model[t] \in Limited => Fits(t) /\ model[t] \in Bounded
    /\ Goto(t, "cancelled")
    /\ UNCHANGED <<policy, model, prompt, attempt, round, swaps, choices,
                   ledgerVars, sent, stage>>

\* After a settlement the change is auto-saved.  Once storage is closed that
\* raises; the except branches then settle a second time, which the ledger
\* refuses, and the error leaves the turn.
AfterSettlement(t, label) ==
    IF stage = "closed" /\ model[t] \in Limited THEN "crashed" ELSE label

\* The turn issues another call or ends.
Answer(t, actual) ==
    /\ pc[t] = "inFlight"
    /\ SettleIfLimited(t, actual)
    /\ \E next \in {"idle", "completed", "incomplete"} :
           /\ next = "idle" => round[t] < MaxRounds
           /\ Goto(t, AfterSettlement(t, next))
    /\ UNCHANGED <<policy, model, prompt, attempt, round, swaps, choices, sent, stage>>

\* One retry too many.
FaultyAfterFailure(t, transient) ==
    IF transient /\ attempt[t] <= MaxRetries + 1 THEN "backoff" ELSE "incomplete"

\* A transient failure is retried, any other ends the call.
AfterFailure(t, transient) ==
    IF transient /\ attempt[t] <= MaxRetries THEN "backoff" ELSE "incomplete"

\* The provider fails after the request was sent; what it reports as used,
\* or else the input, is charged.
Fail(t, actual, transient) ==
    /\ pc[t] = "inFlight"
    /\ SettleIfLimited(t, actual)
    /\ Goto(t, AfterSettlement(t, AfterFailure(t, transient)))
    /\ UNCHANGED <<policy, model, prompt, attempt, round, swaps, choices, sent, stage>>

\* The provider fails and reports that the request was never sent.
FailUnsent(t, transient) ==
    /\ pc[t] = "inFlight"
    /\ ReleaseIfLimited(t)
    /\ Goto(t, AfterFailure(t, transient))
    /\ UNCHANGED <<policy, model, prompt, attempt, round, swaps, choices, sent, stage>>

\* The task is cancelled while the request is out: it is charged.
CancelInFlight(t, actual) ==
    /\ pc[t] = "inFlight"
    /\ SettleIfLimited(t, actual)
    /\ Goto(t, AfterSettlement(t, "cancelled"))
    /\ UNCHANGED <<policy, model, prompt, attempt, round, swaps, choices, sent, stage>>

\* Cancelled between calls, while sleeping before a retry, or while waiting
\* for the parent.
CancelIdle(t) ==
    /\ pc[t] \in {"idle", "backoff", "asking"}
    /\ Goto(t, "cancelled")
    /\ UNCHANGED <<policy, model, prompt, attempt, round, swaps, choices,
                   ledgerVars, sent, stage>>

\* The attempt is not counted.
FaultyRetry(t) ==
    /\ pc[t] = "backoff"
    /\ Goto(t, "request")
    /\ UNCHANGED <<policy, model, prompt, attempt, round, swaps, choices, ledgerVars, sent, stage>>

Retry(t) ==
    /\ pc[t] = "backoff"
    /\ Goto(t, "request")
    /\ attempt' = [attempt EXCEPT ![t] = @ + 1]
    /\ UNCHANGED <<policy, model, prompt, round, swaps, choices, ledgerVars, sent, stage>>

-----------------------------------------------------------------------------
(* Failover. *)

\* Aliases with room for the request that failed, or "default" if it is free.
Candidates(t) ==
    {m \in Limited \ {model[t]} : Available(m) >= Required(t)}
        \cup {m \in Models \ Limited : m # model[t]}

\* Candidates in the order of the configuration; an unlimited default is last.
IsFirst(m, S) == m \in S /\ \A n \in S : Rank[m] <= Rank[n]

\* failover_attempts < max_failovers
MaySwap(t) == swaps[t] < Cardinality(Limited)

\* The Agent gets its new client and the strategy starts over.
SwapTo(t, m) ==
    /\ model' = [model EXCEPT ![t] = m]
    /\ swaps' = [swaps EXCEPT ![t] = @ + 1]
    /\ round' = [round EXCEPT ![t] = 0]
    /\ Goto(t, "idle")

FailoverAuto(t, m) ==
    /\ pc[t] = "exhausted"
    /\ policy = "auto"
    /\ MaySwap(t)
    /\ IsFirst(m, Candidates(t))
    /\ SwapTo(t, m)
    /\ UNCHANGED <<policy, prompt, attempt, choices, ledgerVars, sent, stage>>

\* The parent is asked to choose among the candidates of this moment.
AskParent(t) ==
    /\ pc[t] = "exhausted"
    /\ policy = "parent"
    /\ MaySwap(t)
    /\ Candidates(t) # {}
    /\ choices' = [choices EXCEPT ![t] = Candidates(t)]
    /\ Goto(t, "asking")
    /\ UNCHANGED <<policy, model, prompt, attempt, round, swaps, ledgerVars, sent, stage>>

\* An approved choice; the budget may have been used up in the meantime.
ParentChooses(t, m) ==
    /\ pc[t] = "asking"
    /\ m \in choices[t]
    /\ SwapTo(t, m)
    /\ choices' = [choices EXCEPT ![t] = {}]
    /\ UNCHANGED <<policy, prompt, attempt, ledgerVars, sent, stage>>

\* Refusal, invalid answer, error or timeout.
ParentDeclines(t) ==
    /\ pc[t] = "asking"
    /\ Goto(t, "incomplete")
    /\ choices' = [choices EXCEPT ![t] = {}]
    /\ UNCHANGED <<policy, model, prompt, attempt, round, swaps, ledgerVars, sent, stage>>

\* No policy, no candidate or no failover left: token_limit_exhausted.
GiveUp(t) ==
    /\ pc[t] = "exhausted"
    /\ policy = "none" \/ ~MaySwap(t) \/ Candidates(t) = {}
    /\ Goto(t, "incomplete")
    /\ UNCHANGED <<policy, model, prompt, attempt, round, swaps, choices,
                   ledgerVars, sent, stage>>

-----------------------------------------------------------------------------
\* close() sets _closing and cancels; storage closes although a provider that
\* ignores cancellation may still answer.
Shutdown ==
    /\ stage # "closed"
    /\ stage' = IF stage = "open" THEN "closing" ELSE "closed"
    /\ UNCHANGED <<policy, turnVars, ledgerVars, sent>>

Step(t) ==
    \/ \E p \in Prompts : Call(t, p)
    \/ Dispatch(t) \/ Exceed(t) \/ RejectUnbounded(t) \/ RefuseClosing(t)
    \/ \E actual \in Reports : Answer(t, actual)
    \/ Retry(t)
    \/ \E m \in Models : FailoverAuto(t, m) \/ ParentChooses(t, m)
    \/ AskParent(t) \/ GiveUp(t)

Disturb(t) ==
    \/ \E actual \in Reports \cup {prompt[t]}, transient \in BOOLEAN : Fail(t, actual, transient)
    \/ \E transient \in BOOLEAN : FailUnsent(t, transient)
    \/ \E actual \in Reports \cup {prompt[t]} : CancelInFlight(t, actual)
    \/ CancelIdle(t) \/ ParentDeclines(t)

Next == Shutdown \/ \E t \in Turns : Step(t) \/ Disturb(t)

Spec == Init /\ [][Next]_vars

\* Every await of a turn ends: a provider answers, fails or is cancelled, a
\* sleep is over, and wait_for bounds the question to the parent.
Fairness == \A t \in Turns : WF_vars(Step(t) \/ Disturb(t))

FairSpec == Spec /\ Fairness
-----------------------------------------------------------------------------
(* Properties. *)

TypeOK ==
    /\ policy \in {"auto", "parent", "none"}
    /\ pc \in [Turns -> PCs]
    /\ model \in [Turns -> Models]
    /\ prompt \in [Turns -> Nat]
    /\ attempt \in [Turns -> 1..(MaxRetries + 1)]
    /\ round \in [Turns -> 0..MaxRounds]
    /\ swaps \in [Turns -> 0..Cardinality(Limited)]
    /\ choices \in [Turns -> SUBSET Models]
    /\ ledger \in [Turns -> Nat]
    /\ reservedBy \in [Limited -> Nat]
    /\ usage \in [Limited -> Nat]
    /\ overrun \in [Limited -> Nat]
    /\ sent \in [Limited -> Nat]
    /\ settled \in [Limited -> Nat]
    /\ unsent \in [Limited -> Nat]
    /\ stage \in {"open", "closing", "closed"}

\* The quota is hard: however the attempts of concurrent turns overlap, what
\* is charged and reserved stays within the limit, but for what providers
\* report beyond the output limit they were given.
HardQuota == \A m \in Limited : usage[m] + reservedBy[m] <= Limit[m] + overrun[m]

InFlightOn(m) == {t \in Turns : pc[t] = "inFlight" /\ model[t] = m}

\* Reserved capacity is exactly that of the requests that are out, so no
\* retry, cancellation, failover or shutdown strands a part of a quota.
LedgerExact ==
    /\ \A m \in Limited : reservedBy[m] = MapThenSumSet(LAMBDA t : ledger[t], InFlightOn(m))
    /\ \A t \in Turns : ledger[t] > 0 <=> (pc[t] = "inFlight" /\ model[t] \in Limited)

\* Every dispatched request is charged exactly once, unless the provider says
\* that it was never sent (the except branches of generate_with_retry).
EveryRequestAccounted ==
    \A m \in Limited : sent[m] = settled[m] + unsent[m] + Cardinality(InFlightOn(m))

\* Retries and failover cannot keep a turn going for ever.
EveryTurnEnds == \A t \in Turns : pc[t] = "request" ~> pc[t] \in EndedPCs

=============================================================================
