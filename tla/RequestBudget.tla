--------------------------- MODULE RequestBudget ---------------------------
(***************************************************************************)
(* The durable ledger of one acquisition run (climate_monitor/             *)
(* request_budget.py) under the calls its users make: the coordinator of   *)
(* scripts/run_agent_acquisition.py opens and finishes attempts, agent     *)
(* sessions find rows by search and stage and finalize candidates, and the *)
(* controlled reader claims its requests.  Every operation is atomic under *)
(* the ledger's file lock; a tool call is several of them, and goes on     *)
(* when its coordinator is dead or a later attempt has begun.              *)
(***************************************************************************)
EXTENDS Integers, Sequences

CONSTANTS
    Sessions,       \* agent sessions, each of the attempt it was launched in
    Handles,        \* result handles
    Articles,       \* canonical URLs, each at its source
    Days,           \* publication dates a result row may show
    Window,         \* the dates a window policy selects
    Policies,       \* frozen date policies: "window" or "unlimited"
    Words,          \* annotations an agent finalizes a candidate with
    None,           \* no date, no session, no evidence, no words
    FetchLimit,     \* budgets.fetch_attempts
    UnitCap,        \* most units one read reserves
    ReadLimit,      \* reads of one article: 1 + budgets.retries_per_item
    RuntimeLimit,   \* budgets.runtime_seconds
    MaxAttempts,    \* bound on attempts
    MaxStages,      \* bound on stages of one handle
    MaxClock        \* bound on the clock

Dates == Days \cup {None}
ResultRows == [attempt : Nat, session : Sessions \cup {None}, article : Articles, day : Dates]
ASSUME NoneAssumption == /\ None \notin Days \cup Sessions \cup Handles \cup Words \cup Nat \cup ResultRows
                         /\ Window \subseteq Days /\ Policies \subseteq {"window", "unlimited"}
ASSUME LimitsAssumption == /\ FetchLimit \in Nat /\ UnitCap \in Nat \ {0} /\ ReadLimit \in Nat
                           /\ RuntimeLimit \in Nat /\ MaxAttempts \in Nat
                           /\ MaxStages \in Nat /\ MaxClock \in Nat

VARIABLES
    policy,     \* date_policy of the run's binding
    attempts,   \* attempts of the ledger, in order; the last is the active one
    rows,       \* result_handles
    receipts,   \* candidate_receipts
    spent,      \* fetch units of all events: reserved, or used once completed
    reads,      \* reads claimed for each article
    running,    \* a coordinator is alive
    launched,   \* the attempt each session was launched in, 0 when it was not
    call,       \* the tool call each session has under way
    sent,       \* requests that really went out
    stages,     \* stages reserved of each handle
    now

ledger == <<attempts, rows, receipts, spent, reads>>
outside == <<policy, sent, now>>
vars == <<ledger, stages, running, launched, call, outside>>

(* ------------------------- attempts and limits ------------------------ *)

active == Len(attempts)
\* _runtime: an attempt without an end still runs, whether or not anything does.
Took(attempt, t) == (IF attempt.finished = None THEN t ELSE attempt.finished) - attempt.started
RuntimeOf(list, t) ==
    LET sum[n \in 0..Len(list)] == IF n = 0 THEN 0 ELSE sum[n - 1] + Took(list[n], t)
    IN  sum[Len(list)]
Runtime(t) == RuntimeOf(attempts, t)

Left(t) == IF Runtime(t) \in 0..RuntimeLimit THEN RuntimeLimit - Runtime(t) ELSE 0
\* Mutant of Deadline: every attempt has the whole runtime.
DeadlineAnew(t) == t + RuntimeLimit
Deadline(t) == t + Left(t)
\* _check_time
Timely(n) == /\ n > 0 /\ n = active
             /\ attempts[n].finished = None
             /\ now < attempts[n].deadline

Finished == IF active > 0 /\ attempts[active].finished = None
            THEN [attempts EXCEPT ![active].finished = now] ELSE attempts

(* ------------------------- candidates --------------------------------- *)

\* Mutant of Row: the date is taken for the URL.
RowOfDate(n, s, a, d) == [attempt |-> n, session |-> s, article |-> d, day |-> a]
Row(n, s, a, d) == [attempt |-> n, session |-> s, article |-> a, day |-> d]
Known(h) == rows[h] # None
\* What the frozen date policy says of a row, and how strong that decision is.
DateStatus(d) ==
    CASE d = None -> IF policy = "unlimited" THEN "eligible_unknown" ELSE "unknown_pending_review"
      [] d # None -> IF policy = "unlimited" \/ d \in Window THEN "eligible" ELSE "outside_window"

Rank(status) == CASE status = "unknown_pending_review" -> 0
                  [] status = "outside_window" -> 1
                  [] status = "eligible_unknown" -> 2
                  [] status = "eligible" -> 3

RankOf(h) == Rank(DateStatus(rows[h].day))
Readable(h) == DateStatus(rows[h].day) \in {"eligible", "eligible_unknown"}

NoReceipt == [state |-> "none", by |-> None, evidence |-> None, words |-> None, alias |-> None]
Live(h) == receipts[h].state \in {"staged", "finalized"}
Verified(h) == Live(h) /\ receipts[h].evidence.body
\* Receipts of the same canonical URL at the same source.
Rivals(h) == {g \in Handles \ {h} : Known(g) /\ rows[g].article = rows[h].article}
LiveRivals(h) == {g \in Rivals(h) : Live(g)}
Reading(h) == {g \in Rivals(h) : receipts[g].state = "in_progress"}
\* What the latest stage of a handle recorded; a stage never records the same twice.
Evidence(h, body) == [of |-> h, stage |-> stages[h], body |-> body]

NoCall == [at |-> "idle", handle |-> None, units |-> 0, evidence |-> None]
At(s, label) == call[s].at = label
Returns(s) == call' = [call EXCEPT ![s] = NoCall]
Goes(s, label) == call' = [call EXCEPT ![s].at = label]
Owns(s) == LET r == receipts[call[s].handle] IN r.state = "in_progress" /\ r.by = s

Init ==
    /\ policy \in Policies
    /\ attempts = <<>> /\ spent = 0 /\ reads = [a \in Articles |-> 0]
    /\ rows = [h \in Handles |-> None] /\ receipts = [h \in Handles |-> NoReceipt]
    /\ running = FALSE /\ launched = [s \in Sessions |-> 0]
    /\ call = [s \in Sessions |-> NoCall]
    /\ stages = [h \in Handles |-> 0]
    /\ sent = 0 /\ now = 0

(* ------------------------- the coordinator ---------------------------- *)

\* Opening the ledger for the next attempt ends the one before.
StartAttempt ==
    /\ ~running /\ active < MaxAttempts
    /\ running' = TRUE
    /\ attempts' = Append(Finished, [started |-> now, finished |-> None, deadline |-> Deadline(now)])
    /\ UNCHANGED <<rows, receipts, spent, reads, stages, launched, call, outside>>

\* register_site_candidate_handles: rows no session has found, before the agent starts.
RegisterSite(h, a, d) ==
    /\ running /\ Timely(active) /\ ~Known(h)
    /\ \A s \in Sessions : launched[s] # active
    /\ rows' = [rows EXCEPT ![h] = Row(active, None, a, d)]
    /\ UNCHANGED <<attempts, receipts, spent, reads, stages, running, launched, call, outside>>

Launch(s) ==
    /\ running /\ Timely(active) /\ launched[s] = 0
    /\ launched' = [launched EXCEPT ![s] = active]
    /\ UNCHANGED <<ledger, stages, running, call, outside>>

FinishAttempt ==
    /\ running
    /\ running' = FALSE /\ attempts' = Finished
    /\ UNCHANGED <<rows, receipts, spent, reads, stages, launched, call, outside>>

CoordinatorDies ==
    /\ running /\ running' = FALSE
    /\ UNCHANGED <<ledger, stages, launched, call, outside>>

(* ------------------------- tool calls --------------------------------- *)

\* A call opens the ledger for its own attempt, which must be the active one, and
\* uses it from then on whatever becomes of the attempt.
Open(s) ==
    /\ At(s, "idle") /\ launched[s] > 0 /\ launched[s] = active
    /\ attempts[active].finished = None
    /\ Goes(s, "open")
    /\ UNCHANGED <<ledger, stages, running, launched, outside>>

\* A search's answer becomes a row of its session (register_search_result_handles).
Found(s, h, a, d) ==
    /\ At(s, "open") /\ ~Known(h)
    /\ rows' = [rows EXCEPT ![h] = Row(launched[s], s, a, d)]
    /\ Returns(s)
    /\ UNCHANGED <<attempts, receipts, spent, reads, stages, running, launched, outside>>

(* ------------------------- staging a candidate ------------------------ *)

\* begin_candidate_stage binds a site row to the session even when it then refuses.
MayBegin(s, h) ==
    /\ At(s, "open") /\ Known(h)
    /\ rows[h].attempt = launched[s] /\ rows[h].session \in {None, s}
    /\ rows' = [rows EXCEPT ![h].session = s]

SameDate(h) == {g \in LiveRivals(h) : rows[g].day = rows[h].day}
Blocking(s, h) == {g \in Reading(h) : rows[g].attempt >= launched[s]}
BeginReused(s, h) ==
    /\ MayBegin(s, h) /\ Returns(s)
    /\ \/ Live(h) /\ UNCHANGED receipts
       \/ /\ ~Live(h) /\ receipts[h].state # "in_progress"
          /\ \E g \in SameDate(h) :
                receipts' = [receipts EXCEPT ![h] =
                    [receipts[g] EXCEPT !.state = "superseded", !.alias = g]]
    /\ UNCHANGED <<attempts, spent, reads, stages, running, launched, outside>>

BeginRefused(s, h) ==
    /\ MayBegin(s, h) /\ Returns(s)
    /\ ~Live(h)
    /\ \/ receipts[h].state = "in_progress"
       \/ SameDate(h) = {} /\ Blocking(s, h) # {}
    /\ UNCHANGED <<attempts, receipts, spent, reads, stages, running, launched, outside>>

Reserved(s, h) ==
    [g \in Handles |->
        IF g = h THEN [NoReceipt EXCEPT !.state = "in_progress", !.by = s]
        ELSE IF g \in Reading(h) THEN [NoReceipt EXCEPT !.state = "superseded"]
        ELSE receipts[g]]

Begin(s, h) ==
    /\ MayBegin(s, h)
    /\ ~Live(h) /\ receipts[h].state # "in_progress" /\ SameDate(h) = {} /\ Blocking(s, h) = {}
    /\ stages[h] < MaxStages
    /\ receipts' = Reserved(s, h)
    /\ stages' = [stages EXCEPT ![h] = @ + 1]
    /\ call' = [call EXCEPT ![s].at = "begun", ![s].handle = h]
    /\ UNCHANGED <<attempts, spent, reads, running, launched, outside>>

\* reusable_candidate_body
\* Mutant of Reusable: the body of a candidate not finalized yet is not reused.
ReusableFinal(h) == {g \in LiveRivals(h) : receipts[g].evidence.body /\ receipts[g].state = "finalized"}
Reusable(h) == {g \in LiveRivals(h) : receipts[g].evidence.body}
Has(s, evidence) == call' = [call EXCEPT ![s].at = "have", ![s].units = 0, ![s].evidence = evidence]
Breaks(s) == call' = [call EXCEPT ![s].at = "fail", ![s].units = 0]
\* A decision that excludes the article needs no body; a body already read is taken.
Look(s) ==
    LET h == call[s].handle IN
    /\ At(s, "begun")
    /\ \/ ~Readable(h) /\ Has(s, Evidence(h, FALSE))
       \/ Readable(h) /\ \E g \in Reusable(h) : Has(s, receipts[g].evidence)
    /\ UNCHANGED <<ledger, stages, running, launched, outside>>

\* The reader sizes its reservation by a usage it reads before it claims.
Size(s) ==
    LET h == call[s].handle
        left == FetchLimit - spent
        units == IF UnitCap <= left THEN UnitCap ELSE left
    IN  /\ At(s, "begun") /\ Readable(h) /\ Reusable(h) = {}
        /\ IF Timely(launched[s]) /\ units > 0
           THEN call' = [call EXCEPT ![s].at = "claim", ![s].units = units]
           ELSE Breaks(s)
        /\ UNCHANGED <<ledger, stages, running, launched, outside>>

\* Mutant of MayClaim: the units were there when the reader asked.
MayClaimAsSized(s) == Timely(launched[s]) /\ reads[rows[call[s].handle].article] < ReadLimit
MayClaim(s) == /\ Timely(launched[s])
               /\ spent + call[s].units <= FetchLimit
               /\ reads[rows[call[s].handle].article] < ReadLimit

Claim(s) ==
    /\ At(s, "claim")
    /\ IF MayClaim(s)
       THEN /\ spent' = spent + call[s].units
            /\ reads' = [reads EXCEPT ![rows[call[s].handle].article] = @ + 1]
            /\ Goes(s, "sent")
       ELSE Breaks(s) /\ UNCHANGED <<spent, reads>>
    /\ UNCHANGED <<attempts, rows, receipts, stages, running, launched, outside>>

\* complete_tool with the measured usage.
Answered(s, used, found) ==
    /\ At(s, "sent") /\ used <= call[s].units
    /\ sent' = sent + used
    /\ spent' = (spent - call[s].units) + used
    /\ IF found THEN Has(s, Evidence(call[s].handle, TRUE)) ELSE Breaks(s)
    /\ UNCHANGED <<attempts, rows, receipts, reads, stages, running, launched, policy, now>>

\* The reader broke off without a measurement: its reservation stays spent.
Unmeasured(s, used) ==
    /\ At(s, "sent") /\ used <= call[s].units
    /\ sent' = sent + used
    /\ Breaks(s)
    /\ UNCHANGED <<ledger, stages, running, launched, policy, now>>

\* complete_candidate_stage: the stronger date decision stays.
\* Mutant of Weaker: the later decision stays.
WeakerNever(h) == FALSE
Weaker(h) == \E g \in LiveRivals(h) : RankOf(h) <= RankOf(g)
Stored(state, evidence) == [NoReceipt EXCEPT !.state = state, !.evidence = evidence]
Settled(h, evidence) ==
    IF Weaker(h)
    THEN [receipts EXCEPT ![h] = Stored("superseded", evidence)]
    ELSE [g \in Handles |->
            IF g = h THEN Stored("staged", evidence)
            ELSE IF g \in LiveRivals(h) THEN [receipts[g] EXCEPT !.state = "superseded"]
            ELSE receipts[g]]

Complete(s) ==
    /\ At(s, "have")
    /\ receipts' = IF Owns(s) THEN Settled(call[s].handle, call[s].evidence) ELSE receipts
    /\ Returns(s)
    /\ UNCHANGED <<attempts, rows, spent, reads, stages, running, launched, outside>>

Fail(s) ==
    LET h == call[s].handle IN
    /\ At(s, "fail")
    /\ receipts' = IF Owns(s) THEN [receipts EXCEPT ![h] = Stored("failed", Evidence(h, FALSE))]
                   ELSE receipts
    /\ Returns(s)
    /\ UNCHANGED <<attempts, rows, spent, reads, stages, running, launched, outside>>

(* ------------------------- finalizing --------------------------------- *)

MayFinalize(s, h) == /\ Known(h)
                     /\ \/ rows[h].attempt < launched[s]
                        \/ rows[h].attempt = launched[s] /\ rows[h].session = s

Annotated(h, w) ==
    IF receipts[h].state = "staged"
    THEN [receipts EXCEPT ![h].state = "finalized", ![h].words = w] ELSE receipts

Finalize(s, h, w) ==
    /\ At(s, "open") /\ MayFinalize(s, h)
    /\ receipts' = Annotated(h, w)
    /\ Returns(s)
    /\ UNCHANGED <<attempts, rows, spent, reads, stages, running, launched, outside>>

(* ------------------------- the environment ---------------------------- *)

\* A tool call dies wherever it is; requests it had claimed may have gone out.
CallDies(s, used) ==
    /\ ~At(s, "idle")
    /\ used <= IF At(s, "sent") THEN call[s].units ELSE 0
    /\ sent' = sent + used
    /\ Returns(s)
    /\ UNCHANGED <<ledger, stages, running, launched, policy, now>>

Tick ==
    /\ now < MaxClock /\ now' = now + 1
    /\ UNCHANGED <<ledger, stages, running, launched, call, policy, sent>>

Coordinator == \/ StartAttempt \/ FinishAttempt \/ CoordinatorDies
               \/ \E h \in Handles, a \in Articles, d \in Dates : RegisterSite(h, a, d)
               \/ \E s \in Sessions : Launch(s)

Staging(s) ==
    \/ \E h \in Handles : BeginReused(s, h) \/ BeginRefused(s, h) \/ Begin(s, h)
    \/ Look(s) \/ Size(s) \/ Claim(s) \/ Complete(s) \/ Fail(s)
    \/ \E used \in 0..UnitCap : (\E found \in BOOLEAN : Answered(s, used, found)) \/ Unmeasured(s, used)

Agent(s) ==
    \/ Open(s) \/ Staging(s)
    \/ \E h \in Handles, a \in Articles, d \in Dates : Found(s, h, a, d)
    \/ \E h \in Handles, w \in Words : Finalize(s, h, w)

Next ==
    \/ Coordinator \/ Tick
    \/ \E s \in Sessions : Agent(s)
    \/ \E s \in Sessions, used \in 0..UnitCap : CallDies(s, used)

Spec == Init /\ [][Next]_vars

(* ------------------------- properties --------------------------------- *)

States == {"none", "in_progress", "staged", "finalized", "superseded", "failed"}
Labels == {"idle", "open", "begun", "claim", "sent", "have", "fail"}
Stamps == [of : Handles, stage : Nat, body : BOOLEAN] \cup {None}
AttemptRows == [started : Nat, finished : Nat \cup {None}, deadline : Nat]
Receipts == [state : States, by : Sessions \cup {None}, evidence : Stamps,
             words : Words \cup {None}, alias : Handles \cup {None}]

Calls == [at : Labels, handle : Handles \cup {None}, units : Nat, evidence : Stamps]

\* Types of the ledger and of the calls on it.
TypeOK ==
    /\ policy \in Policies
    /\ attempts \in Seq(AttemptRows)
    /\ rows \in [Handles -> ResultRows \cup {None}]
    /\ receipts \in [Handles -> Receipts]
    /\ spent \in Int /\ sent \in Nat /\ now \in Nat
    /\ reads \in [Articles -> Nat] /\ stages \in [Handles -> Nat]
    /\ running \in BOOLEAN
    /\ launched \in [Sessions -> Nat]
    /\ call \in [Sessions -> Calls]

\* An article has one live candidate at most, whatever two sessions, two attempts or
\* a call left over from an earlier attempt stage for the same URL and source.
OneLive == \A h \in Handles : Live(h) => LiveRivals(h) = {}

\* One stage at most can still deliver an article: its reservation excludes every
\* other, except one it took over from an earlier attempt.
OneReader == \A h \in Handles : receipts[h].state = "in_progress" => Reading(h) = {}

\* The date decision of an article never becomes weaker and its live candidate never
\* goes away, in whatever order stages that began on older knowledge end.
DecisionStays ==
    [][\A h \in Handles : Live(h) =>
          \/ Live(h)'
          \/ \E g \in Rivals(h) : Live(g)' /\ RankOf(g) > RankOf(h)]_vars

\* What an agent said of a candidate stays: a repeated or late finalization does not
\* change it.
WordsStay ==
    [][\A h \in Handles : receipts[h].state = "finalized" =>
          /\ receipts'[h].words = receipts[h].words
          /\ receipts'[h].state \in {"finalized", "superseded"}]_vars

\* No more requests go out than the budget has, with readers that sized their
\* reservation at the same time and calls that die with theirs.
WithinBudget == sent <= spent /\ spent <= FetchLimit

\* Nothing is dispatched once the attempts together have used up the run's time.
WithinRuntime ==
    [][\A a \in Articles : reads'[a] > reads[a] => Runtime(now) < RuntimeLimit]_vars

\* "reusing verified successes without a resend": an article whose body is in a live
\* candidate is not read again.
NoResend ==
    [][\A a \in Articles : reads'[a] > reads[a] =>
          \A h \in Handles : Known(h) /\ rows[h].article = a => ~Verified(h)]_vars

\* "candidate reuse alias binding differs from its verified target": an alias has the
\* evidence its target recorded, or no batch is assembled at all.
AliasHolds ==
    \A h \in Handles : LET g == receipts[h].alias IN
        g # None /\ receipts[g].state # "in_progress" => receipts[g].evidence = receipts[h].evidence
=============================================================================
