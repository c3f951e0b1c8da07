------------------------ MODULE RequestBudgetProofs ------------------------
(***************************************************************************)
(* What the ledger promises of candidates, of the requests and of the time *)
(* of a run, for any number of sessions, attempts, handles and articles,   *)
(* and wherever a call or a coordinator dies.                              *)
(***************************************************************************)
EXTENDS RequestBudget, TLAPS, WellFoundedInduction

Working == {"begun", "claim", "sent", "have", "fail"}

\* A call under way belongs to an attempt and, once it stages, to a row of that attempt.
CallsKnown ==
    \A s \in Sessions :
        /\ call[s].at # "idle" => launched[s] > 0
        /\ call[s].at \in Working =>
              /\ call[s].handle \in Handles /\ Known(call[s].handle)
              /\ rows[call[s].handle].attempt = launched[s]

LaunchedPast == \A s \in Sessions : launched[s] <= active

ReceiptsKnown == \A h \in Handles : receipts[h].state # "none" => Known(h)

TypeInv == TypeOK /\ CallsKnown /\ LaunchedPast /\ ReceiptsKnown

\* Until it claims, a call has its reservation, or a later attempt has begun.
ReservationHolds ==
    \A s \in Sessions : call[s].at \in {"begun", "claim"} => Owns(s) \/ launched[s] < active

\* What a call found unread before it claims stays unread while its attempt is active.
StillUnread ==
    \A s \in Sessions : call[s].at = "claim" /\ launched[s] = active =>
        \A g \in Rivals(call[s].handle) : ~Verified(g)

LedgerInv == TypeInv /\ OneLive /\ OneReader /\ ReservationHolds /\ StillUnread

(* ------------------------- types -------------------------------------- *)

LEMMA LeftType == ASSUME NEW t \in Nat PROVE Deadline(t) \in Nat
BY LimitsAssumption DEF Left, Deadline

LEMMA ActiveType == ASSUME TypeOK PROVE active \in Nat
BY DEF TypeOK, active

LEMMA FinishedType ==
    ASSUME TypeOK PROVE Finished \in Seq(AttemptRows) /\ Len(Finished) = active
<1>1. ASSUME NEW a \in AttemptRows PROVE [a EXCEPT !.finished = now] \in AttemptRows
  BY DEF TypeOK, AttemptRows
<1>2. CASE active > 0 /\ attempts[active].finished = None
  <2>1. attempts \in Seq(AttemptRows) /\ active \in 1..Len(attempts)
    BY <1>2, ActiveType DEF TypeOK, active
  <2>2. attempts[active] \in AttemptRows
    BY <2>1
  <2>3. Finished = [attempts EXCEPT ![active] = [attempts[active] EXCEPT !.finished = now]]
    BY <1>2 DEF Finished
  <2>4. [attempts[active] EXCEPT !.finished = now] \in AttemptRows
    BY <1>1, <2>2
  <2> QED
    BY <2>1, <2>3, <2>4 DEF active
<1>3. CASE ~(active > 0 /\ attempts[active].finished = None)
  BY <1>3 DEF TypeOK, Finished, active
<1> QED
  BY <1>2, <1>3

LEMMA RowType ==
    ASSUME NEW n \in Nat, NEW s \in Sessions \cup {None}, NEW a \in Articles, NEW d \in Dates
    PROVE  /\ Row(n, s, a, d) \in ResultRows /\ Row(n, s, a, d) # None
           /\ Row(n, s, a, d).attempt = n
BY NoneAssumption DEF Row, ResultRows

LEMMA NoReceiptType == NoReceipt \in Receipts /\ NoReceipt.state = "none"
BY DEF NoReceipt, Receipts, States, Stamps

LEMMA NoCallType == NoCall \in Calls /\ NoCall.at = "idle"
BY DEF NoCall, Calls, Labels, Stamps

LEMMA ReturnsType ==
    ASSUME TypeOK, NEW s \in Sessions, Returns(s)
    PROVE  /\ call' \in [Sessions -> Calls] /\ call'[s].at = "idle"
           /\ \A u \in Sessions \ {s} : call'[u] = call[u]
BY NoCallType DEF TypeOK, Returns

LEMMA GoesType ==
    ASSUME TypeOK, NEW s \in Sessions, NEW label \in Labels, Goes(s, label)
    PROVE  /\ call' \in [Sessions -> Calls] /\ call'[s].at = label
           /\ call'[s].handle = call[s].handle
           /\ \A u \in Sessions \ {s} : call'[u] = call[u]
BY DEF TypeOK, Goes, Calls

LEMMA BreaksType ==
    ASSUME TypeOK, NEW s \in Sessions, Breaks(s)
    PROVE  /\ call' \in [Sessions -> Calls] /\ call'[s].at = "fail"
           /\ call'[s].handle = call[s].handle
           /\ \A u \in Sessions \ {s} : call'[u] = call[u]
BY DEF TypeOK, Breaks, Calls, Labels

LEMMA HasType ==
    ASSUME TypeOK, NEW s \in Sessions, NEW evidence \in Stamps, Has(s, evidence)
    PROVE  /\ call' \in [Sessions -> Calls] /\ call'[s].at = "have"
           /\ call'[s].handle = call[s].handle
           /\ \A u \in Sessions \ {s} : call'[u] = call[u]
BY DEF TypeOK, Has, Calls, Labels

LEMMA EvidenceType ==
    ASSUME TypeOK, NEW h \in Handles, NEW body \in BOOLEAN
    PROVE  Evidence(h, body) \in Stamps
BY DEF TypeOK, Evidence, Stamps

LEMMA StoredType ==
    ASSUME NEW state \in States, NEW evidence \in Stamps
    PROVE  /\ Stored(state, evidence) \in Receipts
           /\ Stored(state, evidence).state = state
           /\ Stored(state, evidence).evidence = evidence
BY NoReceiptType DEF Stored, NoReceipt, Receipts

LEMMA MayBeginType ==
    ASSUME TypeOK, NEW s \in Sessions, NEW h \in Handles, MayBegin(s, h)
    PROVE  /\ rows' \in [Handles -> ResultRows \cup {None}]
           /\ \A g \in Handles : /\ (rows'[g] # None) <=> (rows[g] # None)
                                 /\ rows[g] # None =>
                                       /\ rows'[g].attempt = rows[g].attempt
                                       /\ rows'[g].article = rows[g].article
                                       /\ rows'[g].day = rows[g].day
BY NoneAssumption DEF TypeOK, MayBegin, Known, ResultRows

LEMMA FoundType ==
    ASSUME TypeOK, NEW n \in Nat, NEW s \in Sessions \cup {None}, NEW h \in Handles,
           NEW a \in Articles, NEW d \in Dates, ~Known(h),
           rows' = [rows EXCEPT ![h] = Row(n, s, a, d)]
    PROVE  /\ rows' \in [Handles -> ResultRows \cup {None}]
           /\ Known(h)' /\ \A g \in Handles \ {h} : rows'[g] = rows[g]
BY RowType DEF TypeOK, Known

(* Every call keeps its place except that of s, which keeps its handle or ends. *)
OnlyMoves(s) ==
    /\ call' \in [Sessions -> Calls]
    /\ \A u \in Sessions \ {s} : call'[u] = call[u]
    /\ \/ call'[s].at \notin Working
       \/ call[s].at \in Working /\ call'[s].handle = call[s].handle
    /\ call'[s].at # "idle" => call[s].at # "idle"
RowsStay ==
    \A g \in Handles : Known(g) => Known(g)' /\ rows'[g].attempt = rows[g].attempt
ReceiptsStay ==
    \A g \in Handles : receipts'[g].state # "none" => receipts[g].state # "none" \/ Known(g)

LEMMA CallsKnownStep ==
    ASSUME TypeInv, NEW s \in Sessions, OnlyMoves(s), RowsStay, UNCHANGED launched
    PROVE  CallsKnown'
<1> SUFFICES ASSUME NEW u \in Sessions
             PROVE  /\ call'[u].at # "idle" => launched[u] > 0
                    /\ call'[u].at \in Working =>
                          /\ call'[u].handle \in Handles /\ rows'[call'[u].handle] # None
                          /\ rows'[call'[u].handle].attempt = launched[u]
  BY DEF CallsKnown, Known
<1>1. /\ call[u].at # "idle" => launched[u] > 0
      /\ call[u].at \in Working =>
            /\ call[u].handle \in Handles /\ Known(call[u].handle)
            /\ rows[call[u].handle].attempt = launched[u]
  BY DEF TypeInv, CallsKnown
<1>2. CASE call'[u].at \in Working
  <2>1. call[u].at \in Working /\ call'[u].handle = call[u].handle
    BY <1>2 DEF OnlyMoves
  <2> QED
    BY <1>1, <2>1 DEF RowsStay, Known, Working
<1>3. CASE call'[u].at \notin Working
  <2>1. call'[u].at # "idle" => call[u].at # "idle"
    BY DEF OnlyMoves
  <2> QED
    BY <1>1, <1>3, <2>1
<1> QED
  BY <1>2, <1>3

LEMMA ReceiptsKnownStep ==
    ASSUME TypeInv, RowsStay, ReceiptsStay
    PROVE  ReceiptsKnown'
BY DEF TypeInv, ReceiptsKnown, RowsStay, ReceiptsStay, Known

LEMMA ReturnsMoves ==
    ASSUME TypeOK, NEW s \in Sessions, Returns(s) PROVE OnlyMoves(s)
BY ReturnsType DEF OnlyMoves, Working

LEMMA GoesMoves ==
    ASSUME TypeOK, NEW s \in Sessions, NEW label \in Labels, Goes(s, label),
           call[s].at \in Working \/ label \notin Working, call[s].at # "idle"
    PROVE  OnlyMoves(s)
BY GoesType DEF OnlyMoves, Working

LEMMA BreaksMoves ==
    ASSUME TypeOK, NEW s \in Sessions, Breaks(s), call[s].at \in Working
    PROVE  OnlyMoves(s)
BY BreaksType DEF OnlyMoves, Working

LEMMA HasMoves ==
    ASSUME TypeOK, NEW s \in Sessions, NEW evidence \in Stamps, Has(s, evidence),
           call[s].at \in Working
    PROVE  OnlyMoves(s)
BY HasType DEF OnlyMoves, Working

LEMMA TypeInit == Init => TypeInv
<1> SUFFICES ASSUME Init PROVE TypeInv
    OBVIOUS
<1>1. call \in [Sessions -> Calls] /\ receipts \in [Handles -> Receipts]
  BY NoCallType, NoReceiptType DEF Init
<1>2. attempts \in Seq(AttemptRows)
  BY DEF Init
<1>3. /\ policy \in Policies /\ running \in BOOLEAN /\ launched \in [Sessions -> Nat]
      /\ spent \in Int /\ sent \in Nat /\ now \in Nat
      /\ rows \in [Handles -> ResultRows \cup {None}]
      /\ reads \in [Articles -> Nat] /\ stages \in [Handles -> Nat]
  <2>1. rows \in [Handles -> ResultRows \cup {None}]
    BY DEF Init
  <2>2. reads \in [Articles -> Nat] /\ stages \in [Handles -> Nat] /\ launched \in [Sessions -> Nat]
    BY DEF Init
  <2>3. running \in BOOLEAN
    BY Zenon DEF Init
  <2>4. policy \in Policies /\ spent \in Int /\ sent \in Nat /\ now \in Nat
    BY DEF Init
  <2> QED
    BY <2>1, <2>2, <2>3, <2>4
<1>4. TypeOK
  BY <1>1, <1>2, <1>3 DEF TypeOK
<1> QED
  BY <1>4, NoCallType, NoReceiptType
  DEF Init, TypeInv, CallsKnown, LaunchedPast, ReceiptsKnown, active, Working

(* Steps that leave receipts and attempts alone and move one call. *)
LEMMA MoveType ==
    ASSUME TypeInv, NEW s \in Sessions, OnlyMoves(s), RowsStay, ReceiptsStay,
           rows' \in [Handles -> ResultRows \cup {None}],
           receipts' \in [Handles -> Receipts], spent' \in Int, sent' \in Nat,
           reads' \in [Articles -> Nat], stages' \in [Handles -> Nat],
           UNCHANGED <<policy, attempts, running, launched, now>>
    PROVE  TypeInv'
<1>1. TypeOK'
  BY DEF TypeInv, TypeOK, OnlyMoves
<1>2. CallsKnown' /\ ReceiptsKnown'
  BY CallsKnownStep, ReceiptsKnownStep
<1>3. LaunchedPast'
  BY DEF TypeInv, LaunchedPast, active
<1> QED
  BY <1>1, <1>2, <1>3 DEF TypeInv

(* Steps that leave the calls and the receipts alone. *)
LEMMA CoordinatorType ==
    ASSUME TypeInv, attempts' \in Seq(AttemptRows), active' >= active,
           launched' \in [Sessions -> Nat], running' \in BOOLEAN, now' \in Nat,
           \A s \in Sessions : \/ launched'[s] = launched[s]
                               \/ launched[s] = 0 /\ launched'[s] = active',
           RowsStay, rows' \in [Handles -> ResultRows \cup {None}],
           UNCHANGED <<policy, receipts, spent, reads, stages, call, sent>>
    PROVE  TypeInv'
<1>1. TypeOK'
  BY DEF TypeInv, TypeOK
<1>2. CallsKnown'
  <2> SUFFICES ASSUME NEW u \in Sessions
               PROVE  /\ call[u].at # "idle" => launched'[u] > 0
                      /\ call[u].at \in Working =>
                            /\ call[u].handle \in Handles /\ rows'[call[u].handle] # None
                            /\ rows'[call[u].handle].attempt = launched'[u]
    BY DEF CallsKnown, Known
  <2>1. /\ call[u].at # "idle" => launched[u] > 0
        /\ call[u].at \in Working =>
              /\ call[u].handle \in Handles /\ Known(call[u].handle)
              /\ rows[call[u].handle].attempt = launched[u]
    BY DEF TypeInv, CallsKnown
  <2> QED
    BY <2>1 DEF RowsStay, Known, Working
<1>3. ReceiptsKnown'
  BY DEF TypeInv, ReceiptsKnown, RowsStay, Known
<1>4. active' \in Nat
  <2>1. Len(attempts') \in Nat
    OBVIOUS
  <2> QED
    BY <2>1 DEF active
<1>5. LaunchedPast'
  <2> SUFFICES ASSUME NEW u \in Sessions PROVE launched'[u] <= active'
    BY DEF LaunchedPast
  <2>1. launched[u] <= active /\ launched[u] \in Nat /\ active \in Nat
    BY ActiveType DEF TypeInv, TypeOK, LaunchedPast
  <2>2. active' >= active
    OBVIOUS
  <2>3. launched'[u] = launched[u] \/ launched'[u] = active'
    OBVIOUS
  <2> QED
    BY <1>4, <2>1, <2>2, <2>3
<1> QED
  BY <1>1, <1>2, <1>3, <1>5 DEF TypeInv

LEMMA StartAttemptType == ASSUME TypeInv, StartAttempt PROVE TypeInv' /\ active' = active + 1
<1> DEFINE new == [started |-> now, finished |-> None, deadline |-> Deadline(now)]
<1>1. new \in AttemptRows
  BY LeftType DEF TypeInv, TypeOK, AttemptRows
<1>2. attempts' = Append(Finished, new)
  BY DEF StartAttempt
<1>3. attempts' \in Seq(AttemptRows) /\ active' = active + 1
  <2> HIDE DEF new
  <2> QED
    BY <1>1, <1>2, FinishedType, ActiveType DEF TypeInv, active
<1>4. running' \in BOOLEAN
  BY Zenon DEF StartAttempt
<1>5. /\ UNCHANGED <<launched, rows>> /\ now' = now
      /\ UNCHANGED <<policy, receipts, spent, reads, stages, call, sent>>
  BY DEF StartAttempt, outside
<1>6. /\ launched' \in [Sessions -> Nat] /\ now' \in Nat
      /\ rows' \in [Handles -> ResultRows \cup {None}] /\ RowsStay
  BY <1>5 DEF TypeInv, TypeOK, RowsStay, Known
<1>7. /\ active' >= active
      /\ \A u \in Sessions : launched'[u] = launched[u] \/ (launched[u] = 0 /\ launched'[u] = active')
  BY <1>3, <1>5, ActiveType DEF TypeInv, TypeOK
<1>8. TypeInv'
  BY <1>3, <1>4, <1>5, <1>6, <1>7, CoordinatorType, Zenon
<1> QED
  BY <1>3, <1>8

LEMMA RegisterSiteType ==
    ASSUME TypeInv, NEW h \in Handles, NEW a \in Articles, NEW d \in Dates, RegisterSite(h, a, d)
    PROVE  TypeInv' /\ active' = active
<1>1. /\ rows' = [rows EXCEPT ![h] = Row(active, None, a, d)] /\ ~Known(h)
      /\ UNCHANGED <<policy, receipts, spent, reads, stages, call, sent>>
      /\ UNCHANGED <<attempts, launched, now>>
  BY DEF RegisterSite, outside
<1>2. rows' \in [Handles -> ResultRows \cup {None}] /\ RowsStay
  <2>1. /\ rows' \in [Handles -> ResultRows \cup {None}]
        /\ \A g \in Handles \ {h} : rows'[g] = rows[g]
    BY <1>1, FoundType, ActiveType DEF TypeInv
  <2> QED
    BY <1>1, <2>1 DEF RowsStay, Known
<1>3. active' = active
  BY <1>1 DEF active
<1>4. running' \in BOOLEAN
  BY Zenon DEF TypeInv, TypeOK, RegisterSite
<1>5. launched' \in [Sessions -> Nat] /\ now' \in Nat /\ attempts' \in Seq(AttemptRows)
  BY <1>1 DEF TypeInv, TypeOK
<1>6. /\ active' >= active
      /\ \A u \in Sessions : launched'[u] = launched[u] \/ (launched[u] = 0 /\ launched'[u] = active')
  BY <1>1, <1>3, ActiveType DEF TypeInv, TypeOK
<1>7. TypeInv'
  BY <1>1, <1>2, <1>4, <1>5, <1>6, CoordinatorType, Zenon
<1> QED
  BY <1>3, <1>7

LEMMA LaunchType ==
    ASSUME TypeInv, NEW s \in Sessions, Launch(s) PROVE TypeInv' /\ active' = active
<1>1. /\ launched[s] = 0 /\ launched' = [launched EXCEPT ![s] = active]
      /\ UNCHANGED <<policy, receipts, spent, reads, stages, call, sent>>
      /\ UNCHANGED <<attempts, rows, now>>
  BY DEF Launch, ledger, outside
<1>2. rows' \in [Handles -> ResultRows \cup {None}] /\ RowsStay
  BY <1>1 DEF TypeInv, TypeOK, RowsStay, Known
<1>3. active' = active
  BY <1>1 DEF active
<1>4. running' \in BOOLEAN
  BY Zenon DEF TypeInv, TypeOK, Launch
<1>5. launched' \in [Sessions -> Nat] /\ now' \in Nat /\ attempts' \in Seq(AttemptRows)
  BY <1>1, ActiveType DEF TypeInv, TypeOK
<1>6. /\ active' >= active
      /\ \A u \in Sessions : launched'[u] = launched[u] \/ (launched[u] = 0 /\ launched'[u] = active')
  BY <1>1, <1>3, ActiveType DEF TypeInv, TypeOK
<1>7. TypeInv'
  BY <1>1, <1>2, <1>4, <1>5, <1>6, CoordinatorType, Zenon
<1> QED
  BY <1>3, <1>7

LEMMA FinishAttemptType == ASSUME TypeInv, FinishAttempt PROVE TypeInv' /\ active' = active
<1>1. /\ attempts' \in Seq(AttemptRows) /\ active' = active
      /\ UNCHANGED <<policy, receipts, spent, reads, stages, call, sent>>
      /\ UNCHANGED <<launched, rows, now>>
  BY FinishedType DEF FinishAttempt, TypeInv, active, outside
<1>2. rows' \in [Handles -> ResultRows \cup {None}] /\ RowsStay
  BY <1>1 DEF TypeInv, TypeOK, RowsStay, Known
<1>3. running' \in BOOLEAN
  BY Zenon DEF FinishAttempt
<1>4. launched' \in [Sessions -> Nat] /\ now' \in Nat
  BY <1>1 DEF TypeInv, TypeOK
<1>5. /\ active' >= active
      /\ \A u \in Sessions : launched'[u] = launched[u] \/ (launched[u] = 0 /\ launched'[u] = active')
  BY <1>1, ActiveType DEF TypeInv, TypeOK
<1>6. TypeInv'
  BY <1>1, <1>2, <1>3, <1>4, <1>5, CoordinatorType, Zenon
<1> QED
  BY <1>1, <1>6

LEMMA StandingType ==
    ASSUME TypeInv, CoordinatorDies \/ Tick \/ UNCHANGED vars PROVE TypeInv' /\ active' = active
<1>1. /\ now' \in Nat
      /\ UNCHANGED <<policy, receipts, spent, reads, stages, call, sent>>
      /\ UNCHANGED <<attempts, launched, rows>>
  BY DEF CoordinatorDies, Tick, vars, outside, ledger, TypeInv, TypeOK
<1>2. rows' \in [Handles -> ResultRows \cup {None}] /\ RowsStay
  BY <1>1 DEF TypeInv, TypeOK, RowsStay, Known
<1>3. running' \in BOOLEAN
  BY Zenon DEF CoordinatorDies, Tick, vars, TypeInv, TypeOK
<1>4. /\ launched' \in [Sessions -> Nat] /\ attempts' \in Seq(AttemptRows)
      /\ active' = active
  BY <1>1 DEF TypeInv, TypeOK, active
<1>5. /\ active' >= active
      /\ \A u \in Sessions : launched'[u] = launched[u] \/ (launched[u] = 0 /\ launched'[u] = active')
  BY <1>1, <1>4, ActiveType DEF TypeInv, TypeOK
<1>6. TypeInv'
  BY <1>1, <1>2, <1>3, <1>4, <1>5, CoordinatorType, Zenon
<1> QED
  BY <1>4, <1>6

LEMMA OpenType == ASSUME TypeInv, NEW s \in Sessions, Open(s) PROVE TypeInv'
<1>1. /\ Goes(s, "open") /\ launched[s] > 0
      /\ UNCHANGED <<policy, attempts, running, launched, now>>
      /\ UNCHANGED <<rows, receipts, spent, sent, reads, stages>>
  BY DEF Open, ledger, outside
<1>2. /\ call' \in [Sessions -> Calls] /\ call'[s].at = "open"
      /\ \A u \in Sessions \ {s} : call'[u] = call[u]
  BY <1>1, GoesType DEF TypeInv, Labels
<1>3. TypeOK'
  BY <1>1, <1>2, Zenon DEF TypeInv, TypeOK
<1>4. CallsKnown'
  BY <1>1, <1>2 DEF TypeInv, CallsKnown, Known, Working
<1> QED
  BY <1>1, <1>3, <1>4 DEF TypeInv, LaunchedPast, ReceiptsKnown, active, Known

LEMMA FoundStep ==
    ASSUME TypeInv, NEW s \in Sessions, NEW h \in Handles, NEW a \in Articles, NEW d \in Dates,
           Found(s, h, a, d)
    PROVE  TypeInv'
<1>1. /\ Returns(s) /\ ~Known(h) /\ rows' = [rows EXCEPT ![h] = Row(launched[s], s, a, d)]
      /\ UNCHANGED <<policy, attempts, running, launched, now>>
      /\ UNCHANGED <<receipts, spent, sent, reads, stages>>
  BY DEF Found, outside
<1>2. /\ rows' \in [Handles -> ResultRows \cup {None}]
      /\ \A g \in Handles \ {h} : rows'[g] = rows[g]
  BY <1>1, FoundType DEF TypeInv, TypeOK
<1>3. RowsStay /\ ReceiptsStay /\ OnlyMoves(s)
  BY <1>1, <1>2, ReturnsMoves DEF TypeInv, RowsStay, ReceiptsStay, Known
<1>4. /\ receipts' \in [Handles -> Receipts] /\ spent' \in Int /\ sent' \in Nat
      /\ reads' \in [Articles -> Nat] /\ stages' \in [Handles -> Nat]
  BY <1>1 DEF TypeInv, TypeOK
<1> QED
  BY <1>1, <1>2, <1>3, <1>4, MoveType, Zenon

(* Of a call on a candidate: the rows, the receipts and the stages it changes. *)
LEMMA CandidateType ==
    ASSUME TypeInv, NEW s \in Sessions, OnlyMoves(s), RowsStay, ReceiptsStay,
           rows' \in [Handles -> ResultRows \cup {None}], receipts' \in [Handles -> Receipts],
           stages' \in [Handles -> Nat],
           UNCHANGED <<attempts, spent, reads, running, launched, outside>>
    PROVE  TypeInv'
<1>1. /\ UNCHANGED <<policy, attempts, running, launched, now>>
      /\ spent' \in Int /\ sent' \in Nat /\ reads' \in [Articles -> Nat]
  BY DEF TypeInv, TypeOK, outside
<1> QED
  BY <1>1, MoveType, Zenon

LEMMA BeginReusedType ==
    ASSUME TypeInv, NEW s \in Sessions, NEW h \in Handles, BeginReused(s, h)
    PROVE  TypeInv'
<1>1. /\ MayBegin(s, h) /\ Returns(s) /\ UNCHANGED stages
      /\ UNCHANGED <<attempts, spent, reads, running, launched, outside>>
  BY DEF BeginReused
<1>2. rows' \in [Handles -> ResultRows \cup {None}] /\ RowsStay /\ OnlyMoves(s) /\ Known(h)
  BY <1>1, MayBeginType, ReturnsMoves DEF TypeInv, RowsStay, Known, MayBegin
<1>3. receipts' \in [Handles -> Receipts] /\ ReceiptsStay
  <2>1. CASE UNCHANGED receipts
    BY <2>1 DEF TypeInv, TypeOK, ReceiptsStay
  <2>2. CASE \E g \in SameDate(h) :
               receipts' = [receipts EXCEPT ![h] =
                               [receipts[g] EXCEPT !.state = "superseded", !.alias = g]]
    <3>1. PICK g \in SameDate(h) :
            receipts' = [receipts EXCEPT ![h] =
                            [receipts[g] EXCEPT !.state = "superseded", !.alias = g]]
      BY <2>2
    <3>2. g \in Handles /\ receipts[g] \in Receipts
      BY <3>1 DEF SameDate, LiveRivals, Rivals, TypeInv, TypeOK
    <3>3. [receipts[g] EXCEPT !.state = "superseded", !.alias = g] \in Receipts
      BY <3>2 DEF Receipts, States
    <3> QED
      BY <1>2, <3>1, <3>3 DEF TypeInv, TypeOK, ReceiptsStay
  <2> QED
    BY <2>1, <2>2 DEF BeginReused
<1>4. stages' \in [Handles -> Nat]
  BY <1>1 DEF TypeInv, TypeOK
<1> QED
  BY <1>1, <1>2, <1>3, <1>4, CandidateType, Zenon

LEMMA BeginRefusedType ==
    ASSUME TypeInv, NEW s \in Sessions, NEW h \in Handles, BeginRefused(s, h)
    PROVE  TypeInv'
<1>1. /\ MayBegin(s, h) /\ Returns(s) /\ UNCHANGED <<receipts, stages>>
      /\ UNCHANGED <<attempts, spent, reads, running, launched, outside>>
  BY DEF BeginRefused
<1>2. rows' \in [Handles -> ResultRows \cup {None}] /\ RowsStay /\ OnlyMoves(s)
  BY <1>1, MayBeginType, ReturnsMoves DEF TypeInv, RowsStay, Known
<1>3. /\ receipts' \in [Handles -> Receipts] /\ ReceiptsStay
      /\ stages' \in [Handles -> Nat]
  BY <1>1 DEF TypeInv, TypeOK, ReceiptsStay
<1> QED
  BY <1>1, <1>2, <1>3, CandidateType, Zenon

LEMMA ReservedType ==
    ASSUME TypeOK, NEW s \in Sessions, NEW h \in Handles
    PROVE  /\ Reserved(s, h) \in [Handles -> Receipts]
           /\ Reserved(s, h)[h].state = "in_progress" /\ Reserved(s, h)[h].by = s
           /\ \A g \in Reading(h) : Reserved(s, h)[g].state = "superseded"
           /\ \A g \in Handles \ {h} : g \notin Reading(h) => Reserved(s, h)[g] = receipts[g]
<1> DEFINE mine == [NoReceipt EXCEPT !.state = "in_progress", !.by = s]
           taken == [NoReceipt EXCEPT !.state = "superseded"]
<1>1. /\ mine \in Receipts /\ mine.state = "in_progress" /\ mine.by = s
      /\ taken \in Receipts /\ taken.state = "superseded"
  BY DEF NoReceipt, Receipts, States, Stamps
<1>2. Reserved(s, h) = [g \in Handles |-> IF g = h THEN mine
                                          ELSE IF g \in Reading(h) THEN taken ELSE receipts[g]]
  BY DEF Reserved
<1>3. Reading(h) \subseteq Handles \ {h}
  BY DEF Reading, Rivals
<1> HIDE DEF mine, taken
<1> QED
  BY <1>1, <1>2, <1>3 DEF TypeOK

LEMMA BeginType ==
    ASSUME TypeInv, NEW s \in Sessions, NEW h \in Handles, Begin(s, h)
    PROVE  TypeInv'
<1>1. /\ MayBegin(s, h) /\ receipts' = Reserved(s, h) /\ stages' = [stages EXCEPT ![h] = @ + 1]
      /\ call' = [call EXCEPT ![s].at = "begun", ![s].handle = h]
      /\ UNCHANGED <<attempts, spent, reads, running, launched, outside>>
  BY DEF Begin
<1>2. /\ rows' \in [Handles -> ResultRows \cup {None}] /\ RowsStay /\ Known(h)
      /\ rows[h].attempt = launched[s] /\ call[s].at = "open"
  BY <1>1, MayBeginType DEF TypeInv, RowsStay, Known, MayBegin, At
<1>3. /\ receipts' \in [Handles -> Receipts] /\ ReceiptsStay
      /\ stages' \in [Handles -> Nat]
  <2>1. \A g \in Reading(h) : Known(g)
    BY DEF Reading, Rivals
  <2> QED
    <3>1. receipts' \in [Handles -> Receipts] /\ stages' \in [Handles -> Nat]
      BY <1>1, ReservedType DEF TypeInv, TypeOK
    <3>2. \A g \in Handles : g # h /\ g \notin Reading(h) => receipts'[g] = receipts[g]
      BY <1>1, ReservedType DEF TypeInv
    <3>3. ReceiptsStay
      BY <1>2, <2>1, <3>2 DEF ReceiptsStay
    <3> QED
      BY <3>1, <3>3
<1>4. /\ call' \in [Sessions -> Calls] /\ call'[s].at = "begun" /\ call'[s].handle = h
      /\ \A u \in Sessions \ {s} : call'[u] = call[u]
  BY <1>1 DEF TypeInv, TypeOK, Calls, Labels
<1>5. CallsKnown'
  BY <1>1, <1>2, <1>4 DEF TypeInv, CallsKnown, Known, Working, RowsStay
<1>6. TypeOK'
  BY <1>1, <1>2, <1>3, <1>4, Zenon DEF TypeInv, TypeOK, outside
<1>7. ReceiptsKnown'
  BY <1>2, <1>3, ReceiptsKnownStep
<1> QED
  BY <1>1, <1>5, <1>6, <1>7 DEF TypeInv, LaunchedPast, active

LEMMA LookType == ASSUME TypeInv, NEW s \in Sessions, Look(s) PROVE TypeInv'
<1> DEFINE h == call[s].handle
<1>1. /\ call[s].at = "begun"
      /\ UNCHANGED <<attempts, rows, receipts, spent, reads, stages, running, launched, outside>>
  BY DEF Look, At, ledger
<1>2. h \in Handles
  BY <1>1 DEF TypeInv, CallsKnown, Working
<1>3. \E evidence \in Stamps : Has(s, evidence)
  <2>1. Evidence(h, FALSE) \in Stamps
    BY <1>2, EvidenceType DEF TypeInv
  <2>2. \A g \in Reusable(h) : receipts[g].evidence \in Stamps
    BY DEF Reusable, LiveRivals, Rivals, TypeInv, TypeOK, Receipts
  <2> QED
    BY <2>1, <2>2 DEF Look
<1>4. OnlyMoves(s)
  BY <1>1, <1>3, HasMoves DEF TypeInv, Working
<1>5. /\ RowsStay /\ ReceiptsStay
      /\ rows' \in [Handles -> ResultRows \cup {None}] /\ receipts' \in [Handles -> Receipts]
      /\ stages' \in [Handles -> Nat]
  BY <1>1 DEF RowsStay, ReceiptsStay, Known, TypeInv, TypeOK
<1>6. UNCHANGED <<attempts, spent, reads, running, launched, outside>>
  BY <1>1
<1> QED
  BY <1>4, <1>5, <1>6, CandidateType, Zenon

LEMMA SizeType == ASSUME TypeInv, NEW s \in Sessions, Size(s) PROVE TypeInv'
<1>1. /\ call[s].at = "begun"
      /\ UNCHANGED <<attempts, rows, receipts, spent, reads, stages, running, launched, outside>>
  BY DEF Size, At, ledger
<1>2. OnlyMoves(s)
  <2> DEFINE left == FetchLimit - spent
             units == IF UnitCap <= left THEN UnitCap ELSE left
  <2>1. \/ units > 0 /\ call' = [call EXCEPT ![s].at = "claim", ![s].units = units]
        \/ Breaks(s)
    BY DEF Size
  <2>2. units \in Int
    BY LimitsAssumption DEF TypeInv, TypeOK
  <2>3. CASE units > 0 /\ call' = [call EXCEPT ![s].at = "claim", ![s].units = units]
    <3>1. units \in Nat
      BY <2>2, <2>3
    <3> HIDE DEF units
    <3>2. /\ call' \in [Sessions -> Calls] /\ call'[s].at = "claim"
          /\ call'[s].handle = call[s].handle
          /\ \A u \in Sessions \ {s} : call'[u] = call[u]
      BY <2>3, <3>1 DEF TypeInv, TypeOK, Calls, Labels
    <3> QED
      BY <1>1, <3>2 DEF OnlyMoves, Working
  <2>4. CASE Breaks(s)
    BY <1>1, <2>4, BreaksMoves DEF TypeInv, Working
  <2> QED
    BY <2>1, <2>3, <2>4
<1>3. /\ RowsStay /\ ReceiptsStay
      /\ rows' \in [Handles -> ResultRows \cup {None}] /\ receipts' \in [Handles -> Receipts]
      /\ stages' \in [Handles -> Nat]
  BY <1>1 DEF RowsStay, ReceiptsStay, Known, TypeInv, TypeOK
<1>4. UNCHANGED <<attempts, spent, reads, running, launched, outside>>
  BY <1>1
<1> QED
  BY <1>2, <1>3, <1>4, CandidateType, Zenon

(* Of a call that claims or answers: the numbers it changes. *)
LEMMA RequestType ==
    ASSUME TypeInv, NEW s \in Sessions, OnlyMoves(s),
           spent' \in Int, sent' \in Nat, reads' \in [Articles -> Nat],
           UNCHANGED <<attempts, rows, receipts, stages, running, launched, policy, now>>
    PROVE  TypeInv'
<1>1. /\ RowsStay /\ ReceiptsStay
      /\ rows' \in [Handles -> ResultRows \cup {None}] /\ receipts' \in [Handles -> Receipts]
      /\ stages' \in [Handles -> Nat]
  BY DEF RowsStay, ReceiptsStay, Known, TypeInv, TypeOK
<1>2. UNCHANGED <<policy, attempts, running, launched, now>>
  OBVIOUS
<1> QED
  BY <1>1, <1>2, MoveType, Zenon

LEMMA ArticleOf ==
    ASSUME TypeInv, NEW s \in Sessions, call[s].at \in Working
    PROVE  /\ call[s].handle \in Handles /\ rows[call[s].handle] \in ResultRows
           /\ rows[call[s].handle].article \in Articles
BY DEF TypeInv, TypeOK, CallsKnown, Known, ResultRows

LEMMA ClaimType == ASSUME TypeInv, NEW s \in Sessions, Claim(s) PROVE TypeInv'
<1>1. /\ call[s].at = "claim" /\ call[s].units \in Nat
      /\ UNCHANGED <<attempts, rows, receipts, stages, running, launched, policy, now>>
      /\ sent' = sent
  BY DEF Claim, At, outside, TypeInv, TypeOK, Calls
<1>2. CASE MayClaim(s)
  <2>1. /\ spent' = spent + call[s].units /\ Goes(s, "sent")
        /\ reads' = [reads EXCEPT ![rows[call[s].handle].article] = @ + 1]
    BY <1>2 DEF Claim
  <2>2. spent' \in Int /\ sent' \in Nat /\ reads' \in [Articles -> Nat]
    <3>1. rows[call[s].handle].article \in Articles
      BY <1>1, ArticleOf DEF Working
    <3>2. reads' \in [Articles -> Nat]
      BY <2>1, <3>1 DEF TypeInv, TypeOK
    <3> QED
      BY <1>1, <2>1, <3>2 DEF TypeInv, TypeOK
  <2>3. OnlyMoves(s)
    BY <1>1, <2>1, GoesMoves DEF TypeInv, Working, Labels
  <2> QED
    BY <1>1, <2>2, <2>3, RequestType, Zenon
<1>3. CASE ~MayClaim(s)
  <2>1. UNCHANGED <<spent, reads>> /\ Breaks(s)
    BY <1>3 DEF Claim
  <2>2. spent' \in Int /\ sent' \in Nat /\ reads' \in [Articles -> Nat]
    BY <1>1, <2>1 DEF TypeInv, TypeOK
  <2>3. OnlyMoves(s)
    BY <1>1, <2>1, BreaksMoves DEF TypeInv, Working
  <2> QED
    BY <1>1, <2>2, <2>3, RequestType, Zenon
<1> QED
  BY <1>2, <1>3

LEMMA AnsweredType ==
    ASSUME TypeInv, NEW s \in Sessions, NEW used \in 0..UnitCap, NEW found \in BOOLEAN,
           Answered(s, used, found)
    PROVE  TypeInv'
<1>1. /\ call[s].at = "sent" /\ call[s].units \in Nat
      /\ UNCHANGED <<attempts, rows, receipts, stages, running, launched, policy, now>>
      /\ reads' = reads /\ sent' = sent + used /\ spent' = (spent - call[s].units) + used
  BY DEF Answered, At, TypeInv, TypeOK, Calls
<1>2. spent' \in Int /\ sent' \in Nat /\ reads' \in [Articles -> Nat]
  BY <1>1, LimitsAssumption DEF TypeInv, TypeOK
<1>3. Has(s, Evidence(call[s].handle, TRUE)) \/ Breaks(s)
  BY DEF Answered
<1>4. OnlyMoves(s)
  <2>1. Evidence(call[s].handle, TRUE) \in Stamps
    BY <1>1, ArticleOf, EvidenceType DEF TypeInv, Working
  <2> QED
    BY <1>1, <1>3, <2>1, HasMoves, BreaksMoves DEF TypeInv, Working
<1> QED
  BY <1>1, <1>2, <1>4, RequestType, Zenon

LEMMA UnmeasuredType ==
    ASSUME TypeInv, NEW s \in Sessions, NEW used \in 0..UnitCap,
           Unmeasured(s, used) \/ CallDies(s, used)
    PROVE  TypeInv'
<1>1. /\ UNCHANGED <<attempts, rows, receipts, stages, running, launched, policy, now>>
      /\ spent' = spent /\ reads' = reads /\ sent' = sent + used
  BY DEF Unmeasured, CallDies, ledger
<1>2. spent' \in Int /\ sent' \in Nat /\ reads' \in [Articles -> Nat]
  BY <1>1, LimitsAssumption DEF TypeInv, TypeOK
<1>3. OnlyMoves(s)
  BY BreaksMoves, ReturnsMoves DEF Unmeasured, CallDies, TypeInv, Working, At
<1> QED
  BY <1>1, <1>2, <1>3, RequestType, Zenon

LEMMA SettledType ==
    ASSUME TypeOK, NEW h \in Handles, NEW evidence \in Stamps
    PROVE  /\ Settled(h, evidence) \in [Handles -> Receipts]
           /\ Weaker(h) => /\ Settled(h, evidence)[h].state = "superseded"
                           /\ \A g \in Handles \ {h} : Settled(h, evidence)[g] = receipts[g]
           /\ ~Weaker(h) =>
                 /\ Settled(h, evidence)[h].state = "staged"
                 /\ \A g \in Handles \ {h} :
                       /\ g \in LiveRivals(h) =>
                             /\ Settled(h, evidence)[g].state = "superseded"
                             /\ Settled(h, evidence)[g].words = receipts[g].words
                       /\ g \notin LiveRivals(h) => Settled(h, evidence)[g] = receipts[g]
<1>1. LiveRivals(h) \subseteq Handles \ {h}
  BY DEF LiveRivals, Rivals
<1>2. /\ Stored("superseded", evidence) \in Receipts /\ Stored("superseded", evidence).state = "superseded"
      /\ Stored("staged", evidence) \in Receipts /\ Stored("staged", evidence).state = "staged"
  BY StoredType DEF States
<1>3. ASSUME NEW g \in Handles
      PROVE  /\ [receipts[g] EXCEPT !.state = "superseded"] \in Receipts
             /\ [receipts[g] EXCEPT !.state = "superseded"].state = "superseded"
             /\ [receipts[g] EXCEPT !.state = "superseded"].words = receipts[g].words
  BY DEF TypeOK, Receipts, States
<1>4. CASE Weaker(h)
  <2>1. Settled(h, evidence) = [receipts EXCEPT ![h] = Stored("superseded", evidence)]
    BY <1>4 DEF Settled
  <2> QED
    BY <1>2, <1>4, <2>1 DEF TypeOK
<1>5. CASE ~Weaker(h)
  <2>1. Settled(h, evidence) = [g \in Handles |->
            IF g = h THEN Stored("staged", evidence)
            ELSE IF g \in LiveRivals(h) THEN [receipts[g] EXCEPT !.state = "superseded"]
            ELSE receipts[g]]
    BY <1>5 DEF Settled
  <2>2. Settled(h, evidence) \in [Handles -> Receipts]
    BY <1>2, <1>3, <2>1 DEF TypeOK
  <2> QED
    BY <1>1, <1>2, <1>3, <1>5, <2>1, <2>2
<1> QED
  BY <1>4, <1>5

(* Of a call that settles its candidate or finalizes one. *)
LEMMA SettlesType ==
    ASSUME TypeInv, NEW s \in Sessions, Returns(s), receipts' \in [Handles -> Receipts], ReceiptsStay,
           UNCHANGED <<attempts, rows, spent, reads, stages, running, launched, outside>>
    PROVE  TypeInv'
<1>1. /\ RowsStay /\ rows' \in [Handles -> ResultRows \cup {None}] /\ stages' \in [Handles -> Nat]
  BY DEF RowsStay, Known, TypeInv, TypeOK
<1>2. UNCHANGED <<attempts, spent, reads, running, launched, outside>>
  OBVIOUS
<1>3. OnlyMoves(s)
  BY ReturnsMoves DEF TypeInv
<1> QED
  BY <1>1, <1>2, <1>3, CandidateType, Zenon

LEMMA CompleteType == ASSUME TypeInv, NEW s \in Sessions, Complete(s) PROVE TypeInv'
<1> DEFINE h == call[s].handle
<1>1. /\ call[s].at = "have" /\ Returns(s)
      /\ UNCHANGED <<attempts, rows, spent, reads, stages, running, launched, outside>>
  BY DEF Complete, At
<1>2. h \in Handles /\ Known(h) /\ call[s].evidence \in Stamps
  BY <1>1 DEF TypeInv, TypeOK, CallsKnown, Working, Calls
<1>3. receipts' = receipts \/ receipts' = Settled(h, call[s].evidence)
  BY DEF Complete
<1>4. \A g \in LiveRivals(h) : Known(g)
  BY DEF LiveRivals, Rivals
<1>5. receipts' \in [Handles -> Receipts] /\ ReceiptsStay
  <2> HIDE DEF h
  <2>1. CASE receipts' = receipts
    BY <2>1 DEF TypeInv, TypeOK, ReceiptsStay
  <2>2. CASE receipts' = Settled(h, call[s].evidence)
    BY <1>2, <1>4, <2>2, SettledType DEF TypeInv, ReceiptsStay
  <2> QED
    BY <1>3, <2>1, <2>2
<1> QED
  BY <1>1, <1>5, SettlesType, Zenon

LEMMA FailType == ASSUME TypeInv, NEW s \in Sessions, Fail(s) PROVE TypeInv'
<1> DEFINE h == call[s].handle
           record == Stored("failed", Evidence(h, FALSE))
<1>1. /\ call[s].at = "fail" /\ Returns(s)
      /\ UNCHANGED <<attempts, rows, spent, reads, stages, running, launched, outside>>
  BY DEF Fail, At
<1>2. h \in Handles /\ Known(h)
  BY <1>1 DEF TypeInv, CallsKnown, Working
<1>3. record \in Receipts
  BY <1>2, EvidenceType, StoredType DEF TypeInv, States
<1>4. receipts' = receipts \/ receipts' = [receipts EXCEPT ![h] = record]
  BY DEF Fail
<1>5. receipts' \in [Handles -> Receipts] /\ ReceiptsStay
  <2> HIDE DEF record
  <2> QED
    BY <1>2, <1>3, <1>4 DEF TypeInv, TypeOK, ReceiptsStay
<1> QED
  BY <1>1, <1>5, SettlesType, Zenon

LEMMA AnnotatedType ==
    ASSUME TypeOK, NEW h \in Handles, NEW w \in Words
    PROVE  /\ Annotated(h, w) \in [Handles -> Receipts]
           /\ \A g \in Handles \ {h} : Annotated(h, w)[g] = receipts[g]
           /\ \/ Annotated(h, w) = receipts
              \/ /\ receipts[h].state = "staged" /\ Annotated(h, w)[h].state = "finalized"
                 /\ Annotated(h, w)[h].evidence = receipts[h].evidence
<1>1. ASSUME NEW r \in Receipts
      PROVE  /\ [r EXCEPT !.state = "finalized", !.words = w] \in Receipts
             /\ [r EXCEPT !.state = "finalized", !.words = w].state = "finalized"
             /\ [r EXCEPT !.state = "finalized", !.words = w].evidence = r.evidence
  BY DEF Receipts, States
<1>2. CASE receipts[h].state # "staged"
  BY <1>2 DEF Annotated, TypeOK
<1>3. CASE receipts[h].state = "staged"
  <2>1. Annotated(h, w) = [receipts EXCEPT ![h] = [receipts[h] EXCEPT !.state = "finalized", !.words = w]]
    BY <1>3 DEF Annotated, TypeOK
  <2>2. receipts[h] \in Receipts
    BY DEF TypeOK
  <2> QED
    BY <1>1, <1>3, <2>1, <2>2 DEF TypeOK
<1> QED
  BY <1>2, <1>3

LEMMA FinalizeType ==
    ASSUME TypeInv, NEW s \in Sessions, NEW h \in Handles, NEW w \in Words, Finalize(s, h, w)
    PROVE  TypeInv'
<1>1. /\ receipts' = Annotated(h, w) /\ Returns(s) /\ Known(h)
      /\ UNCHANGED <<attempts, rows, spent, reads, stages, running, launched, outside>>
  BY DEF Finalize, MayFinalize
<1>2. receipts' \in [Handles -> Receipts] /\ ReceiptsStay
  BY <1>1, AnnotatedType DEF TypeInv, ReceiptsStay
<1> QED
  BY <1>1, <1>2, SettlesType, Zenon

LEMMA TypeStep == TypeInv /\ [Next]_vars => TypeInv'
<1> SUFFICES ASSUME TypeInv, [Next]_vars PROVE TypeInv'
    OBVIOUS
<1>1. CASE Coordinator
  BY <1>1, StartAttemptType, RegisterSiteType, LaunchType, FinishAttemptType, StandingType DEF Coordinator
<1>2. CASE Tick \/ UNCHANGED vars
  BY <1>2, StandingType
<1>3. ASSUME NEW s \in Sessions, Staging(s) PROVE TypeInv'
  BY <1>3, BeginReusedType, BeginRefusedType, BeginType, LookType, SizeType, ClaimType,
     CompleteType, FailType, AnsweredType, UnmeasuredType
  DEF Staging
<1>4. ASSUME NEW s \in Sessions, Agent(s) PROVE TypeInv'
  BY <1>3, <1>4, OpenType, FoundStep, FinalizeType DEF Agent
<1>5. ASSUME NEW s \in Sessions, NEW used \in 0..UnitCap, CallDies(s, used) PROVE TypeInv'
  BY <1>5, UnmeasuredType
<1> QED
  BY <1>1, <1>2, <1>4, <1>5 DEF Next

\* The ledger, the rows and every tool call keep their form.
THEOREM TypeCorrect == Spec => []TypeOK
<1>1. TypeInv => TypeOK
  BY DEF TypeInv
<1> QED
  BY <1>1, TypeInit, TypeStep, PTL DEF Spec

(* ------------------------- steps that settle nothing ------------------- *)

ArticlesStay ==
    \A g \in Handles : Known(g) => Known(g)' /\ rows'[g].article = rows[g].article
NothingNew ==
    \A g \in Handles : /\ receipts'[g].state = "in_progress" => receipts[g].state = "in_progress"
                       /\ Live(g)' => Live(g)
                       /\ Verified(g)' => Verified(g)
PlacesStay ==
    \A u \in Sessions : call'[u].at \in {"begun", "claim"} =>
        /\ call[u].at \in {"begun", "claim"}
        /\ call'[u].handle = call[u].handle /\ launched'[u] = launched[u]
ClaimsStay ==
    \A u \in Sessions : call'[u].at = "claim" =>
        call[u].at = "claim" /\ call'[u].handle = call[u].handle /\ launched'[u] = launched[u]
OwnersStay ==
    \A u \in Sessions : call'[u].at \in {"begun", "claim"} /\ Owns(u) => Owns(u)' \/ launched'[u] < active'

LEMMA LiveKnown ==
    ASSUME TypeInv, NEW h \in Handles
    PROVE  Live(h) \/ receipts[h].state = "in_progress" => Known(h)
BY DEF TypeInv, ReceiptsKnown, Live

LEMMA OneLiveStays ==
    ASSUME TypeInv, OneLive, ArticlesStay, \A g \in Handles : Live(g)' => Live(g)
    PROVE  OneLive'
<1> SUFFICES ASSUME NEW h \in Handles, Live(h)', NEW g \in LiveRivals(h)' PROVE FALSE
  BY DEF OneLive
<1>1. g \in Handles \ {h} /\ rows'[g].article = rows'[h].article /\ Live(g)'
  BY DEF LiveRivals, Rivals
<1>2. Live(h) /\ Live(g) /\ Known(h) /\ Known(g)
  BY <1>1, LiveKnown
<1>3. g \in LiveRivals(h)
  BY <1>1, <1>2 DEF ArticlesStay, LiveRivals, Rivals
<1> QED
  BY <1>2, <1>3 DEF OneLive

LEMMA OneReaderStays ==
    ASSUME TypeInv, OneReader, ArticlesStay,
           \A g \in Handles : receipts'[g].state = "in_progress" => receipts[g].state = "in_progress"
    PROVE  OneReader'
<1> SUFFICES ASSUME NEW h \in Handles, receipts'[h].state = "in_progress", NEW g \in Reading(h)' PROVE FALSE
  BY DEF OneReader
<1>1. g \in Handles \ {h} /\ rows'[g].article = rows'[h].article /\ receipts'[g].state = "in_progress"
  BY DEF Reading, Rivals
<1>2. /\ receipts[h].state = "in_progress" /\ receipts[g].state = "in_progress"
      /\ Known(h) /\ Known(g)
  BY <1>1, LiveKnown
<1>3. g \in Reading(h)
  BY <1>1, <1>2 DEF ArticlesStay, Reading, Rivals
<1> QED
  BY <1>2, <1>3 DEF OneReader

LEMMA ReservationStays ==
    ASSUME TypeInv, ReservationHolds, PlacesStay, OwnersStay, active' \in Nat, active' >= active
    PROVE  ReservationHolds'
<1> SUFFICES ASSUME NEW u \in Sessions, call'[u].at \in {"begun", "claim"}
             PROVE  Owns(u)' \/ launched'[u] < active'
  BY DEF ReservationHolds
<1>1. call[u].at \in {"begun", "claim"} /\ launched'[u] = launched[u]
  BY DEF PlacesStay
<1>2. Owns(u) \/ launched[u] < active
  BY <1>1 DEF ReservationHolds
<1>3. launched[u] \in Nat /\ active \in Nat
  BY ActiveType DEF TypeInv, TypeOK
<1> QED
  BY <1>1, <1>2, <1>3 DEF OwnersStay

LEMMA UnreadStays ==
    ASSUME TypeInv, StillUnread, ArticlesStay, ClaimsStay, active' \in Nat, active' >= active,
           \A g \in Handles : Verified(g)' => Verified(g)
    PROVE  StillUnread'
<1> SUFFICES ASSUME NEW u \in Sessions, call'[u].at = "claim", launched'[u] = active',
                    NEW g \in Rivals(call[u].handle)', Verified(g)'
             PROVE  FALSE
  BY DEF StillUnread, ClaimsStay, Rivals
<1>1. call[u].at = "claim" /\ call'[u].handle = call[u].handle /\ launched'[u] = launched[u]
  BY DEF ClaimsStay
<1>2. launched[u] = active
  <2>1. launched[u] \in Nat /\ active \in Nat /\ launched[u] <= active
    BY ActiveType DEF TypeInv, TypeOK, LaunchedPast
  <2> QED
    BY <1>1, <2>1
<1> DEFINE h == call[u].handle
<1>3. h \in Handles /\ Known(h)
  BY <1>1 DEF TypeInv, CallsKnown, Working
<1>4. g \in Handles \ {h} /\ rows'[g].article = rows'[h].article
  BY <1>1 DEF Rivals
<1>5. Verified(g) /\ Known(g)
  BY <1>4, LiveKnown DEF Verified
<1>6. g \in Rivals(h)
  BY <1>3, <1>4, <1>5 DEF ArticlesStay, Rivals
<1> QED
  BY <1>1, <1>2, <1>5, <1>6 DEF StillUnread

LEMMA QuietStep ==
    ASSUME LedgerInv, TypeInv', ArticlesStay, NothingNew, PlacesStay, ClaimsStay, OwnersStay,
           active' \in Nat, active' >= active
    PROVE  LedgerInv'
<1>1. OneLive'
  BY OneLiveStays DEF LedgerInv, NothingNew
<1>2. OneReader'
  BY OneReaderStays DEF LedgerInv, NothingNew
<1>3. ReservationHolds'
  BY ReservationStays DEF LedgerInv
<1>4. StillUnread'
  BY UnreadStays DEF LedgerInv, NothingNew
<1> QED
  BY <1>1, <1>2, <1>3, <1>4 DEF LedgerInv

LEMMA ActivePrimed == TypeInv' => active' \in Nat
BY DEF TypeInv, TypeOK, active

LEMMA SameActive ==
    ASSUME TypeInv, UNCHANGED attempts PROVE active' = active /\ active' >= active
<1>1. active' = active
  BY DEF active
<1> QED
  BY <1>1, ActiveType DEF TypeInv

(* Steps of the coordinator and of time: no call moves and no receipt changes. *)
LEMMA StandingStep ==
    ASSUME LedgerInv, TypeInv', UNCHANGED <<receipts, call>>, ArticlesStay,
           active' \in {active, active + 1},
           \A u \in Sessions : launched'[u] = launched[u] \/ launched[u] = 0
    PROVE  LedgerInv'
<1>1. active \in Nat /\ active' \in Nat /\ active' >= active
  BY ActiveType DEF LedgerInv, TypeInv
<1>2. NothingNew
  BY DEF NothingNew, Live, Verified
<1>3. PlacesStay /\ ClaimsStay /\ OwnersStay
  <2>1. \A u \in Sessions : call[u].at \in {"begun", "claim"} => launched[u] > 0
    BY DEF LedgerInv, TypeInv, CallsKnown
  <2> QED
    BY <2>1 DEF PlacesStay, ClaimsStay, OwnersStay, Owns
<1> QED
  BY <1>1, <1>2, <1>3, QuietStep

LEMMA CoordinatorStep ==
    ASSUME LedgerInv, TypeInv', Coordinator \/ Tick \/ UNCHANGED vars PROVE LedgerInv'
<1> USE DEF LedgerInv
<1>1. CASE StartAttempt
  <2>1. active' = active + 1 /\ UNCHANGED <<rows, receipts, call, launched>>
    BY <1>1, StartAttemptType DEF StartAttempt
  <2> QED
    BY <2>1, StandingStep DEF ArticlesStay, Known
<1>2. ASSUME NEW h \in Handles, NEW a \in Articles, NEW d \in Dates, RegisterSite(h, a, d)
      PROVE  LedgerInv'
  <2>1. /\ active' = active /\ UNCHANGED <<receipts, call, launched>> /\ ~Known(h)
        /\ rows' = [rows EXCEPT ![h] = Row(active, None, a, d)]
    BY <1>2, RegisterSiteType DEF RegisterSite
  <2>2. ArticlesStay
    <3>1. \A g \in Handles \ {h} : rows'[g] = rows[g]
      BY <2>1 DEF TypeInv, TypeOK
    <3> QED
      BY <2>1, <3>1 DEF ArticlesStay, Known
  <2> QED
    BY <2>1, <2>2, StandingStep
<1>3. ASSUME NEW s \in Sessions, Launch(s) PROVE LedgerInv'
  <2>1. /\ active' = active /\ UNCHANGED <<rows, receipts, call>>
        /\ launched[s] = 0 /\ launched' = [launched EXCEPT ![s] = active]
    BY <1>3, LaunchType DEF Launch, ledger
  <2>2. \A u \in Sessions : launched'[u] = launched[u] \/ launched[u] = 0
    BY <2>1 DEF TypeInv, TypeOK
  <2> QED
    BY <2>1, <2>2, StandingStep DEF ArticlesStay, Known
<1>4. CASE FinishAttempt \/ CoordinatorDies \/ Tick \/ UNCHANGED vars
  <2>1. active' = active /\ UNCHANGED <<rows, receipts, call, launched>>
    BY <1>4, FinishAttemptType, StandingType
    DEF FinishAttempt, CoordinatorDies, Tick, vars, ledger
  <2> QED
    BY <2>1, StandingStep DEF ArticlesStay, Known
<1> QED
  BY <1>1, <1>2, <1>3, <1>4 DEF Coordinator

(* Steps of a call that touch no receipt but those of its own reservation. *)
LEMMA CallStep ==
    ASSUME LedgerInv, TypeInv', NEW s \in Sessions, UNCHANGED <<attempts, launched>>,
           ArticlesStay, NothingNew,
           call'[s].at \notin {"begun", "claim"},
           \A u \in Sessions \ {s} : call'[u] = call[u],
           \A u \in Sessions \ {s} : call[u].handle \in Handles /\ Owns(u) => Owns(u)'
    PROVE  LedgerInv'
<1>1. active' \in Nat /\ active' >= active
  BY ActivePrimed, SameActive DEF LedgerInv
<1>2. PlacesStay /\ ClaimsStay
  BY DEF PlacesStay, ClaimsStay
<1>3. \A u \in Sessions : call[u].at \in {"begun", "claim"} => call[u].handle \in Handles
  BY DEF LedgerInv, TypeInv, CallsKnown, Working
<1>4. OwnersStay
  BY <1>2, <1>3 DEF OwnersStay, PlacesStay
<1> QED
  BY <1>1, <1>2, <1>4, QuietStep

(* Which of these the calls are: no receipt changes. *)
LEMMA SameReceiptsStep ==
    ASSUME LedgerInv, TypeInv', NEW s \in Sessions, UNCHANGED <<attempts, launched, receipts>>,
           ArticlesStay, call'[s].at \notin {"begun", "claim"},
           \A u \in Sessions \ {s} : call'[u] = call[u]
    PROVE  LedgerInv'
<1>1. NothingNew /\ \A u \in Sessions \ {s} : Owns(u) => Owns(u)'
  BY DEF NothingNew, Live, Verified, Owns
<1> QED
  BY <1>1, CallStep

LEMMA BeginArticles ==
    ASSUME TypeInv, NEW s \in Sessions, NEW h \in Handles, MayBegin(s, h)
    PROVE  ArticlesStay
BY MayBeginType DEF TypeInv, ArticlesStay, Known

LEMMA BeginReusedStep ==
    ASSUME LedgerInv, TypeInv', NEW s \in Sessions, NEW h \in Handles, BeginReused(s, h)
    PROVE  LedgerInv'
<1>1. /\ MayBegin(s, h) /\ Returns(s) /\ UNCHANGED <<attempts, launched>>
  BY DEF BeginReused
<1>2. /\ ArticlesStay /\ call'[s].at = "idle"
      /\ \A u \in Sessions \ {s} : call'[u] = call[u]
  BY <1>1, BeginArticles, ReturnsType DEF LedgerInv, TypeInv
<1>3. CASE UNCHANGED receipts
  BY <1>1, <1>2, <1>3, SameReceiptsStep
<1>4. CASE /\ receipts[h].state # "in_progress"
           /\ \E g \in SameDate(h) : receipts' = [receipts EXCEPT ![h] =
                  [receipts[g] EXCEPT !.state = "superseded", !.alias = g]]
  <2>1. PICK g \in SameDate(h) : receipts' = [receipts EXCEPT ![h] =
                  [receipts[g] EXCEPT !.state = "superseded", !.alias = g]]
    BY <1>4
  <2>2. receipts[g] \in Receipts
    BY <2>1 DEF SameDate, LiveRivals, Rivals, LedgerInv, TypeInv, TypeOK
  <2>3. [receipts[g] EXCEPT !.state = "superseded", !.alias = g].state = "superseded"
    BY <2>2 DEF Receipts
  <2>4. receipts'[h].state = "superseded" /\ \A f \in Handles \ {h} : receipts'[f] = receipts[f]
    BY <2>1, <2>3 DEF LedgerInv, TypeInv, TypeOK
  <2>5. NothingNew
    BY <2>4 DEF NothingNew, Live, Verified
  <2>6. \A u \in Sessions \ {s} : call[u].handle \in Handles /\ Owns(u) => Owns(u)'
    <3> SUFFICES ASSUME NEW u \in Sessions \ {s}, call[u].handle \in Handles, Owns(u) PROVE Owns(u)'
      OBVIOUS
    <3>1. call'[u] = call[u] /\ call[u].handle # h
      BY <1>2, <1>4 DEF Owns
    <3> QED
      BY <2>4, <3>1 DEF Owns
  <2> QED
    BY <1>1, <1>2, <2>5, <2>6, CallStep
<1> QED
  BY <1>3, <1>4 DEF BeginReused

LEMMA SameReceiptsActions ==
    ASSUME LedgerInv, TypeInv', NEW s \in Sessions,
           \/ Open(s) \/ Look(s) \/ Claim(s)
           \/ \E h \in Handles : BeginRefused(s, h)
           \/ \E h \in Handles, a \in Articles, d \in Dates : Found(s, h, a, d)
           \/ \E used \in 0..UnitCap : Unmeasured(s, used) \/ CallDies(s, used)
           \/ \E used \in 0..UnitCap, found \in BOOLEAN : Answered(s, used, found)
    PROVE  LedgerInv'
<1> USE DEF LedgerInv
<1>1. CASE Open(s)
  <2>1. Goes(s, "open") /\ UNCHANGED <<attempts, launched, receipts, rows>>
    BY <1>1 DEF Open, ledger
  <2>2. call'[s].at = "open" /\ \A u \in Sessions \ {s} : call'[u] = call[u]
    BY <2>1, GoesType DEF TypeInv, Labels
  <2> QED
    BY <2>1, <2>2, SameReceiptsStep DEF ArticlesStay, Known
<1>2. CASE Look(s)
  <2>1. /\ UNCHANGED <<attempts, launched, receipts, rows>>
        /\ \E evidence : Has(s, evidence)
    BY <1>2 DEF Look, ledger
  <2>2. call'[s].at = "have" /\ \A u \in Sessions \ {s} : call'[u] = call[u]
    BY <2>1 DEF Has, TypeInv, TypeOK, Calls
  <2> QED
    BY <2>1, <2>2, SameReceiptsStep DEF ArticlesStay, Known
<1>3. CASE Claim(s)
  <2>1. UNCHANGED <<attempts, launched, receipts, rows>> /\ (Goes(s, "sent") \/ Breaks(s))
    BY <1>3 DEF Claim
  <2>2. call'[s].at \in {"sent", "fail"} /\ \A u \in Sessions \ {s} : call'[u] = call[u]
    BY <2>1, GoesType, BreaksType DEF TypeInv, Labels
  <2> QED
    BY <2>1, <2>2, SameReceiptsStep DEF ArticlesStay, Known
<1>4. ASSUME NEW h \in Handles, BeginRefused(s, h) PROVE LedgerInv'
  <2>1. MayBegin(s, h) /\ Returns(s) /\ UNCHANGED <<attempts, launched, receipts>>
    BY <1>4 DEF BeginRefused
  <2>2. /\ ArticlesStay /\ call'[s].at = "idle"
        /\ \A u \in Sessions \ {s} : call'[u] = call[u]
    BY <2>1, BeginArticles, ReturnsType DEF TypeInv
  <2> QED
    BY <2>1, <2>2, SameReceiptsStep
<1>5. ASSUME NEW h \in Handles, NEW a \in Articles, NEW d \in Dates, Found(s, h, a, d)
      PROVE  LedgerInv'
  <2>1. /\ Returns(s) /\ UNCHANGED <<attempts, launched, receipts>> /\ ~Known(h)
        /\ rows' = [rows EXCEPT ![h] = Row(launched[s], s, a, d)]
    BY <1>5 DEF Found
  <2>2. /\ \A g \in Handles \ {h} : rows'[g] = rows[g]
        /\ call'[s].at = "idle" /\ \A u \in Sessions \ {s} : call'[u] = call[u]
    BY <2>1, ReturnsType DEF TypeInv, TypeOK
  <2>3. ArticlesStay
    BY <2>1, <2>2 DEF ArticlesStay, Known
  <2> QED
    BY <2>1, <2>2, <2>3, SameReceiptsStep
<1>6. ASSUME NEW used \in 0..UnitCap, Unmeasured(s, used) \/ CallDies(s, used) PROVE LedgerInv'
  <2>1. UNCHANGED <<attempts, launched, receipts, rows>> /\ (Breaks(s) \/ Returns(s))
    BY <1>6 DEF Unmeasured, CallDies, ledger
  <2>2. call'[s].at \in {"idle", "fail"} /\ \A u \in Sessions \ {s} : call'[u] = call[u]
    BY <2>1, ReturnsType, BreaksType DEF TypeInv
  <2> QED
    BY <2>1, <2>2, SameReceiptsStep DEF ArticlesStay, Known
<1>7. ASSUME NEW used \in 0..UnitCap, NEW found \in BOOLEAN, Answered(s, used, found)
      PROVE  LedgerInv'
  <2>1. /\ UNCHANGED <<attempts, launched, receipts, rows>>
        /\ (\E evidence : Has(s, evidence)) \/ Breaks(s)
    BY <1>7 DEF Answered
  <2>2. call'[s].at \in {"have", "fail"} /\ \A u \in Sessions \ {s} : call'[u] = call[u]
    <3>1. ASSUME NEW evidence, Has(s, evidence)
          PROVE  call'[s].at = "have" /\ \A u \in Sessions \ {s} : call'[u] = call[u]
      BY <3>1 DEF Has, TypeInv, TypeOK, Calls
    <3> QED
      BY <2>1, <3>1, BreaksType DEF TypeInv
  <2> QED
    BY <2>1, <2>2, SameReceiptsStep DEF ArticlesStay, Known
<1> QED
  BY <1>1, <1>2, <1>3, <1>4, <1>5, <1>6, <1>7

LEMMA FinalizeStep ==
    ASSUME LedgerInv, TypeInv', NEW s \in Sessions, NEW h \in Handles, NEW w \in Words,
           Finalize(s, h, w)
    PROVE  LedgerInv'
<1>1. receipts' = Annotated(h, w) /\ Returns(s) /\ UNCHANGED <<attempts, launched, rows>>
  BY DEF Finalize
<1>2. call'[s].at = "idle" /\ \A u \in Sessions \ {s} : call'[u] = call[u]
  BY <1>1, ReturnsType DEF LedgerInv, TypeInv
<1>3. /\ \A g \in Handles \ {h} : receipts'[g] = receipts[g]
      /\ \/ receipts' = receipts
         \/ /\ receipts[h].state = "staged" /\ receipts'[h].state = "finalized"
            /\ receipts'[h].evidence = receipts[h].evidence
  BY <1>1, AnnotatedType DEF LedgerInv, TypeInv
<1>4. NothingNew
  BY <1>3 DEF NothingNew, Live, Verified
<1>5. \A u \in Sessions \ {s} : call[u].handle \in Handles /\ Owns(u) => Owns(u)'
  <2> SUFFICES ASSUME NEW u \in Sessions \ {s}, call[u].handle \in Handles, Owns(u) PROVE Owns(u)'
    OBVIOUS
  <2>1. receipts'[call[u].handle] = receipts[call[u].handle]
    BY <1>3 DEF Owns
  <2> QED
    BY <1>2, <2>1 DEF Owns
<1> QED
  BY <1>1, <1>2, <1>4, <1>5, CallStep DEF ArticlesStay, Known

LEMMA FailStep ==
    ASSUME LedgerInv, TypeInv', NEW s \in Sessions, Fail(s)
    PROVE  LedgerInv'
<1> DEFINE h == call[s].handle
           record == Stored("failed", Evidence(h, FALSE))
<1>1. /\ Returns(s) /\ UNCHANGED <<attempts, launched, rows>> /\ call[s].at = "fail"
      /\ receipts' = IF Owns(s) THEN [receipts EXCEPT ![h] = record] ELSE receipts
  BY DEF Fail, At
<1>2. call'[s].at = "idle" /\ \A u \in Sessions \ {s} : call'[u] = call[u]
  BY <1>1, ReturnsType DEF LedgerInv, TypeInv
<1>3. CASE ~Owns(s)
  BY <1>1, <1>2, <1>3, SameReceiptsStep DEF ArticlesStay, Known
<1>4. CASE Owns(s)
  <2>1. h \in Handles
    BY <1>1 DEF LedgerInv, TypeInv, CallsKnown, Working
  <2>2. record.state = "failed"
    BY <2>1, EvidenceType, StoredType DEF LedgerInv, TypeInv, States
  <2>3. receipts'[h].state = "failed" /\ \A g \in Handles \ {h} : receipts'[g] = receipts[g]
    BY <1>1, <1>4, <2>1, <2>2 DEF LedgerInv, TypeInv, TypeOK
  <2>4. NothingNew
    BY <2>3 DEF NothingNew, Live, Verified
  <2>5. \A u \in Sessions \ {s} : call[u].handle \in Handles /\ Owns(u) => Owns(u)'
    <3> SUFFICES ASSUME NEW u \in Sessions \ {s}, call[u].handle \in Handles, Owns(u) PROVE Owns(u)'
      OBVIOUS
    <3>1. call[u].handle # h
      BY <1>4 DEF Owns
    <3> QED
      BY <1>2, <2>3, <3>1 DEF Owns
  <2> QED
    BY <1>1, <1>2, <2>4, <2>5, CallStep DEF ArticlesStay, Known
<1> QED
  BY <1>3, <1>4

(* ------------------------- the three that matter ----------------------- *)

LEMMA BeginStep ==
    ASSUME LedgerInv, TypeInv', NEW s \in Sessions, NEW h \in Handles, Begin(s, h)
    PROVE  LedgerInv'
<1>1. /\ MayBegin(s, h) /\ receipts' = Reserved(s, h) /\ UNCHANGED <<attempts, launched>>
      /\ call' = [call EXCEPT ![s].at = "begun", ![s].handle = h]
      /\ ~Live(h) /\ receipts[h].state # "in_progress" /\ Blocking(s, h) = {}
  BY DEF Begin
<1>2. /\ receipts'[h].state = "in_progress" /\ receipts'[h].by = s
      /\ \A g \in Reading(h) : receipts'[g].state = "superseded"
      /\ \A g \in Handles \ {h} : g \notin Reading(h) => receipts'[g] = receipts[g]
  BY <1>1, ReservedType DEF LedgerInv, TypeInv
<1>3. /\ call'[s].at = "begun" /\ call'[s].handle = h
      /\ \A u \in Sessions \ {s} : call'[u] = call[u]
  BY <1>1 DEF LedgerInv, TypeInv, TypeOK, Calls
<1>4. ArticlesStay
  BY <1>1, BeginArticles DEF LedgerInv
<1>5. active' = active /\ active \in Nat /\ active' >= active
  BY <1>1, SameActive, ActiveType DEF LedgerInv, TypeInv
<1>6. \A g \in Handles : /\ Live(g)' => Live(g)
                         /\ Verified(g)' => Verified(g)
  BY <1>2 DEF Live, Verified
<1>7. OneLive'
  BY <1>4, <1>6, OneLiveStays DEF LedgerInv
<1>8. OneReader'
  <2> SUFFICES ASSUME NEW f \in Handles, receipts'[f].state = "in_progress", NEW g \in Reading(f)'
               PROVE  FALSE
    BY DEF OneReader
  <2>1. /\ g \in Handles \ {f} /\ rows'[g].article = rows'[f].article
        /\ receipts'[g].state = "in_progress"
    BY DEF Reading, Rivals
  <2>2. Known(h)
    BY <1>1 DEF MayBegin
  <2>3. ASSUME NEW k \in Handles \ {h}, receipts'[k].state = "in_progress"
        PROVE  receipts[k].state = "in_progress" /\ k \notin Reading(h) /\ Known(k)
    BY <1>2, <2>3, LiveKnown DEF LedgerInv
  <2>4. CASE f # h /\ g # h
    <3>1. /\ receipts[f].state = "in_progress" /\ receipts[g].state = "in_progress"
          /\ Known(f) /\ Known(g)
      BY <2>1, <2>3, <2>4
    <3>2. g \in Reading(f)
      BY <1>4, <2>1, <3>1 DEF ArticlesStay, Reading, Rivals
    <3> QED
      BY <3>1, <3>2 DEF LedgerInv, OneReader
  <2>5. ASSUME NEW k \in Handles \ {h}, receipts'[k].state = "in_progress",
               rows'[k].article = rows'[h].article
        PROVE  FALSE
    <3>1. receipts[k].state = "in_progress" /\ k \notin Reading(h) /\ Known(k)
      BY <2>3, <2>5
    <3> QED
      BY <1>4, <2>2, <2>5, <3>1 DEF ArticlesStay, Reading, Rivals
  <2> QED
    BY <2>1, <2>4, <2>5
<1>9. ReservationHolds'
  <2> SUFFICES ASSUME NEW u \in Sessions, call'[u].at \in {"begun", "claim"}
               PROVE  Owns(u)' \/ launched'[u] < active'
    BY DEF ReservationHolds
  <2>1. CASE u = s
    BY <1>2, <1>3, <2>1 DEF Owns
  <2>2. CASE u # s
    <3> DEFINE k == call[u].handle
    <3>1. /\ call'[u] = call[u] /\ k \in Handles /\ rows[k].attempt = launched[u]
          /\ Owns(u) \/ launched[u] < active
      BY <1>3, <2>2 DEF LedgerInv, TypeInv, CallsKnown, Working, ReservationHolds
    <3>2. CASE launched[u] < active
      BY <1>1, <1>5, <3>2
    <3>3. CASE Owns(u)
      <4>1. receipts[k].state = "in_progress" /\ receipts[k].by = u /\ k # h
        BY <1>1, <3>3 DEF Owns
      <4>2. CASE k \in Reading(h)
        <5>1. /\ launched[u] \in Nat /\ launched[s] \in Nat /\ launched[s] <= active
              /\ ~(rows[k].attempt >= launched[s])
          BY <1>1, <4>2 DEF Blocking, LedgerInv, TypeInv, TypeOK, LaunchedPast
        <5> QED
          BY <1>1, <1>5, <3>1, <5>1
      <4>3. CASE k \notin Reading(h)
        BY <1>2, <3>1, <4>1, <4>3 DEF Owns
      <4> QED
        BY <4>2, <4>3
    <3> QED
      BY <3>1, <3>2, <3>3
  <2> QED
    BY <2>1, <2>2
<1>10. StillUnread'
  <2>1. ClaimsStay
    BY <1>1, <1>3 DEF ClaimsStay
  <2> QED
    BY <1>4, <1>5, <1>6, <2>1, UnreadStays DEF LedgerInv
<1> QED
  BY <1>7, <1>8, <1>9, <1>10 DEF LedgerInv

LEMMA SizeStep ==
    ASSUME LedgerInv, TypeInv', NEW s \in Sessions, Size(s)
    PROVE  LedgerInv'
<1> DEFINE h == call[s].handle
<1>1. /\ call[s].at = "begun" /\ Reusable(h) = {}
      /\ UNCHANGED <<attempts, rows, receipts, launched>>
  BY DEF Size, At, ledger
<1>2. /\ call'[s].handle = h /\ call'[s].at \in {"claim", "fail"}
      /\ \A u \in Sessions \ {s} : call'[u] = call[u]
  BY DEF Size, Breaks, LedgerInv, TypeInv, TypeOK, Calls
<1>3. active' = active /\ active \in Nat /\ active' >= active
  BY <1>1, SameActive, ActiveType DEF LedgerInv, TypeInv
<1>4. ArticlesStay /\ NothingNew
  BY <1>1 DEF ArticlesStay, NothingNew, Known, Live, Verified
<1>5. OneLive' /\ OneReader'
  BY <1>4, OneLiveStays, OneReaderStays DEF LedgerInv, NothingNew
<1>6. ReservationHolds'
  <2>1. PlacesStay /\ OwnersStay
    BY <1>1, <1>2 DEF PlacesStay, OwnersStay, Owns
  <2> QED
    BY <1>3, <2>1, ReservationStays DEF LedgerInv
<1>7. StillUnread'
  <2> SUFFICES ASSUME NEW u \in Sessions, call'[u].at = "claim", launched'[u] = active',
                      NEW g \in Rivals(call[u].handle)', Verified(g)'
               PROVE  FALSE
    BY <1>2 DEF StillUnread, Rivals
  <2>1. call'[u].handle = call[u].handle /\ g \in Rivals(call[u].handle) /\ Verified(g)
    BY <1>1, <1>2 DEF Rivals, Known, Verified, Live
  <2>2. CASE u = s
    BY <1>1, <2>1, <2>2 DEF Reusable, LiveRivals, Verified
  <2>3. CASE u # s
    BY <1>1, <1>2, <1>3, <2>1, <2>3 DEF LedgerInv, StillUnread
  <2> QED
    BY <2>2, <2>3
<1> QED
  BY <1>5, <1>6, <1>7 DEF LedgerInv

LEMMA CompleteStep ==
    ASSUME LedgerInv, TypeInv', NEW s \in Sessions, Complete(s)
    PROVE  LedgerInv'
<1> DEFINE h == call[s].handle
<1>1. /\ Returns(s) /\ UNCHANGED <<attempts, rows, launched>> /\ call[s].at = "have"
      /\ receipts' = IF Owns(s) THEN Settled(h, call[s].evidence) ELSE receipts
  BY DEF Complete, At
<1>2. call'[s].at = "idle" /\ \A u \in Sessions \ {s} : call'[u] = call[u]
  BY <1>1, ReturnsType DEF LedgerInv, TypeInv
<1>3. CASE ~Owns(s)
  BY <1>1, <1>2, <1>3, SameReceiptsStep DEF ArticlesStay, Known
<1>4. CASE Owns(s)
  <2>1. h \in Handles /\ Known(h) /\ call[s].evidence \in Stamps
    BY <1>1 DEF LedgerInv, TypeInv, TypeOK, CallsKnown, Working, Calls
  <2>2. receipts[h].state = "in_progress" /\ receipts[h].by = s
    BY <1>4 DEF Owns
  <2> HIDE DEF h
  <2>3. /\ Weaker(h) => /\ receipts'[h].state = "superseded"
                        /\ \A g \in Handles \ {h} : receipts'[g] = receipts[g]
        /\ ~Weaker(h) => /\ receipts'[h].state = "staged"
                         /\ \A g \in Handles \ {h} :
                               /\ g \in LiveRivals(h) => receipts'[g].state = "superseded"
                               /\ g \notin LiveRivals(h) => receipts'[g] = receipts[g]
    BY <1>1, <1>4, <2>1, SettledType DEF LedgerInv, TypeInv
  <2>4. ArticlesStay /\ active' = active /\ active \in Nat
    BY <1>1, SameActive, ActiveType DEF ArticlesStay, Known, LedgerInv, TypeInv
  <2>5. \A g \in Handles \ {h} : /\ Live(g)' => Live(g) /\ receipts'[g] = receipts[g]
                                 /\ receipts[g].state = "in_progress" => receipts'[g] = receipts[g]
                                 /\ receipts'[g].state = "in_progress" => receipts[g].state = "in_progress"
    BY <2>3 DEF Live, LiveRivals
  <2>6. OneReader'
    <3>1. receipts'[h].state # "in_progress"
      BY <2>3
    <3> QED
      BY <2>4, <2>5, <3>1, OneReaderStays DEF LedgerInv
  <2>7. OneLive'
    <3> SUFFICES ASSUME NEW f \in Handles, Live(f)', NEW g \in LiveRivals(f)' PROVE FALSE
      BY DEF OneLive
    <3>1. g \in Handles \ {f} /\ rows[g].article = rows[f].article /\ Known(g) /\ Live(g)'
      BY <1>1 DEF LiveRivals, Rivals, Known
    <3>2. CASE f # h /\ g # h
      BY <2>5, <3>1, <3>2 DEF LedgerInv, OneLive, LiveRivals, Rivals
    <3>3. ASSUME NEW k \in Handles \ {h}, Live(k)', receipts'[h].state \in {"staged", "finalized"},
                 rows[k].article = rows[h].article, Known(k)
          PROVE  FALSE
      <4>1. Live(k)
        BY <2>5, <3>3
      <4>2. k \in LiveRivals(h)
        BY <3>3, <4>1 DEF LiveRivals, Rivals
      <4> QED
        <5>1. receipts'[k].state \in {"staged", "finalized"} /\ receipts'[h].state \in {"staged", "finalized"}
          BY <3>3 DEF Live
        <5>2. ~Weaker(h)
          BY <2>3, <5>1
        <5>3. receipts'[k].state = "superseded"
          BY <2>3, <3>3, <4>2, <5>2
        <5> QED
          BY <5>1, <5>3
    <3>4. Known(f)
      <4>1. CASE f # h
        <5>1. Live(f)
          BY <2>5, <4>1
        <5> QED
          BY <5>1, LiveKnown DEF LedgerInv
      <4> QED
        BY <2>1, <4>1
    <3> QED
      BY <2>1, <3>1, <3>2, <3>3, <3>4 DEF Live
  <2>8. ReservationHolds'
    <3> SUFFICES ASSUME NEW u \in Sessions, call'[u].at \in {"begun", "claim"}
                 PROVE  Owns(u)' \/ launched'[u] < active'
      BY DEF ReservationHolds
    <3>1. u # s /\ call'[u] = call[u] /\ call[u].handle \in Handles
      BY <1>2 DEF LedgerInv, TypeInv, CallsKnown, Working
    <3>2. Owns(u) \/ launched[u] < active
      BY <3>1 DEF LedgerInv, ReservationHolds
    <3>3. CASE Owns(u)
      BY <2>2, <2>5, <3>1, <3>3 DEF Owns
    <3> QED
      BY <1>1, <2>4, <3>2, <3>3
  <2>9. StillUnread'
    <3> SUFFICES ASSUME NEW u \in Sessions, call'[u].at = "claim", launched'[u] = active',
                        NEW g \in Rivals(call[u].handle)', Verified(g)'
                 PROVE  FALSE
      BY <1>2 DEF StillUnread, Rivals
    <3> DEFINE k == call[u].handle
    <3>1. u # s /\ call'[u] = call[u] /\ k \in Handles /\ Known(k)
      BY <1>2 DEF LedgerInv, TypeInv, CallsKnown, Working
    <3>2. launched[u] = active
      BY <1>1, <2>4
    <3>3. g \in Rivals(k)
      BY <1>1, <3>1 DEF Rivals, Known
    <3>4. Owns(u)
      BY <2>4, <3>1, <3>2 DEF LedgerInv, ReservationHolds
    <3>5. g # h
      <4> SUFFICES ASSUME g = h PROVE FALSE
        OBVIOUS
      <4>1. h \in Reading(k) /\ receipts[k].state = "in_progress"
        BY <2>2, <3>3, <3>4 DEF Reading, Owns
      <4> QED
        BY <3>1, <4>1 DEF LedgerInv, OneReader
    <3>6. Verified(g)
      BY <2>5, <3>3, <3>5 DEF Verified, Rivals, Live
    <3> QED
      BY <3>1, <3>2, <3>3, <3>6 DEF LedgerInv, StillUnread
  <2> QED
    BY <2>6, <2>7, <2>8, <2>9 DEF LedgerInv
<1> QED
  BY <1>3, <1>4

(* ------------------------- the theorems -------------------------------- *)

LEMMA LedgerInit == Init => LedgerInv
<1> SUFFICES ASSUME Init PROVE LedgerInv
    OBVIOUS
<1>1. \A h \in Handles : receipts[h].state = "none"
  BY NoReceiptType DEF Init
<1>2. \A s \in Sessions : call[s].at = "idle"
  BY NoCallType DEF Init
<1> QED
  BY <1>1, <1>2, TypeInit
  DEF LedgerInv, OneLive, OneReader, ReservationHolds, StillUnread, Live

LEMMA LedgerStep == LedgerInv /\ [Next]_vars => LedgerInv'
<1> SUFFICES ASSUME LedgerInv, [Next]_vars PROVE LedgerInv'
    OBVIOUS
<1>1. TypeInv'
  BY TypeStep DEF LedgerInv
<1>2. CASE Coordinator \/ Tick \/ UNCHANGED vars
  BY <1>1, <1>2, CoordinatorStep
<1>3. ASSUME NEW s \in Sessions, Staging(s) PROVE LedgerInv'
  BY <1>1, <1>3, BeginReusedStep, BeginStep, SizeStep, CompleteStep, FailStep, SameReceiptsActions
  DEF Staging
<1>4. ASSUME NEW s \in Sessions, Agent(s) PROVE LedgerInv'
  BY <1>1, <1>3, <1>4, FinalizeStep, SameReceiptsActions DEF Agent
<1>5. ASSUME NEW s \in Sessions, NEW used \in 0..UnitCap, CallDies(s, used) PROVE LedgerInv'
  BY <1>1, <1>5, SameReceiptsActions
<1> QED
  BY <1>2, <1>4, <1>5 DEF Next

\* complete_candidate_stage leaves one live candidate for each URL and source, even
\* when it ends a stage of an earlier attempt.
THEOREM OneLiveCandidate == Spec => []OneLive
<1>1. LedgerInv => OneLive
  BY DEF LedgerInv
<1> QED
  BY <1>1, LedgerInit, LedgerStep, PTL DEF Spec

\* begin_candidate_stage reserves an article for one stage at a time.
THEOREM OneStage == Spec => []OneReader
<1>1. LedgerInv => OneReader
  BY DEF LedgerInv
<1> QED
  BY <1>1, LedgerInit, LedgerStep, PTL DEF Spec

(* What a step may do to a live candidate. *)
Kept(h) ==
    \/ receipts'[h] = receipts[h]
    \/ receipts[h].state = "staged" /\ receipts'[h].state = "finalized"
    \/ /\ receipts'[h].state = "superseded" /\ receipts'[h].words = receipts[h].words
       /\ \E g \in Rivals(h) : receipts'[g].state = "staged" /\ RankOf(g) > RankOf(h)

LEMMA RankType == ASSUME NEW h PROVE RankOf(h) \in 0..3
<1>1. DateStatus(rows[h].day) \in
          {"unknown_pending_review", "outside_window", "eligible_unknown", "eligible"}
  BY DEF DateStatus
<1> QED
  BY <1>1 DEF RankOf, Rank

LEMMA KeptStep ==
    ASSUME LedgerInv, [Next]_vars, NEW h \in Handles, Live(h)
    PROVE  Kept(h)
<1>1. CASE Coordinator \/ Tick \/ UNCHANGED vars
  <2>1. UNCHANGED receipts
    BY <1>1 DEF Coordinator, StartAttempt, RegisterSite, Launch, FinishAttempt, CoordinatorDies,
                Tick, vars, ledger
  <2> QED
    BY <2>1 DEF Kept
<1>2. ASSUME NEW s \in Sessions, NEW k \in Handles,
             BeginReused(s, k) \/ BeginRefused(s, k) \/ Begin(s, k)
      PROVE  Kept(h)
  <2>1. CASE BeginRefused(s, k)
    BY <2>1 DEF BeginRefused, Kept
  <2>2. CASE BeginReused(s, k)
    BY <2>2 DEF BeginReused, Kept, LedgerInv, TypeInv, TypeOK
  <2>3. CASE Begin(s, k)
    <3>1. receipts' = Reserved(s, k) /\ ~Live(k)
      BY <2>3 DEF Begin
    <3>2. h # k /\ h \notin Reading(k)
      BY <3>1 DEF Live, Reading
    <3> QED
      BY <3>1, <3>2, ReservedType DEF Kept, LedgerInv, TypeInv
  <2> QED
    BY <1>2, <2>1, <2>2, <2>3
<1>3. ASSUME NEW s \in Sessions, Look(s) \/ Size(s) \/ Claim(s) \/ Open(s)
      PROVE  Kept(h)
  BY <1>3 DEF Look, Size, Claim, Open, Kept, ledger
<1>4. ASSUME NEW s \in Sessions, NEW used \in 0..UnitCap, NEW found \in BOOLEAN,
             Answered(s, used, found) \/ Unmeasured(s, used) \/ CallDies(s, used)
      PROVE  Kept(h)
  BY <1>4 DEF Answered, Unmeasured, CallDies, Kept, ledger
<1>5. ASSUME NEW s \in Sessions, NEW k \in Handles, NEW a \in Articles, NEW d \in Dates,
             Found(s, k, a, d)
      PROVE  Kept(h)
  BY <1>5 DEF Found, Kept
<1>6. ASSUME NEW s \in Sessions, NEW k \in Handles, NEW w \in Words, Finalize(s, k, w)
      PROVE  Kept(h)
  <2>1. receipts' = Annotated(k, w)
    BY <1>6 DEF Finalize
  <2> QED
    BY <2>1, AnnotatedType DEF Kept, LedgerInv, TypeInv
<1>7. ASSUME NEW s \in Sessions, Fail(s) PROVE Kept(h)
  BY <1>7 DEF Fail, Owns, Live, Kept, LedgerInv, TypeInv, TypeOK
<1>8. ASSUME NEW s \in Sessions, Complete(s) PROVE Kept(h)
  <2> DEFINE k == call[s].handle
             e == call[s].evidence
  <2>1. call[s].at = "have" /\ receipts' = IF Owns(s) THEN Settled(k, e) ELSE receipts
    BY <1>8 DEF Complete, At
  <2>2. k \in Handles /\ Known(k) /\ e \in Stamps
    BY <2>1 DEF LedgerInv, TypeInv, TypeOK, CallsKnown, Working, Calls
  <2>3. CASE ~Owns(s)
    BY <2>1, <2>3 DEF Kept
  <2>4. CASE Owns(s)
    <3>1. receipts' = Settled(k, e) /\ h # k
      BY <2>1, <2>4 DEF Owns, Live
    <3> HIDE DEF k, e
    <3>2. CASE Weaker(k) \/ h \notin LiveRivals(k)
      BY <2>2, <3>1, <3>2, SettledType DEF Kept, LedgerInv, TypeInv
    <3>3. CASE ~Weaker(k) /\ h \in LiveRivals(k)
      <4>1. /\ receipts'[h].state = "superseded" /\ receipts'[h].words = receipts[h].words
            /\ receipts'[k].state = "staged"
        BY <2>2, <3>1, <3>3, SettledType DEF LedgerInv, TypeInv
      <4>2. RankOf(k) > RankOf(h)
        BY <3>3, RankType DEF Weaker
      <4>3. k \in Rivals(h)
        BY <2>2, <3>1, <3>3 DEF LiveRivals, Rivals
      <4> QED
        BY <4>1, <4>2, <4>3 DEF Kept
    <3> QED
      BY <3>2, <3>3
  <2> QED
    BY <2>3, <2>4
<1>9. ASSUME NEW s \in Sessions, Agent(s) PROVE Kept(h)
  BY <1>2, <1>3, <1>4, <1>5, <1>6, <1>7, <1>8, <1>9 DEF Agent, Staging
<1> QED
  BY <1>1, <1>4, <1>9 DEF Next

\* A live candidate gives way only to a stronger date decision about the same article.
THEOREM DecisionsStay == Spec => DecisionStays
<1>1. LedgerInv /\ [Next]_vars =>
        (\A h \in Handles : Live(h) =>
            \/ Live(h)'
            \/ \E g \in Rivals(h) : Live(g)' /\ RankOf(g) > RankOf(h))
  <2> SUFFICES ASSUME LedgerInv, [Next]_vars, NEW h \in Handles, Live(h)
               PROVE  \/ Live(h)'
                      \/ \E g \in Rivals(h) : Live(g)' /\ RankOf(g) > RankOf(h)
    OBVIOUS
  <2> QED
    BY KeptStep DEF Kept, Live
<1> QED
  BY <1>1, LedgerInit, LedgerStep, PTL DEF Spec, DecisionStays

\* What a finalized candidate was annotated with is never replaced.
THEOREM AnnotationsStay == Spec => WordsStay
<1>1. LedgerInv /\ [Next]_vars =>
        (\A h \in Handles : receipts[h].state = "finalized" =>
            /\ receipts'[h].words = receipts[h].words
            /\ receipts'[h].state \in {"finalized", "superseded"})
  <2> SUFFICES ASSUME LedgerInv, [Next]_vars, NEW h \in Handles, receipts[h].state = "finalized"
               PROVE  /\ receipts'[h].words = receipts[h].words
                      /\ receipts'[h].state \in {"finalized", "superseded"}
    OBVIOUS
  <2>1. Live(h)
    BY DEF Live
  <2> QED
    BY <2>1, KeptStep DEF Kept
<1> QED
  BY <1>1, LedgerInit, LedgerStep, PTL DEF Spec, WordsStay

LEMMA ReadsByClaims ==
    ASSUME TypeOK, [Next]_vars, NEW a \in Articles, reads'[a] > reads[a]
    PROVE  \E s \in Sessions : Claim(s) /\ MayClaim(s)
<1>1. \A s \in Sessions : reads'[a] = reads[a] \/ (Claim(s) /\ MayClaim(s)) \/ ~Staging(s)
  BY DEF Staging, BeginReused, BeginRefused, Begin, Look, Size, Claim, Complete, Fail,
         Answered, Unmeasured, ledger
<1>2. reads[a] \in Nat
  BY DEF TypeOK
<1>3. reads' # reads
  BY <1>2
<1>4. ~Coordinator /\ ~Tick /\ ~(UNCHANGED vars)
  BY <1>3 DEF Coordinator, StartAttempt, RegisterSite, Launch, FinishAttempt, CoordinatorDies,
              Tick, vars, ledger
<1>5. \A s \in Sessions, used \in 0..UnitCap : ~CallDies(s, used)
  BY <1>3 DEF CallDies, ledger
<1>6. PICK s \in Sessions : Agent(s)
  BY <1>4, <1>5 DEF Next
<1>7. Staging(s)
  BY <1>3, <1>6 DEF Agent, Open, Found, Finalize, ledger
<1> QED
  BY <1>1, <1>2, <1>6, <1>7

LEMMA ClaimsAnUnread ==
    ASSUME LedgerInv, [Next]_vars, NEW a \in Articles, reads'[a] > reads[a],
           NEW h \in Handles, Known(h), rows[h].article = a
    PROVE  ~Verified(h)
<1>2. reads[a] \in Nat
  BY DEF LedgerInv, TypeInv, TypeOK
<1>3. PICK s \in Sessions : Claim(s) /\ MayClaim(s)
  BY ReadsByClaims DEF LedgerInv, TypeInv
<1> DEFINE k == call[s].handle
<1>4. /\ call[s].at = "claim" /\ launched[s] = active
      /\ reads' = [reads EXCEPT ![rows[k].article] = @ + 1]
  BY <1>3 DEF Claim, MayClaim, Timely, At
<1>5. k \in Handles /\ Known(k)
  BY <1>4 DEF LedgerInv, TypeInv, CallsKnown, Working
<1>6. rows[k].article = a
  BY <1>2, <1>4 DEF LedgerInv, TypeInv, TypeOK
<1>7. CASE h = k
  <2>1. Owns(s)
    <3>1. active \in Nat
      BY ActiveType DEF LedgerInv, TypeInv
    <3> QED
      BY <1>4, <3>1 DEF LedgerInv, ReservationHolds
  <2> QED
    BY <1>7, <2>1 DEF Owns, Verified, Live
<1>8. CASE h # k
  <2>1. h \in Rivals(k)
    BY <1>6, <1>8 DEF Rivals
  <2> QED
    BY <1>4, <2>1 DEF LedgerInv, StillUnread
<1> QED
  BY <1>7, <1>8

\* No request is claimed for an article whose body a live candidate already has.
THEOREM NothingIsResent == Spec => NoResend
<1>1. LedgerInv /\ [Next]_vars =>
        (\A a \in Articles : reads'[a] > reads[a] =>
            \A h \in Handles : Known(h) /\ rows[h].article = a => ~Verified(h))
  BY ClaimsAnUnread
<1> QED
  BY <1>1, LedgerInit, LedgerStep, PTL DEF Spec, NoResend

(* ------------------------- the fetch budget --------------------------- *)

InFlight == {s \in Sessions : call[s].at = "sent"}

\* The units of the budget from low up to high, without high, are s's.
Below(low, s, t) == low[s] + call[s].units <= low[t]
Shares(low) ==
    /\ \A s \in InFlight : sent <= low[s] /\ low[s] + call[s].units <= spent
    /\ \A s, t \in InFlight : s # t => Below(low, s, t) \/ Below(low, t, s)

\* Every read in flight has a share of the budget of its own, between what was
\* sent and what is spent.
Budgeted ==
    /\ sent <= spent /\ spent <= FetchLimit
    /\ \E low \in [Sessions -> Nat] : Shares(low)

\* Nothing is sent, reserved or given back.
LEMMA NoShareMoves ==
    ASSUME Budgeted, InFlight' \subseteq InFlight,
           \A t \in InFlight' : call'[t].units = call[t].units,
           sent' = sent, spent' = spent
    PROVE  Budgeted'
<1>1. PICK low \in [Sessions -> Nat] : Shares(low)
  BY DEF Budgeted
<1>2. Shares(low)'
  BY <1>1 DEF Shares, Below
<1> QED BY <1>2 DEF Budgeted

\* A claim takes the share behind all others.
LEMMA ShareTaken ==
    ASSUME TypeOK, Budgeted, NEW s \in Sessions \ InFlight,
           InFlight' \subseteq InFlight \cup {s},
           \A t \in Sessions : call'[t].units = call[t].units,
           spent' = spent + call[s].units, spent' <= FetchLimit, sent' = sent
    PROVE  Budgeted'
<1>1. PICK low \in [Sessions -> Nat] : Shares(low)
  BY DEF Budgeted
<1>2. /\ sent \in Nat /\ spent \in Nat
      /\ \A t \in Sessions : call[t].units \in Nat /\ low[t] \in Nat
  BY DEF TypeOK, Calls, Budgeted
<1>3. PICK new \in [Sessions -> Nat] : new[s] = spent /\ \A t \in Sessions \ {s} : new[t] = low[t]
  <2> DEFINE moved == [low EXCEPT ![s] = spent]
  <2>1. moved \in [Sessions -> Nat] /\ moved[s] = spent /\ \A t \in Sessions \ {s} : moved[t] = low[t]
    BY <1>2
  <2> QED BY <2>1
<1>4. ASSUME NEW t \in InFlight
      PROVE  /\ new[t] = low[t] /\ call'[t].units = call[t].units
             /\ sent <= low[t] /\ low[t] + call[t].units <= spent
  BY <1>1, <1>3, <1>4 DEF Shares, InFlight
<1>5. ASSUME NEW t \in InFlight' PROVE sent' <= new[t] /\ new[t] + call'[t].units <= spent'
  <2>1. CASE t = s
    BY <1>2, <1>3, <2>1 DEF Budgeted
  <2>2. CASE t \in InFlight
    <3>1. t \in Sessions
      BY <2>2 DEF InFlight
    <3> QED BY <1>2, <1>4, <2>2, <3>1
  <2> QED BY <1>5, <2>1, <2>2
<1>6. ASSUME NEW t \in InFlight', NEW u \in InFlight', t # u
      PROVE  new[t] + call'[t].units <= new[u] \/ new[u] + call'[u].units <= new[t]
  <2>1. CASE t = s
    BY <1>3, <1>4, <1>6, <2>1
  <2>2. CASE u = s
    BY <1>3, <1>4, <1>6, <2>2
  <2>3. CASE t # s /\ u # s
    BY <1>1, <1>4, <1>6, <2>3 DEF Shares, Below
  <2> QED BY <2>1, <2>2, <2>3
<1>7. Shares(new)'
  BY <1>5, <1>6 DEF Shares, Below
<1>8. sent' <= spent'
  BY <1>2 DEF Budgeted
<1> QED BY <1>3, <1>7, <1>8 DEF Budgeted

\* A read ends: what it used was sent, some of the rest is given back, and the
\* other shares close the gap.
LEMMA ShareReturned ==
    ASSUME TypeOK, Budgeted, NEW s \in InFlight, NEW used \in Nat, NEW freed \in Nat,
           used + freed <= call[s].units,
           InFlight' \subseteq InFlight \ {s},
           \A t \in InFlight' : call'[t].units = call[t].units,
           sent' = sent + used, spent' = spent - freed
    PROVE  Budgeted'
<1>1. PICK low \in [Sessions -> Nat] : Shares(low)
  BY DEF Budgeted
<1>2. /\ sent \in Nat /\ spent \in Int /\ InFlight \subseteq Sessions
      /\ \A t \in Sessions : call[t].units \in Nat /\ low[t] \in Nat
  BY DEF TypeOK, Calls, InFlight
<1>3. /\ sent <= low[s] /\ low[s] + call[s].units <= spent
      /\ low[s] \in Nat /\ call[s].units \in Nat
  BY <1>1, <1>2 DEF Shares
<1> DEFINE moved == [t \in Sessions |-> IF t \notin InFlight \ {s} THEN 0
                                        ELSE IF Below(low, t, s) THEN low[t] + used
                                        ELSE low[t] - freed]
<1>4. ASSUME NEW t \in InFlight \ {s}
      PROVE  /\ t \in Sessions /\ low[t] \in Nat /\ call[t].units \in Nat
             /\ sent <= low[t] /\ low[t] + call[t].units <= spent
             /\ \/ /\ low[t] + call[t].units <= low[s]
                   /\ moved[t] = low[t] + used
                \/ /\ ~(low[t] + call[t].units <= low[s])
                   /\ low[s] + call[s].units <= low[t]
                   /\ moved[t] = low[t] - freed
  <2>1. t \in Sessions /\ low[t] \in Nat /\ call[t].units \in Nat
    BY <1>2
  <2>2. sent <= low[t] /\ low[t] + call[t].units <= spent
    BY <1>1 DEF Shares
  <2>3. Below(low, t, s) \/ Below(low, s, t)
    BY <1>1 DEF Shares
  <2>4. moved[t] = IF Below(low, t, s) THEN low[t] + used ELSE low[t] - freed
    BY <2>1
  <2> HIDE DEF moved
  <2> QED BY <2>1, <2>2, <2>3, <2>4 DEF Below
<1>5. moved \in [Sessions -> Nat]
  <2> SUFFICES ASSUME NEW t \in Sessions PROVE moved[t] \in Nat
    OBVIOUS
  <2>1. CASE t \notin InFlight \ {s}
    BY <2>1
  <2>2. CASE t \in InFlight \ {s}
    <3> HIDE DEF moved
    <3> QED BY <1>3, <1>4, <2>2
  <2> QED BY <2>1, <2>2
<1> HIDE DEF moved
<1>6. PICK new \in [Sessions -> Nat] : new = moved
  BY <1>5
<1>7. ASSUME NEW t \in InFlight' PROVE sent' <= new[t] /\ new[t] + call'[t].units <= spent'
  <2>1. t \in InFlight \ {s} /\ call'[t].units = call[t].units
    BY <1>7
  <2> QED BY <1>2, <1>3, <1>4, <1>6, <2>1
<1>8. ASSUME NEW t \in InFlight', NEW u \in InFlight', t # u
      PROVE  new[t] + call'[t].units <= new[u] \/ new[u] + call'[u].units <= new[t]
  <2>1. /\ t \in InFlight \ {s} /\ call'[t].units = call[t].units
        /\ u \in InFlight \ {s} /\ call'[u].units = call[u].units
    BY <1>8
  <2>2. low[t] + call[t].units <= low[u] \/ low[u] + call[u].units <= low[t]
    BY <1>1, <1>8, <2>1 DEF Shares, Below
  <2> QED BY <1>2, <1>3, <1>4, <1>6, <2>1, <2>2
<1>9. Shares(new)'
  BY <1>7, <1>8 DEF Shares, Below
<1>10. sent' <= spent' /\ spent' <= FetchLimit
  BY <1>2, <1>3, LimitsAssumption DEF Budgeted
<1> QED BY <1>9, <1>10 DEF Budgeted

\* Steps that neither begin nor end a read.
LEMMA OtherCallsStay ==
    ASSUME TypeOK, NEW s \in Sessions, s \notin InFlight, call'[s].at # "sent",
           \A u \in Sessions \ {s} : call'[u] = call[u]
    PROVE  InFlight' \subseteq InFlight /\ \A t \in InFlight' : call'[t].units = call[t].units
BY DEF InFlight

LEMMA BudgetedStep == TypeOK /\ Budgeted /\ [Next]_vars => Budgeted'
<1> SUFFICES ASSUME TypeOK, Budgeted, [Next]_vars PROVE Budgeted'
  OBVIOUS
<1>0. /\ spent \in Int /\ sent \in Nat /\ \A s \in Sessions : call[s].units \in Nat
  BY DEF TypeOK, Calls
<1>1. ASSUME NEW s \in Sessions, s \notin InFlight, call'[s].at # "sent",
             \A u \in Sessions \ {s} : call'[u] = call[u], UNCHANGED <<sent, spent>>
      PROVE  Budgeted'
  <2>1. InFlight' \subseteq InFlight /\ \A t \in InFlight' : call'[t].units = call[t].units
    BY <1>1, OtherCallsStay
  <2> QED BY <1>1, <2>1, NoShareMoves
<1>2. CASE UNCHANGED <<sent, spent, call>>
  BY <1>2, NoShareMoves DEF InFlight
<1>3. CASE Coordinator \/ Tick \/ UNCHANGED vars
  BY <1>2, <1>3 DEF Coordinator, StartAttempt, FinishAttempt, CoordinatorDies, RegisterSite, Launch,
     Tick, vars, ledger, outside
<1>4. ASSUME NEW s \in Sessions,
             \/ Open(s) \/ Look(s) \/ Size(s) \/ Complete(s) \/ Fail(s)
             \/ \E h \in Handles : BeginReused(s, h) \/ BeginRefused(s, h) \/ Begin(s, h)
             \/ \E h \in Handles, a \in Articles, d \in Dates : Found(s, h, a, d)
             \/ \E h \in Handles, w \in Words : Finalize(s, h, w)
      PROVE  Budgeted'
  <2>1. s \notin InFlight /\ UNCHANGED <<sent, spent>>
    BY <1>4 DEF Open, Look, Size, Complete, Fail, BeginReused, BeginRefused, Begin, Found, Finalize,
       MayBegin, At, InFlight, ledger, outside
  <2>2. call'[s].at # "sent" /\ \A u \in Sessions \ {s} : call'[u] = call[u]
    <3>1. CASE Open(s)
      BY <3>1 DEF Open, Goes, TypeOK, Calls
    <3>2. CASE Look(s)
      <4>1. PICK e : Has(s, e)
        BY <3>2 DEF Look
      <4> QED BY <4>1 DEF Has, TypeOK, Calls
    <3>3. CASE Size(s)
      BY <3>3 DEF Size, Breaks, TypeOK, Calls
    <3>4. CASE \E h \in Handles : Begin(s, h)
      <4>1. PICK h \in Handles : call' = [call EXCEPT ![s].at = "begun", ![s].handle = h]
        BY <3>4 DEF Begin
      <4> QED BY <4>1 DEF TypeOK, Calls
    <3>5. CASE Returns(s)
      BY <3>5, ReturnsType
    <3> QED BY <1>4, <3>1, <3>2, <3>3, <3>4, <3>5
            DEF Complete, Fail, BeginReused, BeginRefused, Found, Finalize
  <2> QED BY <1>1, <2>1, <2>2
<1>5. ASSUME NEW s \in Sessions, Claim(s) PROVE Budgeted'
  <2>1. call[s].at = "claim" /\ s \notin InFlight /\ sent' = sent
    BY <1>5 DEF Claim, At, InFlight, outside
  <2>2. CASE MayClaim(s)
    <3>1. spent' = spent + call[s].units /\ spent' <= FetchLimit /\ call' = [call EXCEPT ![s].at = "sent"]
      BY <1>5, <2>2 DEF Claim, MayClaim, Goes
    <3>2. \A t \in Sessions : call'[t].units = call[t].units /\ (t # s => call'[t] = call[t])
      BY <3>1 DEF TypeOK, Calls
    <3>3. InFlight' \subseteq InFlight \cup {s}
      BY <3>2 DEF InFlight
    <3> QED BY <2>1, <3>1, <3>2, <3>3, ShareTaken
  <2>3. CASE ~MayClaim(s)
    <3>1. Breaks(s) /\ spent' = spent
      BY <1>5, <2>3 DEF Claim
    <3> QED BY <1>1, <2>1, <3>1, BreaksType
  <2> QED BY <2>2, <2>3
<1>6. ASSUME NEW s \in Sessions, s \in InFlight, NEW used \in 0..UnitCap, used <= call[s].units,
             NEW freed \in {0, call[s].units - used},
             call'[s].at # "sent", \A u \in Sessions \ {s} : call'[u] = call[u],
             sent' = sent + used, spent' = spent - freed
      PROVE  Budgeted'
  <2>1. used \in Nat /\ freed \in Nat /\ used + freed <= call[s].units
    BY <1>0, <1>6, LimitsAssumption
  <2>2. InFlight' \subseteq InFlight \ {s} /\ \A t \in InFlight' : call'[t].units = call[t].units
    BY <1>6 DEF InFlight
  <2> QED BY <1>6, <2>1, <2>2, ShareReturned
<1>7. ASSUME NEW s \in Sessions, NEW used \in 0..UnitCap, NEW found \in BOOLEAN, Answered(s, used, found)
      PROVE  Budgeted'
  <2>1. /\ s \in InFlight /\ used <= call[s].units /\ sent' = sent + used
        /\ spent' = (spent - call[s].units) + used
    BY <1>7 DEF Answered, At, InFlight
  <2>2. spent' = spent - (call[s].units - used)
    BY <1>0, <2>1, LimitsAssumption
  <2>3. call'[s].at # "sent" /\ \A u \in Sessions \ {s} : call'[u] = call[u]
    <3>1. CASE \E e : Has(s, e)
      BY <3>1 DEF Has, TypeOK, Calls
    <3>2. CASE Breaks(s)
      BY <3>2, BreaksType
    <3> QED BY <1>7, <3>1, <3>2 DEF Answered
  <2> QED BY <1>6, <2>1, <2>2, <2>3
<1>8. ASSUME NEW s \in Sessions, NEW used \in 0..UnitCap, Unmeasured(s, used)
      PROVE  Budgeted'
  <2>1. s \in InFlight /\ used <= call[s].units /\ sent' = sent + used /\ spent' = spent - 0
    BY <1>0, <1>8 DEF Unmeasured, At, InFlight, ledger
  <2>2. call'[s].at # "sent" /\ \A u \in Sessions \ {s} : call'[u] = call[u]
    BY <1>8, BreaksType DEF Unmeasured
  <2> QED BY <1>6, <2>1, <2>2
<1>9. ASSUME NEW s \in Sessions, NEW used \in 0..UnitCap, CallDies(s, used)
      PROVE  Budgeted'
  <2>1. call'[s].at # "sent" /\ (\A u \in Sessions \ {s} : call'[u] = call[u])
    BY <1>9, ReturnsType DEF CallDies
  <2>2. spent' = spent /\ sent' = sent + used
    BY <1>9 DEF CallDies, ledger
  <2>3. CASE s \in InFlight
    <3>1. used <= call[s].units /\ spent' = spent - 0
      BY <1>0, <1>9, <2>2, <2>3 DEF CallDies, At, InFlight
    <3> QED BY <1>6, <2>1, <2>2, <2>3, <3>1
  <2>4. CASE s \notin InFlight
    <3>1. used <= 0 /\ used \in Nat
      BY <1>9, <2>4, LimitsAssumption DEF CallDies, At, InFlight
    <3>2. sent' = sent
      BY <1>0, <2>2, <3>1
    <3> QED BY <1>1, <2>1, <2>2, <2>4, <3>2
  <2> QED BY <2>3, <2>4
<1> QED BY <1>3, <1>4, <1>5, <1>7, <1>8, <1>9 DEF Next, Agent, Staging

\* No more requests go out than the budget has, whichever reads were sized at the
\* same time, broke off or died with their reservations (claim, complete_tool).
THEOREM StaysWithinBudget == Spec => []WithinBudget
<1>1. Init => Budgeted
  <2> SUFFICES ASSUME Init PROVE Budgeted
    OBVIOUS
  <2>1. InFlight = {}
    BY NoCallType DEF Init, InFlight
  <2>2. [s \in Sessions |-> 0] \in [Sessions -> Nat]
    OBVIOUS
  <2> QED BY <2>1, <2>2, LimitsAssumption DEF Init, Budgeted, Shares
<1>2. Budgeted => WithinBudget
  BY DEF Budgeted, WithinBudget
<1> QED BY <1>1, <1>2, TypeCorrect, BudgetedStep, PTL DEF Spec

(* ------------------------- the run's time ----------------------------- *)

\* A set of numbers has a least.
LEMMA LeastIn ==
    ASSUME NEW D \in SUBSET Nat, D # {}
    PROVE  \E d \in D : \A c \in D : d <= c
<1> DEFINE R == OpToRel(<, Nat)
<1>1. PICK d \in D : \A c \in D : <<c, d>> \notin R
  BY WFMin, NatLessThanWellFounded, Zenon
<1>2. \A c \in D : ~(c < d)
  BY <1>1, Zenon DEF OpToRel
<1> QED BY <1>2

\* f holds the sums of the first numbers of d.
Accumulates(f, d, k) == f[0] = 0 /\ \A n \in 1..k : f[n] = f[n - 1] + d[n]

LEMMA SumsExist ==
    ASSUME NEW N \in Nat, NEW d \in [1..N -> Int]
    PROVE  \E f \in [0..N -> Int] : Accumulates(f, d, N)
<1> DEFINE Good(k) == \E f \in [0..N -> Int] : Accumulates(f, d, k)
           D == {k \in 0..N : ~Good(k)}
<1>1. Good(0)
  <2> DEFINE f == [n \in 0..N |-> 0]
  <2>1. f \in [0..N -> Int] /\ f[0] = 0
    OBVIOUS
  <2> HIDE DEF f
  <2> QED BY <2>1 DEF Accumulates
<1>2. ASSUME NEW m \in 1..N, Good(m - 1) PROVE Good(m)
  <2>1. PICK f \in [0..N -> Int] : Accumulates(f, d, m - 1)
    BY <1>2
  <2> DEFINE g == [f EXCEPT ![m] = f[m - 1] + d[m]]
  <2>2. /\ g \in [0..N -> Int] /\ g[m] = f[m - 1] + d[m]
        /\ \A n \in 0..(m - 1) : g[n] = f[n]
    OBVIOUS
  <2> HIDE DEF g
  <2>3. ASSUME NEW n \in 1..m PROVE g[n] = g[n - 1] + d[n]
    <3>1. CASE n = m
      BY <2>2, <3>1
    <3>2. CASE n # m
      BY <2>1, <2>2, <3>2 DEF Accumulates
    <3> QED BY <3>1, <3>2
  <2>4. g[0] = 0
    BY <2>1, <2>2 DEF Accumulates
  <2> QED BY <2>2, <2>3, <2>4 DEF Accumulates
<1> HIDE DEF Good
<1>3. D = {}
  <2> SUFFICES ASSUME D # {} PROVE FALSE
    OBVIOUS
  <2>1. D \in SUBSET Nat
    OBVIOUS
  <2>2. PICK m \in D : \A c \in D : m <= c
    BY <2>1, LeastIn
  <2>3. m \in 0..N /\ ~Good(m) /\ \A c \in 0..N : c < m => Good(c)
    BY <2>2
  <2> QED BY <1>1, <1>2, <2>3
<1>4. Good(N)
  BY <1>3
<1> QED BY <1>4 DEF Good

\* The sums are the only ones.
LEMMA SumsAgree ==
    ASSUME NEW k \in Nat, NEW d, NEW e, NEW f, NEW g,
           Accumulates(f, d, k), Accumulates(g, e, k), \A n \in 1..k : d[n] = e[n]
    PROVE  f[k] = g[k]
<1> DEFINE D == {n \in 0..k : f[n] # g[n]}
<1>1. D = {}
  <2> SUFFICES ASSUME D # {} PROVE FALSE
    OBVIOUS
  <2>1. D \in SUBSET Nat
    OBVIOUS
  <2>2. PICK m \in D : \A c \in D : m <= c
    BY <2>1, LeastIn
  <2>3. m \in 0..k /\ f[m] # g[m] /\ \A c \in 0..k : c < m => f[c] = g[c]
    BY <2>2
  <2>4. m # 0
    BY <2>3 DEF Accumulates
  <2>5. f[m - 1] = g[m - 1] /\ m \in 1..k
    BY <2>3, <2>4
  <2>6. f[m] = f[m - 1] + d[m] /\ g[m] = g[m - 1] + e[m]
    BY <2>5 DEF Accumulates
  <2> QED BY <2>3, <2>5, <2>6
<1> QED BY <1>1

LEMMA OneMore ==
    ASSUME NEW N \in Nat, NEW d, NEW e, NEW f, NEW g,
           Accumulates(f, d, N), Accumulates(g, e, N + 1), \A n \in 1..N : d[n] = e[n]
    PROVE  g[N + 1] = f[N] + e[N + 1]
<1>1. Accumulates(g, e, N)
  BY DEF Accumulates
<1>2. f[N] = g[N]
  BY <1>1, SumsAgree
<1> QED BY <1>2 DEF Accumulates

Durations(list, t) == [n \in 1..Len(list) |-> Took(list[n], t)]

LEMMA DurationsType ==
    ASSUME NEW list \in Seq(AttemptRows), NEW t \in Nat
    PROVE  /\ Len(list) \in Nat /\ Durations(list, t) \in [1..Len(list) -> Int]
           /\ \A n \in 1..Len(list) : Durations(list, t)[n] = Took(list[n], t)
<1> SUFFICES ASSUME NEW n \in 1..Len(list) PROVE Took(list[n], t) \in Int
  BY DEF Durations
<1>1. list[n] \in AttemptRows
  OBVIOUS
<1> QED BY <1>1 DEF Took, AttemptRows

\* What a run took is the last of the sums.
LEMMA RuntimeSums ==
    ASSUME NEW list \in Seq(AttemptRows), NEW t \in Nat
    PROVE  \E f \in [0..Len(list) -> Int] :
              Accumulates(f, Durations(list, t), Len(list)) /\ RuntimeOf(list, t) = f[Len(list)]
<1> DEFINE N == Len(list)
           d == Durations(list, t)
           Is(s) == s = [n \in 0..N |-> IF n = 0 THEN 0 ELSE s[n - 1] + Took(list[n], t)]
           sum == CHOOSE s : Is(s)
<1>1. N \in Nat /\ d \in [1..N -> Int] /\ \A n \in 1..N : d[n] = Took(list[n], t)
  BY DurationsType
<1>2. RuntimeOf(list, t) = sum[N]
  BY DEF RuntimeOf
<1> HIDE DEF N, d
<1>3. PICK f \in [0..N -> Int] : Accumulates(f, d, N)
  BY <1>1, SumsExist
<1>4. Is(f)
  <2>1. \A n \in 0..N : f[n] = IF n = 0 THEN 0 ELSE f[n - 1] + Took(list[n], t)
    BY <1>1, <1>3 DEF Accumulates
  <2> QED BY <2>1
<1>5. Is(sum)
  BY <1>4
<1> HIDE DEF sum
<1>6. Accumulates(sum, d, N)
  BY <1>1, <1>5 DEF Accumulates
<1>7. sum[N] = f[N]
  BY <1>1, <1>3, <1>6, SumsAgree
<1> QED BY <1>2, <1>3, <1>7 DEF N, d

LEMMA RuntimeType ==
    ASSUME NEW list \in Seq(AttemptRows), NEW t \in Nat PROVE RuntimeOf(list, t) \in Int
<1>1. PICK f \in [0..Len(list) -> Int] : RuntimeOf(list, t) = f[Len(list)]
  BY RuntimeSums
<1>2. Len(list) \in Nat
  OBVIOUS
<1> QED BY <1>1, <1>2

\* Two runs whose attempts but the last took the same differ by the last alone.
LEMMA LastDiffers ==
    ASSUME NEW list \in Seq(AttemptRows), NEW other \in Seq(AttemptRows),
           NEW t \in Nat, NEW u \in Nat, Len(list) > 0, Len(other) = Len(list),
           \A n \in 1..(Len(list) - 1) : Took(list[n], t) = Took(other[n], u)
    PROVE  RuntimeOf(list, t) - Took(list[Len(list)], t) = RuntimeOf(other, u) - Took(other[Len(list)], u)
<1>1. PICK N \in Nat : N = Len(list) /\ N > 0
  OBVIOUS
<1>2. PICK d : d = Durations(list, t)
  OBVIOUS
<1>3. PICK e : e = Durations(other, u)
  OBVIOUS
<1>4. \A n \in 1..N : d[n] = Took(list[n], t) /\ e[n] = Took(other[n], u)
  BY <1>1, <1>2, <1>3, DurationsType
<1>5. PICK f : f \in [0..N -> Int] /\ Accumulates(f, d, N) /\ RuntimeOf(list, t) = f[N]
  BY <1>1, <1>2, RuntimeSums
<1>6. PICK g : Accumulates(g, e, N) /\ RuntimeOf(other, u) = g[N]
  BY <1>1, <1>3, RuntimeSums
<1>7. f[N - 1] = g[N - 1]
  <2>1. PICK k \in Nat : k = N - 1
    BY <1>1
  <2>2. Accumulates(f, d, k) /\ Accumulates(g, e, k)
    BY <1>5, <1>6, <2>1 DEF Accumulates
  <2>3. \A n \in 1..k : d[n] = e[n]
    BY <1>1, <1>4, <2>1
  <2>4. f[k] = g[k]
    BY <2>2, <2>3, SumsAgree
  <2> QED BY <2>1, <2>4
<1>8. f[N] = f[N - 1] + d[N] /\ g[N] = g[N - 1] + e[N] /\ N \in 1..N
  BY <1>1, <1>5, <1>6 DEF Accumulates
<1>9. f[N] \in Int /\ g[N] \in Int
  BY <1>5, <1>6, RuntimeType
<1>10. d[N] \in Int /\ e[N] \in Int
  BY <1>1, <1>2, <1>3, DurationsType
<1>11. f[N - 1] \in Int
  <2>1. N - 1 \in 0..N
    BY <1>1
  <2> QED BY <1>5, <2>1
<1> QED BY <1>1, <1>4, <1>5, <1>6, <1>7, <1>8, <1>9, <1>10, <1>11

\* What a new attempt takes comes on top.
LEMMA RuntimeAppended ==
    ASSUME NEW list \in Seq(AttemptRows), NEW new \in AttemptRows, NEW t \in Nat
    PROVE  RuntimeOf(Append(list, new), t) = RuntimeOf(list, t) + Took(new, t)
<1> DEFINE more == Append(list, new)
<1>1. PICK N \in Nat : N = Len(list)
  OBVIOUS
<1>2. /\ more \in Seq(AttemptRows) /\ Len(more) = N + 1
      /\ more[N + 1] = new /\ \A n \in 1..N : more[n] = list[n]
  BY <1>1
<1> HIDE DEF more
<1>3. PICK d : d = Durations(list, t)
  OBVIOUS
<1>4. PICK e : e = Durations(more, t)
  OBVIOUS
<1>5. e[N + 1] = Took(new, t) /\ \A n \in 1..N : d[n] = e[n]
  <2>1. \A n \in 1..N : d[n] = Took(list[n], t)
    BY <1>1, <1>3, DurationsType
  <2>2. \A n \in 1..(N + 1) : e[n] = Took(more[n], t)
    BY <1>2, <1>4, DurationsType
  <2>3. N + 1 \in 1..(N + 1) /\ \A n \in 1..N : n \in 1..(N + 1)
    OBVIOUS
  <2> QED BY <1>2, <2>1, <2>2, <2>3
<1>6. PICK f : Accumulates(f, d, N) /\ RuntimeOf(list, t) = f[N]
  BY <1>1, <1>3, RuntimeSums
<1>7. PICK g : Accumulates(g, e, N + 1) /\ RuntimeOf(more, t) = g[N + 1]
  BY <1>2, <1>4, RuntimeSums
<1>8. g[N + 1] = f[N] + e[N + 1]
  BY <1>5, <1>6, <1>7, OneMore
<1> QED BY <1>5, <1>6, <1>7, <1>8 DEF more

\* Of the attempts of a list read at time t: only the last may still run, and then
\* its deadline is what the ones before it left of the run's time.
Before(list, t) == RuntimeOf(list, t) - Took(list[Len(list)], t)
Rest(used) == IF used \in 0..RuntimeLimit THEN RuntimeLimit - used ELSE 0
OnTime(list, t) ==
    Len(list) > 0 =>
        /\ \A n \in 1..(Len(list) - 1) : list[n].finished # None
        /\ list[Len(list)].started <= t
        /\ list[Len(list)].finished = None =>
              list[Len(list)].deadline = list[Len(list)].started + Rest(Before(list, t))
Timed == OnTime(attempts, now)

LEMMA LaterOnTime ==
    ASSUME NEW list \in Seq(AttemptRows), NEW t \in Nat, OnTime(list, t)
    PROVE  OnTime(list, t + 1)
<1> SUFFICES ASSUME Len(list) > 0 PROVE OnTime(list, t + 1)
  BY DEF OnTime
<1>1. /\ \A n \in 1..(Len(list) - 1) : list[n].finished # None
      /\ list[Len(list)] \in AttemptRows /\ list[Len(list)].started <= t
  BY DEF OnTime
<1>2. \A n \in 1..(Len(list) - 1) : Took(list[n], t) = Took(list[n], t + 1)
  BY <1>1 DEF Took
<1>3. Before(list, t) = Before(list, t + 1)
  BY <1>2, LastDiffers DEF Before
<1>4. list[Len(list)].started <= t + 1
  BY <1>1 DEF AttemptRows
<1> QED BY <1>1, <1>3, <1>4 DEF OnTime

\* The active attempt ends now.
LEMMA EndedOnTime ==
    ASSUME TypeOK, Timed
    PROVE  /\ OnTime(Finished, now) /\ RuntimeOf(Finished, now) = Runtime(now)
           /\ \A n \in 1..active : Finished[n].finished # None
<1>1. attempts \in Seq(AttemptRows) /\ now \in Nat /\ active \in Nat
  BY ActiveType DEF TypeOK
<1>2. Finished \in Seq(AttemptRows) /\ Len(Finished) = active
  BY FinishedType
<1>3. CASE active > 0 /\ attempts[active].finished = None
  <2>1. /\ active \in 1..Len(attempts) /\ attempts[active] \in AttemptRows
        /\ \A n \in 1..(active - 1) : attempts[n].finished # None
        /\ attempts[active].started <= now
    BY <1>1, <1>3 DEF Timed, OnTime, active
  <2>2. Finished = [attempts EXCEPT ![active].finished = now]
    BY <1>3 DEF Finished
  <2>3. \A n \in 1..(active - 1) : Finished[n] = attempts[n]
    BY <1>1, <2>2 DEF active
  <2>4. Finished[active].finished = now /\ Finished[active].started = attempts[active].started
    BY <1>1, <2>1, <2>2 DEF active, AttemptRows
  <2>5. now # None
    BY <1>1, NoneAssumption
  <2>6. Took(Finished[active], now) = Took(attempts[active], now)
    BY <1>3, <2>4, <2>5 DEF Took
  <2>7. RuntimeOf(attempts, now) - Took(attempts[active], now)
          = RuntimeOf(Finished, now) - Took(Finished[active], now)
    <3>1. \A n \in 1..(active - 1) : Took(attempts[n], now) = Took(Finished[n], now)
      BY <2>3
    <3> QED BY <1>1, <1>2, <1>3, <3>1, LastDiffers DEF active
  <2>8. RuntimeOf(Finished, now) \in Int /\ RuntimeOf(attempts, now) \in Int
    BY <1>1, <1>2, RuntimeType
  <2>9. Took(attempts[active], now) \in Int
    BY <1>1, <2>1 DEF Took, AttemptRows
  <2>10. RuntimeOf(Finished, now) = Runtime(now)
    BY <2>6, <2>7, <2>8, <2>9 DEF Runtime
  <2>11. \A n \in 1..active : Finished[n].finished # None
    BY <1>1, <2>1, <2>3, <2>4, <2>5
  <2> QED BY <1>1, <1>2, <1>3, <2>1, <2>4, <2>10, <2>11 DEF OnTime
<1>4. CASE active = 0
  BY <1>2, <1>4 DEF Finished, OnTime, Runtime
<1>5. CASE active > 0 /\ attempts[active].finished # None
  <2>1. Finished = attempts
    BY <1>5 DEF Finished
  <2>2. \A n \in 1..active : attempts[n].finished # None
    BY <1>1, <1>5 DEF Timed, OnTime, active
  <2> QED BY <2>1, <2>2 DEF Timed, Runtime
<1> QED BY <1>1, <1>3, <1>4, <1>5

\* A new attempt has what is left of the run's time.
LEMMA StartedOnTime ==
    ASSUME TypeOK, Timed,
           NEW new, new = [started |-> now, finished |-> None, deadline |-> Deadline(now)]
    PROVE  OnTime(Append(Finished, new), now)
<1>1. now \in Nat /\ active \in Nat /\ Deadline(now) \in Nat
  BY ActiveType, LeftType DEF TypeOK
<1>2. Finished \in Seq(AttemptRows) /\ Len(Finished) = active
  BY FinishedType
<1>3. new \in AttemptRows
  BY <1>1 DEF AttemptRows
<1> DEFINE more == Append(Finished, new)
<1>4. /\ Len(more) = active + 1 /\ more[active + 1] = new
      /\ \A n \in 1..active : more[n] = Finished[n]
  BY <1>1, <1>2, <1>3
<1>5. Took(new, now) = 0
  BY <1>1 DEF Took
<1>6. RuntimeOf(more, now) = Runtime(now) /\ Runtime(now) \in Int
  <2>1. RuntimeOf(more, now) = RuntimeOf(Finished, now) + Took(new, now)
    BY <1>1, <1>2, <1>3, RuntimeAppended
  <2>2. RuntimeOf(Finished, now) = Runtime(now)
    BY EndedOnTime
  <2>3. RuntimeOf(Finished, now) \in Int
    BY <1>1, <1>2, RuntimeType
  <2> QED BY <1>5, <2>1, <2>2, <2>3
<1> HIDE DEF more
<1>7. Before(more, now) = Runtime(now)
  BY <1>4, <1>5, <1>6 DEF Before
<1>8. new.deadline = new.started + Rest(Runtime(now))
  BY <1>1 DEF Deadline, Left, Rest
<1>9. \A n \in 1..active : more[n].finished # None
  BY <1>4, EndedOnTime
<1>10. OnTime(more, now)
  BY <1>1, <1>4, <1>7, <1>8, <1>9 DEF OnTime
<1> QED BY <1>10 DEF more

LEMMA TimedStep == TypeOK /\ Timed /\ [Next]_vars => Timed'
<1> SUFFICES ASSUME TypeOK, Timed, [Next]_vars PROVE Timed'
  OBVIOUS
<1>1. Timed' = OnTime(attempts', now')
  BY DEF Timed, OnTime, Before, Rest
<1>2. CASE StartAttempt
  BY <1>1, <1>2, StartedOnTime DEF StartAttempt, outside
<1>3. CASE FinishAttempt
  BY <1>1, <1>3, EndedOnTime DEF FinishAttempt, outside
<1>4. CASE Tick
  BY <1>1, <1>4, LaterOnTime DEF Tick, ledger, Timed, TypeOK
<1>5. CASE UNCHANGED <<attempts, now>>
  BY <1>1, <1>5 DEF Timed
<1>6. (CoordinatorDies \/ UNCHANGED vars
       \/ (\E h \in Handles, a \in Articles, d \in Dates : RegisterSite(h, a, d))
       \/ \E s \in Sessions : Launch(s))
      => UNCHANGED <<attempts, now>>
  BY DEF CoordinatorDies, RegisterSite, Launch, vars, ledger, outside
<1>7. ASSUME NEW s \in Sessions, Agent(s) PROVE UNCHANGED <<attempts, now>>
  BY <1>7 DEF Agent, Staging, Open, BeginReused, BeginRefused, Begin, Look, Size, Claim,
     Complete, Fail, Answered, Unmeasured, Found, Finalize, ledger, outside
<1>8. ASSUME NEW s \in Sessions, NEW used \in 0..UnitCap, CallDies(s, used)
      PROVE  UNCHANGED <<attempts, now>>
  BY <1>8 DEF CallDies, ledger
<1> QED BY <1>2, <1>3, <1>4, <1>5, <1>6, <1>7, <1>8 DEF Next, Coordinator

\* Nothing is claimed once the attempts together have used up the run's time, however
\* many there were and wherever a coordinator died without ending its own
\* (_runtime, _deadline, _check_time).
THEOREM StaysWithinRuntime == Spec => WithinRuntime
<1>1. Init => Timed
  BY DEF Init, Timed, OnTime
<1>2. TypeOK /\ Timed /\ [Next]_vars =>
        (\A a \in Articles : reads'[a] > reads[a] => Runtime(now) < RuntimeLimit)
  <2> SUFFICES ASSUME TypeOK, Timed, [Next]_vars, NEW a \in Articles, reads'[a] > reads[a]
               PROVE  Runtime(now) < RuntimeLimit
    OBVIOUS
  <2>1. PICK s \in Sessions : Claim(s) /\ MayClaim(s)
    BY ReadsByClaims
  <2> DEFINE last == attempts[active]
             before == Before(attempts, now)
  <2>2. /\ active > 0 /\ last.finished = None /\ now < last.deadline
        /\ attempts \in Seq(AttemptRows) /\ now \in Nat /\ active \in Nat
    BY <2>1, ActiveType DEF MayClaim, Timely, TypeOK
  <2>3. last \in AttemptRows
    BY <2>2 DEF active
  <2>4. last.started <= now /\ last.deadline = last.started + Rest(before)
    BY <2>2 DEF Timed, OnTime, active
  <2>5. Runtime(now) \in Int /\ Took(last, now) = now - last.started
        /\ before = Runtime(now) - Took(last, now)
    BY <2>2, <2>3, RuntimeType DEF Runtime, Took, Before, active
  <2>6. last.started \in Nat
    BY <2>3 DEF AttemptRows
  <2> HIDE DEF last, before
  <2>7. before \in Int /\ Runtime(now) = before + (now - last.started)
    BY <2>2, <2>5, <2>6
  <2>8. before \in 0..RuntimeLimit
    BY <2>2, <2>4, <2>6, <2>7 DEF Rest
  <2>9. last.deadline = last.started + (RuntimeLimit - before)
    BY <2>4, <2>8 DEF Rest
  <2> QED BY <2>2, <2>6, <2>7, <2>8, <2>9, LimitsAssumption
<1> QED BY <1>1, <1>2, TypeCorrect, TimedStep, PTL DEF Spec, WithinRuntime

(* ------------------------- where evidence comes from -------------------- *)

(* What e says of h's article is true: a body it has was read for that article and source. *)
Backed(e, h, list, claimed) ==
    e # None =>
        /\ list[h] # None
        /\ e.body => /\ e.of \in Handles /\ list[e.of] # None
                     /\ list[e.of].article = list[h].article /\ claimed[list[h].article] > 0
AliasFits(g, h, list) ==
    g # None => /\ list[h] # None /\ g \in Handles /\ list[g] # None
                /\ list[g].article = list[h].article /\ list[g].day = list[h].day

Fits(r, h) == Backed(r.evidence, h, rows, reads) /\ AliasFits(r.alias, h, rows)
Provenance == \A h \in Handles : Fits(receipts[h], h)
Carries(c) == /\ c.at = "have" => Backed(c.evidence, c.handle, rows, reads)
              /\ c.at = "sent" => reads[rows[c.handle].article] > 0
ProvenInv == TypeInv /\ Provenance /\ \A s \in Sessions : Carries(call[s])

RowsHold ==
    \A h \in Handles : rows[h] # None => /\ rows'[h] # None /\ rows'[h].article = rows[h].article
                                         /\ rows'[h].day = rows[h].day
ReadsHold == \A a \in Articles : reads'[a] >= reads[a]

LEMMA BackedHolds ==
    ASSUME TypeInv, TypeInv', RowsHold, ReadsHold, NEW h \in Handles, NEW e, Backed(e, h, rows, reads)
    PROVE  Backed(e, h, rows', reads')
<1> SUFFICES ASSUME e # None, rows[h] # None PROVE Backed(e, h, rows', reads')
  BY DEF Backed
<1>1. rows'[h] # None /\ rows'[h].article = rows[h].article /\ rows[h].article \in Articles
  BY DEF RowsHold, TypeInv, TypeOK, ResultRows
<1>2. /\ reads[rows[h].article] \in Nat /\ reads'[rows[h].article] \in Nat
      /\ reads'[rows[h].article] >= reads[rows[h].article]
  BY <1>1 DEF ReadsHold, TypeInv, TypeOK
<1>3. reads[rows[h].article] > 0 => reads'[rows[h].article] > 0
  BY <1>2
<1> QED
  BY <1>1, <1>3 DEF Backed, RowsHold

LEMMA AliasHeld ==
    ASSUME RowsHold, NEW h \in Handles, NEW g, AliasFits(g, h, rows)
    PROVE  AliasFits(g, h, rows')
BY DEF AliasFits, RowsHold

(* Which steps are left to look at: what they write fits the rows as they were. *)
LEMMA ProvenStays ==
    ASSUME TypeInv, TypeInv', RowsHold, ReadsHold, \A h \in Handles : Fits(receipts'[h], h),
           \A s \in Sessions :
               \/ call'[s] = call[s] /\ Carries(call[s])
               \/ call'[s].at \notin {"have", "sent"}
               \/ call'[s].at = "have" /\ Backed(call'[s].evidence, call'[s].handle, rows, reads)
               \/ call'[s].at = "sent" /\ reads'[rows'[call'[s].handle].article] > 0
    PROVE  ProvenInv'
<1>1. Provenance'
  <2> SUFFICES ASSUME NEW h \in Handles
               PROVE  /\ Backed(receipts'[h].evidence, h, rows', reads')
                      /\ AliasFits(receipts'[h].alias, h, rows')
    BY DEF Provenance, Fits
  <2>1. /\ Backed(receipts'[h].evidence, h, rows, reads)
        /\ AliasFits(receipts'[h].alias, h, rows)
    BY DEF Fits
  <2> QED
    BY <2>1, BackedHolds, AliasHeld
<1>2. ASSUME NEW s \in Sessions PROVE Carries(call[s])'
  <2>1. call'[s].at = "have" => call'[s].handle \in Handles
    BY DEF TypeInv, CallsKnown, Working
  <2>2. call'[s].at = "have" => Backed(call'[s].evidence, call'[s].handle, rows, reads)
    BY DEF Carries
  <2>3. call'[s].at = "have" => Backed(call'[s].evidence, call'[s].handle, rows', reads')
    BY <2>1, <2>2, BackedHolds
  <2>4. CASE call'[s].at = "sent"
    <3>1. CASE call'[s] = call[s] /\ Carries(call[s])
      <4> DEFINE k == call[s].handle
      <4>1. k \in Handles /\ rows[k] \in ResultRows /\ rows[k].article \in Articles /\ rows[k] # None
        BY <2>4, <3>1, ArticleOf DEF Working, TypeInv, CallsKnown, Known
      <4>2. reads[rows[k].article] > 0 /\ rows'[k].article = rows[k].article
        BY <2>4, <3>1, <4>1 DEF Carries, RowsHold
      <4>3. reads[rows[k].article] \in Nat /\ reads'[rows[k].article] \in Nat
        BY <4>1 DEF TypeInv, TypeOK
      <4>4. reads'[rows[k].article] >= reads[rows[k].article]
        BY <4>1 DEF ReadsHold
      <4>5. reads'[rows'[k].article] > 0
        BY <4>2, <4>3, <4>4
      <4> QED
        BY <2>4, <3>1, <4>5 DEF Carries
    <3>2. CASE reads'[rows'[call'[s].handle].article] > 0
      BY <2>4, <3>2 DEF Carries
    <3> QED
      BY <2>4, <3>1, <3>2
  <2> QED
    BY <2>3, <2>4 DEF Carries
<1> QED
  BY <1>1, <1>2 DEF ProvenInv

LEMMA SameReads ==
    ASSUME TypeInv, UNCHANGED reads PROVE ReadsHold
BY DEF TypeInv, TypeOK, ReadsHold

(* Of a step that reads nothing and ends, begins or only keeps calls. *)
LEMMA QuietProven ==
    ASSUME ProvenInv, TypeInv', RowsHold, UNCHANGED reads, \A h \in Handles : Fits(receipts'[h], h),
           \A s \in Sessions : call'[s] = call[s] \/ call'[s].at \notin {"have", "sent"}
    PROVE  ProvenInv'
<1>1. ReadsHold
  BY SameReads DEF ProvenInv
<1> QED
  BY <1>1, ProvenStays DEF ProvenInv

LEMMA StandingProven ==
    ASSUME ProvenInv, TypeInv', Coordinator \/ Tick \/ UNCHANGED vars PROVE ProvenInv'
<1>1. UNCHANGED <<receipts, reads, call>>
  BY DEF Coordinator, StartAttempt, RegisterSite, Launch, FinishAttempt, CoordinatorDies,
         Tick, vars, ledger
<1>2. RowsHold
  <2>1. ASSUME NEW h \in Handles, NEW a \in Articles, NEW d \in Dates, RegisterSite(h, a, d)
        PROVE  RowsHold
    BY <2>1 DEF RegisterSite, Known, RowsHold, ProvenInv, TypeInv, TypeOK
  <2>2. rows' = rows \/ \E h \in Handles, a \in Articles, d \in Dates : RegisterSite(h, a, d)
    BY DEF Coordinator, StartAttempt, Launch, FinishAttempt, CoordinatorDies, Tick, vars, ledger
  <2> QED
    BY <2>1, <2>2 DEF RowsHold
<1> QED
  BY <1>1, <1>2, QuietProven DEF ProvenInv, Provenance

LEMMA BeginRows ==
    ASSUME TypeInv, NEW s \in Sessions, NEW h \in Handles, MayBegin(s, h) PROVE RowsHold
BY MayBeginType DEF TypeInv, RowsHold

LEMMA BeginProven ==
    ASSUME ProvenInv, TypeInv', NEW s \in Sessions, NEW h \in Handles,
           BeginReused(s, h) \/ BeginRefused(s, h) \/ Begin(s, h)
    PROVE  ProvenInv'
<1>1. MayBegin(s, h) /\ UNCHANGED reads /\ RowsHold
  BY BeginRows DEF BeginReused, BeginRefused, Begin, ProvenInv
<1>2. \A u \in Sessions : call'[u] = call[u] \/ call'[u].at \notin {"have", "sent"}
  <2>1. CASE Returns(s)
    BY <2>1, ReturnsType DEF ProvenInv, TypeInv
  <2>2. CASE call' = [call EXCEPT ![s].at = "begun", ![s].handle = h]
    BY <2>2 DEF ProvenInv, TypeInv, TypeOK, Calls
  <2> QED
    BY <2>1, <2>2 DEF BeginReused, BeginRefused, Begin
<1>3. \A k \in Handles : Fits(receipts'[k], k)
  <2>1. CASE UNCHANGED receipts
    BY <2>1 DEF ProvenInv, Provenance
  <2>2. CASE \E g \in SameDate(h) : receipts' = [receipts EXCEPT ![h] =
                  [receipts[g] EXCEPT !.state = "superseded", !.alias = g]]
    <3>1. PICK g \in SameDate(h) : receipts' = [receipts EXCEPT ![h] =
                  [receipts[g] EXCEPT !.state = "superseded", !.alias = g]]
      BY <2>2
    <3>2. /\ g \in Handles /\ rows[g] # None /\ rows[g].article = rows[h].article
          /\ rows[g].day = rows[h].day /\ receipts[g] \in Receipts /\ rows[h] # None
      BY <1>1, <3>1 DEF SameDate, LiveRivals, Rivals, Known, MayBegin, ProvenInv, TypeInv, TypeOK
    <3>3. PICK r : r = [receipts[g] EXCEPT !.state = "superseded", !.alias = g]
      OBVIOUS
    <3>4. r.evidence = receipts[g].evidence /\ r.alias = g
      BY <3>2, <3>3 DEF Receipts
    <3>5. Backed(receipts[g].evidence, g, rows, reads)
      BY <3>2 DEF ProvenInv, Provenance, Fits
    <3>6. Fits(r, h)
      BY <3>2, <3>4, <3>5 DEF Fits, Backed, AliasFits
    <3>7. \A k \in Handles : receipts'[k] = IF k = h THEN r ELSE receipts[k]
      BY <3>1, <3>3 DEF ProvenInv, TypeInv, TypeOK
    <3> QED
      BY <3>6, <3>7 DEF ProvenInv, Provenance
  <2>3. CASE receipts' = Reserved(s, h)
    <3>1. \A k \in Handles :
             \/ receipts'[k] = receipts[k]
             \/ receipts'[k].evidence = None /\ receipts'[k].alias = None
      BY <2>3 DEF Reserved, NoReceipt
    <3> QED
      BY <3>1 DEF Fits, Backed, AliasFits, ProvenInv, Provenance
  <2> QED
    BY <2>1, <2>2, <2>3 DEF BeginReused, BeginRefused, Begin
<1> QED
  BY <1>1, <1>2, <1>3, QuietProven

LEMMA SameRows ==
    ASSUME UNCHANGED rows PROVE RowsHold
BY DEF RowsHold

(* Calls that write no receipt and end with nothing in hand. *)
LEMMA IdleProven ==
    ASSUME ProvenInv, TypeInv', NEW s \in Sessions,
           \/ Open(s) \/ Size(s)
           \/ \E h \in Handles, a \in Articles, d \in Dates : Found(s, h, a, d)
           \/ \E used \in 0..UnitCap : Unmeasured(s, used) \/ CallDies(s, used)
    PROVE  ProvenInv'
<1>1. UNCHANGED <<receipts, reads>>
  BY DEF Open, Size, Found, Unmeasured, CallDies, ledger
<1>2. RowsHold
  <2>1. ASSUME NEW h \in Handles, NEW a \in Articles, NEW d \in Dates, Found(s, h, a, d)
        PROVE  RowsHold
    BY <2>1 DEF Found, Known, RowsHold, ProvenInv, TypeInv, TypeOK
  <2>2. rows' = rows \/ \E h \in Handles, a \in Articles, d \in Dates : Found(s, h, a, d)
    BY DEF Open, Size, Unmeasured, CallDies, ledger
  <2> QED
    BY <2>1, <2>2 DEF RowsHold
<1>3. \A u \in Sessions : call'[u] = call[u] \/ call'[u].at \notin {"have", "sent"}
  <2>1. CASE Returns(s)
    BY <2>1, ReturnsType DEF ProvenInv, TypeInv
  <2>2. CASE Breaks(s)
    BY <2>2, BreaksType DEF ProvenInv, TypeInv
  <2>3. CASE Goes(s, "open")
    BY <2>3, GoesType DEF ProvenInv, TypeInv, Labels
  <2>4. CASE \E units : call' = [call EXCEPT ![s].at = "claim", ![s].units = units]
    BY <2>4 DEF ProvenInv, TypeInv, TypeOK, Calls
  <2> QED
    BY <2>1, <2>2, <2>3, <2>4 DEF Open, Size, Found, Unmeasured, CallDies
<1> QED
  BY <1>1, <1>2, <1>3, QuietProven DEF ProvenInv, Provenance

LEMMA FinalizeProven ==
    ASSUME ProvenInv, TypeInv', NEW s \in Sessions, NEW h \in Handles, NEW w \in Words,
           Finalize(s, h, w)
    PROVE  ProvenInv'
<1>1. receipts' = Annotated(h, w) /\ Returns(s) /\ UNCHANGED <<reads, rows>>
  BY DEF Finalize
<1>2. \A k \in Handles : receipts'[k].evidence = receipts[k].evidence
                         /\ receipts'[k].alias = receipts[k].alias
  <2> SUFFICES ASSUME NEW k \in Handles
               PROVE  /\ receipts'[k].evidence = receipts[k].evidence
                      /\ receipts'[k].alias = receipts[k].alias
    OBVIOUS
  <2>1. PICK r \in Receipts : r = receipts[h]
    BY DEF ProvenInv, TypeInv, TypeOK
  <2>2. PICK q : q = [r EXCEPT !.state = "finalized", !.words = w]
    OBVIOUS
  <2>3. q.evidence = r.evidence /\ q.alias = r.alias
    BY <2>2 DEF Receipts
  <2>4. receipts' = receipts \/ receipts' = [receipts EXCEPT ![h] = q]
    BY <1>1, <2>1, <2>2 DEF Annotated, ProvenInv, TypeInv, TypeOK
  <2> QED
    BY <2>1, <2>3, <2>4 DEF ProvenInv, TypeInv, TypeOK
<1>3. \A u \in Sessions : call'[u] = call[u] \/ call'[u].at \notin {"have", "sent"}
  BY <1>1, ReturnsType DEF ProvenInv, TypeInv
<1> QED
  BY <1>1, <1>2, <1>3, SameRows, QuietProven DEF ProvenInv, Provenance, Fits

LEMMA StoredFits ==
    ASSUME NEW h \in Handles, NEW state \in States, NEW e \in Stamps, Backed(e, h, rows, reads)
    PROVE  Fits(Stored(state, e), h)
BY StoredType DEF Stored, NoReceipt, Fits, AliasFits

LEMMA SettledFrom ==
    ASSUME TypeOK, NEW h \in Handles, NEW e, NEW k \in Handles
    PROVE  \/ Settled(h, e)[k] = receipts[k]
           \/ Settled(h, e)[k] = [receipts[k] EXCEPT !.state = "superseded"]
           \/ k = h /\ Settled(h, e)[k] \in {Stored("superseded", e), Stored("staged", e)}
<1>1. PICK q : q = [receipts[k] EXCEPT !.state = "superseded"]
  OBVIOUS
<1>2. PICK r, t : r = Stored("superseded", e) /\ t = Stored("staged", e)
  OBVIOUS
<1>3. CASE Weaker(h)
  <2>1. Settled(h, e) = [receipts EXCEPT ![h] = r]
    BY <1>2, <1>3 DEF Settled
  <2>2. Settled(h, e)[k] = receipts[k] \/ (k = h /\ Settled(h, e)[k] = r)
    BY <2>1 DEF TypeOK
  <2> QED
    BY <1>2, <2>2
<1>4. CASE ~Weaker(h)
  <2>1. Settled(h, e)[k] = IF k = h THEN t ELSE IF k \in LiveRivals(h) THEN q ELSE receipts[k]
    BY <1>1, <1>2, <1>4 DEF Settled
  <2> QED
    BY <1>1, <1>2, <2>1
<1> QED
  BY <1>3, <1>4

LEMMA SettlesProven ==
    ASSUME ProvenInv, TypeInv', NEW s \in Sessions, Complete(s) \/ Fail(s)
    PROVE  ProvenInv'
<1> DEFINE h == call[s].handle
<1>1. /\ Returns(s) /\ UNCHANGED <<reads, rows>> /\ call[s].at \in {"have", "fail"}
      /\ call[s].at = "have" => Complete(s)
      /\ call[s].at = "fail" => Fail(s)
  BY DEF Complete, Fail, At
<1>2. h \in Handles /\ rows[h] # None /\ call[s].evidence \in Stamps
  BY <1>1 DEF ProvenInv, TypeInv, TypeOK, CallsKnown, Working, Known, Calls
<1>3. \A k \in Handles : Fits(receipts'[k], k)
  <2>1. CASE UNCHANGED receipts
    BY <2>1 DEF ProvenInv, Provenance
  <2>2. CASE call[s].at = "fail" /\ receipts' # receipts
    <3>1. receipts' = [receipts EXCEPT ![h] = Stored("failed", Evidence(h, FALSE))]
      BY <1>1, <2>2 DEF Fail
    <3>2. Evidence(h, FALSE) \in Stamps /\ Backed(Evidence(h, FALSE), h, rows, reads)
      BY <1>2, EvidenceType DEF Evidence, Backed, ProvenInv, TypeInv
    <3>3. PICK r : r = Stored("failed", Evidence(h, FALSE))
      OBVIOUS
    <3>4. Fits(r, h)
      BY <1>2, <3>2, <3>3, StoredFits DEF States
    <3>5. \A k \in Handles : receipts'[k] = IF k = h THEN r ELSE receipts[k]
      BY <3>1, <3>3 DEF ProvenInv, TypeInv, TypeOK
    <3> QED
      BY <3>4, <3>5 DEF ProvenInv, Provenance
  <2>3. CASE call[s].at = "have" /\ receipts' # receipts
    <3>1. receipts' = Settled(h, call[s].evidence)
      BY <1>1, <2>3 DEF Complete
    <3>2. Backed(call[s].evidence, h, rows, reads)
      BY <2>3 DEF ProvenInv, Carries
    <3>3. /\ Fits(Stored("superseded", call[s].evidence), h)
          /\ Fits(Stored("staged", call[s].evidence), h)
      BY <1>2, <3>2, StoredFits DEF States
    <3>4. ASSUME NEW k \in Handles PROVE Fits([receipts[k] EXCEPT !.state = "superseded"], k)
      <4>1. receipts[k] \in Receipts /\ Fits(receipts[k], k)
        BY DEF ProvenInv, Provenance, TypeInv, TypeOK
      <4> QED
        BY <4>1 DEF Receipts, Fits
    <3>5. ASSUME NEW k \in Handles PROVE Fits(receipts'[k], k)
      <4>1. \/ receipts'[k] = receipts[k]
            \/ receipts'[k] = [receipts[k] EXCEPT !.state = "superseded"]
            \/ k = h /\ receipts'[k] \in {Stored("superseded", call[s].evidence),
                                          Stored("staged", call[s].evidence)}
        BY <1>2, <3>1, SettledFrom DEF ProvenInv, TypeInv
      <4>2. PICK r : r = receipts'[k]
        OBVIOUS
      <4>3. CASE r = receipts[k]
        BY <4>2, <4>3 DEF ProvenInv, Provenance
      <4>4. CASE r = [receipts[k] EXCEPT !.state = "superseded"]
        BY <3>4, <4>2, <4>4
      <4>5. CASE k = h /\ r \in {Stored("superseded", call[s].evidence), Stored("staged", call[s].evidence)}
        BY <3>3, <4>2, <4>5
      <4> QED
        BY <4>1, <4>2, <4>3, <4>4, <4>5
    <3> QED
      BY <3>5
  <2> QED
    BY <1>1, <2>1, <2>2, <2>3
<1>4. \A u \in Sessions : call'[u] = call[u] \/ call'[u].at \notin {"have", "sent"}
  BY <1>1, ReturnsType DEF ProvenInv, TypeInv
<1> QED
  BY <1>1, <1>3, <1>4, SameRows, QuietProven

(* What a call takes in hand: an exclusion, a rival's body, or what it has just read. *)
LEMMA TakenProven ==
    ASSUME ProvenInv, TypeInv', NEW s \in Sessions, NEW e \in Stamps, Has(s, e),
           Backed(e, call[s].handle, rows, reads), UNCHANGED <<rows, receipts, reads>>
    PROVE  ProvenInv'
<1>1. /\ call'[s].at = "have" /\ call'[s].handle = call[s].handle
      /\ \A u \in Sessions \ {s} : call'[u] = call[u]
  BY HasType DEF ProvenInv, TypeInv
<1>2. call'[s].evidence = e
  BY DEF Has, ProvenInv, TypeInv, TypeOK, Calls
<1>3. RowsHold /\ ReadsHold /\ \A h \in Handles : Fits(receipts'[h], h)
  BY SameRows, SameReads DEF ProvenInv, Provenance
<1>4. \A u \in Sessions \ {s} : call'[u] = call[u] /\ Carries(call[u])
  BY <1>1 DEF ProvenInv
<1> QED
  BY <1>1, <1>2, <1>3, <1>4, ProvenStays DEF ProvenInv

LEMMA LookProven ==
    ASSUME ProvenInv, TypeInv', NEW s \in Sessions, Look(s) PROVE ProvenInv'
<1>1. call[s].at = "begun" /\ UNCHANGED <<rows, receipts, reads>>
  BY DEF Look, At, ledger
<1>2. PICK h \in Handles : h = call[s].handle /\ rows[h] # None
  BY <1>1 DEF ProvenInv, TypeInv, CallsKnown, Working, Known
<1>3. CASE Has(s, Evidence(h, FALSE))
  <2>1. Evidence(h, FALSE) \in Stamps /\ Backed(Evidence(h, FALSE), h, rows, reads)
    BY <1>2, EvidenceType DEF Evidence, Backed, ProvenInv, TypeInv
  <2> QED
    BY <1>1, <1>2, <1>3, <2>1, TakenProven
<1>4. ASSUME NEW g \in Reusable(h), Has(s, receipts[g].evidence) PROVE ProvenInv'
  <2>1. g \in Handles /\ rows[g] # None /\ rows[g].article = rows[h].article
    BY DEF Reusable, LiveRivals, Rivals, Known
  <2>2. receipts[g].evidence \in Stamps /\ Backed(receipts[g].evidence, g, rows, reads)
    BY <2>1 DEF ProvenInv, Provenance, Fits, TypeInv, TypeOK, Receipts
  <2>3. Backed(receipts[g].evidence, h, rows, reads)
    BY <1>2, <2>1, <2>2 DEF Backed
  <2> QED
    BY <1>1, <1>2, <1>4, <2>2, <2>3, TakenProven
<1> QED
  BY <1>2, <1>3, <1>4 DEF Look

LEMMA ClaimProven ==
    ASSUME ProvenInv, TypeInv', NEW s \in Sessions, Claim(s) PROVE ProvenInv'
<1>1. call[s].at = "claim" /\ UNCHANGED <<rows, receipts>>
  BY DEF Claim, At
<1>2. RowsHold /\ \A h \in Handles : Fits(receipts'[h], h)
  BY <1>1, SameRows DEF ProvenInv, Provenance
<1>3. CASE ~MayClaim(s)
  <2>1. Breaks(s) /\ UNCHANGED reads
    BY <1>3 DEF Claim
  <2>2. \A u \in Sessions : call'[u] = call[u] \/ call'[u].at \notin {"have", "sent"}
    BY <2>1, BreaksType DEF ProvenInv, TypeInv
  <2> QED
    BY <1>2, <2>1, <2>2, QuietProven
<1>4. CASE MayClaim(s)
  <2>1. PICK a \in Articles : a = rows[call[s].handle].article
    BY <1>1, ArticleOf DEF ProvenInv, Working
  <2>2. Goes(s, "sent") /\ reads' = [reads EXCEPT ![a] = @ + 1]
    BY <1>4, <2>1 DEF Claim
  <2>3. reads' = [b \in Articles |-> IF b = a THEN reads[b] + 1 ELSE reads[b]]
        /\ \A b \in Articles : reads[b] \in Nat
    BY <2>2 DEF ProvenInv, TypeInv, TypeOK
  <2>4. ReadsHold /\ reads'[a] > 0
    BY <2>3 DEF ReadsHold
  <2>5. /\ call'[s].at = "sent" /\ call'[s].handle = call[s].handle
        /\ \A u \in Sessions \ {s} : call'[u] = call[u]
    BY <2>2, GoesType DEF ProvenInv, TypeInv, Labels
  <2>6. reads'[rows'[call'[s].handle].article] > 0
    BY <1>1, <2>1, <2>4, <2>5
  <2>7. \A u \in Sessions \ {s} : call'[u] = call[u] /\ Carries(call[u])
    BY <2>5 DEF ProvenInv
  <2> QED
    BY <1>2, <2>4, <2>5, <2>6, <2>7, ProvenStays DEF ProvenInv
<1> QED
  BY <1>3, <1>4

LEMMA AnsweredProven ==
    ASSUME ProvenInv, TypeInv', NEW s \in Sessions, NEW used \in 0..UnitCap, NEW found \in BOOLEAN,
           Answered(s, used, found)
    PROVE  ProvenInv'
<1>1. call[s].at = "sent" /\ UNCHANGED <<rows, receipts, reads>>
  BY DEF Answered, At
<1>2. PICK h \in Handles : h = call[s].handle /\ rows[h] # None
  BY <1>1 DEF ProvenInv, TypeInv, CallsKnown, Working, Known
<1>3. CASE Breaks(s)
  <2>1. \A u \in Sessions : call'[u] = call[u] \/ call'[u].at \notin {"have", "sent"}
    BY <1>3, BreaksType DEF ProvenInv, TypeInv
  <2> QED
    BY <1>1, <2>1, SameRows, QuietProven DEF ProvenInv, Provenance
<1>4. CASE Has(s, Evidence(h, TRUE))
  <2>1. Evidence(h, TRUE) \in Stamps /\ Evidence(h, TRUE).of = h
    BY EvidenceType DEF Evidence, ProvenInv, TypeInv
  <2>2. reads[rows[h].article] > 0
    BY <1>1, <1>2 DEF ProvenInv, Carries
  <2>3. Backed(Evidence(h, TRUE), h, rows, reads)
    BY <1>2, <2>1, <2>2 DEF Backed
  <2> QED
    BY <1>1, <1>2, <1>4, <2>1, <2>3, TakenProven
<1> QED
  BY <1>2, <1>3, <1>4 DEF Answered

\* No candidate, live, superseded or aliased, carries a body that was not read for its
\* own canonical URL and source, and an alias names a row of the same article and date:
\* through reuse of bodies (reusable_candidate_body), of verified candidates and calls
\* that end late (begin_candidate_stage, complete_candidate_stage).
THEOREM BodiesWereRead == Spec => []Provenance
<1>1. Init => ProvenInv
  <2> SUFFICES ASSUME Init PROVE ProvenInv
    OBVIOUS
  <2>1. TypeInv
    BY TypeInit
  <2>2. Provenance
    BY DEF Init, NoReceipt, Provenance, Fits, Backed, AliasFits
  <2>3. \A s \in Sessions : Carries(call[s])
    BY DEF Init, NoCall, Carries
  <2> QED
    BY <2>1, <2>2, <2>3 DEF ProvenInv
<1>2. ProvenInv /\ [Next]_vars => ProvenInv'
  <2> SUFFICES ASSUME ProvenInv, [Next]_vars PROVE ProvenInv'
    OBVIOUS
  <2>1. TypeInv'
    BY TypeStep DEF ProvenInv
  <2>2. CASE Coordinator \/ Tick \/ UNCHANGED vars
    BY <2>1, <2>2, StandingProven
  <2>3. ASSUME NEW s \in Sessions, Staging(s) PROVE ProvenInv'
    BY <2>1, <2>3, BeginProven, LookProven, IdleProven, ClaimProven, SettlesProven, AnsweredProven
    DEF Staging
  <2>4. ASSUME NEW s \in Sessions, Agent(s) PROVE ProvenInv'
    BY <2>1, <2>3, <2>4, IdleProven, FinalizeProven DEF Agent
  <2>5. ASSUME NEW s \in Sessions, NEW used \in 0..UnitCap, CallDies(s, used) PROVE ProvenInv'
    BY <2>1, <2>5, IdleProven
  <2> QED
    BY <2>2, <2>4, <2>5 DEF Next
<1>3. ProvenInv => Provenance
  BY DEF ProvenInv
<1> QED
  BY <1>1, <1>2, <1>3, PTL DEF Spec

=============================================================================
