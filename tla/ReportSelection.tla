-------------------------- MODULE ReportSelection --------------------------
(***************************************************************************)
(* Which information a biweekly report holds.  Collection, checks and PDF  *)
(* imports write knowledge versions (record_knowledge); an approval makes  *)
(* them public; T4 freezes an occurrence by choosing, from the public      *)
(* versions, those dated before its day that no other report has frozen    *)
(* (_freeze_biweekly of climate_delivery/report_review.py).                *)
(*                                                                         *)
(* A freeze locks its occurrence alone.  It is modelled write by write, so *)
(* that a crash, or the freeze of another occurrence, comes in between.    *)
(* Time counts ticks, PeriodLength of them from one report day to the      *)
(* next, and every write of the Registry has its own instant.              *)
(***************************************************************************)
EXTENDS Integers, Sequences

CONSTANTS
    Core,           \* articles collected from websites
    Pdf,            \* articles imported from PDF newsletters
    Observations,   \* the places of the PDFs that mention one such article
    Texts,          \* bodies, titles and summaries of an article
    Freezers,       \* processes that may run T4
    None,
    PeriodLength,   \* ticks between two report days
    MaxClock,       \* bound on the clock
    MaxVersions,    \* bound on knowledge versions
    MaxCrashes      \* bound on freezes that die

ASSUME PeriodAssumption ==
    PeriodLength \in Nat \ {0} /\ MaxClock \in Nat /\ PeriodLength <= MaxClock
ASSUME BoundsAssumption == MaxVersions \in Nat /\ MaxCrashes \in Nat
ASSUME EntitiesAssumption == Core \cap Pdf = {} /\ Observations \subseteq Nat

Entities == Core \cup Pdf
Times == 0..MaxClock
Period(t) == t \div PeriodLength
Occurrences == 1..Period(MaxClock)

\* What is known at one time: a body, a T1 summary or a PDF mention.
Materials == [kind : {"body", "summary", "mention"}, text : Texts]

\* A row of knowledge_versions.  Every collection has its own observation; a T1
\* check of a website article refers to its content version instead.
ContentVersion == -1
Version == [entity : Entities, ref : Nat \cup {ContentVersion}, material : Materials,
            first : Times, changed : Times \cup {None}]

\* How an archive or snapshot names a version.
Identity == [entity : Entities, material : Materials, at : Times]

ASSUME NoneAssumption == None \notin Times

VARIABLES
    clock,
    ledger,     \* Seq(Version): knowledge_versions in rowid order
    public,     \* [Entities -> length of the ledger when it was last approved]
    written,    \* occurrences with a snapshot.json
    snapshot,   \* [Occurrences -> SUBSET Identity]: what it holds
    report,     \* [Occurrences -> status of state.json]
    pc,         \* [Freezers -> where its freeze is]
    occ,        \* [Freezers -> occurrence it freezes]
    chosen,     \* [Freezers -> identities it has chosen so far]
    due,        \* [Freezers -> what it has to see to, for NothingSkipped only]
    crashes

registry == <<ledger, public>>
files == <<written, snapshot, report>>
freezing == <<pc, occ, chosen, due>>
vars == <<clock, ledger, public, written, snapshot, report, pc, occ, chosen, due, crashes>>

TypeOK ==
    /\ clock \in Times
    /\ ledger \in Seq(Version) /\ Len(ledger) <= MaxVersions
    /\ public \in [Entities -> 0..Len(ledger)]
    /\ written \subseteq Occurrences
    /\ snapshot \in [Occurrences -> SUBSET Identity]
    /\ report \in [Occurrences -> {"none", "no_eligible_information", "pending_review", "generation_failed"}]
    /\ pc \in [Freezers -> {"idle", "appeared", "snapshot", "state", "revision"}]
    /\ occ \in [Freezers -> Occurrences]
    /\ chosen \in [Freezers -> SUBSET Identity]
    /\ due \in [Freezers -> SUBSET Identity]
    /\ crashes \in 0..MaxCrashes

Init ==
    /\ clock = 0
    /\ ledger = <<>>
    /\ public = [e \in Entities |-> 0]
    /\ written = {}
    /\ snapshot = [k \in Occurrences |-> {}]
    /\ report = [k \in Occurrences |-> "none"]
    /\ pc = [f \in Freezers |-> "idle"]
    /\ occ = [f \in Freezers |-> 1]
    /\ chosen = [f \in Freezers |-> {}]
    /\ due = [f \in Freezers |-> {}]
    /\ crashes = 0

-----------------------------------------------------------------------------
\* The Registry
Rows(e) == {i \in 1..Len(ledger) : ledger[i].entity = e}
Last(rows) == CHOOSE i \in rows : \A j \in rows : j <= i
Dated(v) == IF v.changed = None THEN v.first ELSE v.changed

\* Mutant of NextVersion: every observation is an update.
NextVersionAlwaysChanged(e, ref, m) ==
    IF Rows(e) = {}
    THEN [entity |-> e, ref |-> ref, material |-> m, first |-> clock, changed |-> None]
    ELSE [entity |-> e, ref |-> ref, material |-> m,
          first |-> ledger[Last(Rows(e))].first, changed |-> clock]

\* A version keeps the times of the entity's latest one unless its material
\* differs from that one's.
NextVersion(e, ref, m) ==
    IF Rows(e) = {}
    THEN [entity |-> e, ref |-> ref, material |-> m, first |-> clock, changed |-> None]
    ELSE LET previous == ledger[Last(Rows(e))]
         IN  [entity |-> e, ref |-> ref, material |-> m, first |-> previous.first,
              changed |-> IF previous.material = m THEN previous.changed ELSE clock]

\* record_knowledge: INSERT OR IGNORE under entity, ref, material and date; the
\* latest version seen again at the same ref stays the latest.
Recorded(v) ==
    \/ \E i \in 1..Len(ledger) :
          ledger[i] = [v EXCEPT !.first = ledger[i].first, !.changed = ledger[i].changed]
              /\ Dated(ledger[i]) = Dated(v)
    \/ /\ Rows(v.entity) # {}
       /\ ledger[Last(Rows(v.entity))].material = v.material
       /\ ledger[Last(Rows(v.entity))].ref = v.ref

Record(e, ref, m) ==
    /\ clock < MaxClock
    /\ Len(ledger) < MaxVersions
    /\ clock' = clock + 1
    /\ LET v == NextVersion(e, ref, m)
       IN  ledger' = IF Recorded(v) THEN ledger ELSE Append(ledger, v)
    /\ UNCHANGED <<public, files, freezing, crashes>>

\* store_acquisition_batch stores a fetched body under a new observation.
Collect(e, t) ==
    /\ e \in Core
    /\ Record(e, Len(ledger), [kind |-> "body", text |-> t])

\* T1 verifies a summary of a collected website article.
Check(e, t) ==
    /\ e \in Core
    /\ Rows(e) # {}
    /\ Record(e, ContentVersion, [kind |-> "summary", text |-> t])

\* A PDF mentions an article at a new place; T1 verifies a mention.
Import(e, o, t) ==
    /\ e \in Pdf
    /\ \A i \in Rows(e) : ledger[i].ref # o
    /\ Record(e, o, [kind |-> "mention", text |-> t])

Verify(e, o, t) ==
    /\ e \in Pdf
    /\ \E i \in Rows(e) : ledger[i].ref = o
    /\ Record(e, o, [kind |-> "mention", text |-> t])

\* Mutant of Approve: the approved snapshot is one row ahead.
ApproveAhead(e, n) ==
    /\ n \in (public[e] + 1)..Len(ledger)
    /\ ledger[n].entity = e
    /\ public' = [public EXCEPT ![e] = n + 1]
    /\ UNCHANGED <<clock, ledger, files, freezing, crashes>>

\* The review of a candidate that was staged after version n passes.
Approve(e, n) ==
    /\ n \in (public[e] + 1)..Len(ledger)
    /\ ledger[n].entity = e
    /\ public' = [public EXCEPT ![e] = n]
    /\ UNCHANGED <<clock, ledger, files, freezing, crashes>>

-----------------------------------------------------------------------------
\* T4

\* The rows of the approved snapshots, and of those the ones whose observation
\* carries what the public article shows: the current body, or any PDF mention.
PublicRows(e) == {i \in Rows(e) : i <= public[e]}
Bodies(e) == {i \in PublicRows(e) : ledger[i].material.kind = "body"}
Shown(e) ==
    {i \in PublicRows(e) :
        /\ ledger[i].ref # ContentVersion
        /\ e \in Core => ledger[i].material.text = ledger[Last(Bodies(e))].material.text}

\* _material_versions: the latest row of every observation.
Latest(e) == {i \in Shown(e) : \A j \in Shown(e) : ledger[j].ref = ledger[i].ref => j <= i}

IdentityOf(v) == [entity |-> v.entity, material |-> v.material, at |-> Dated(v)]

\* Mutant of Eligible: information of earlier periods is not carried forward.
EligibleInWindow(k, v) ==
    \/ Period(Dated(v)) = k - 1
    \/ Period(v.first) = k - 1

\* In the window of occurrence k by its date or its first ingestion, or dated
\* before it and carried forward: all that is public has been approved.
Eligible(k, v) ==
    \/ Period(Dated(v)) = k - 1
    \/ Period(v.first) = k - 1
    \/ Period(Dated(v)) < k - 1

Candidates(k) ==
    {IdentityOf(ledger[i]) : i \in {j \in UNION {Latest(e) : e \in Entities} : Eligible(k, ledger[j])}}

\* Everything public that is dated before report day k.
Due(k) ==
    {IdentityOf(ledger[i]) : i \in
        {j \in UNION {Latest(e) : e \in Entities} : Dated(ledger[j]) < k * PeriodLength}}

\* The process ends and forgets what it chose.
Exit(f) ==
    /\ pc' = [pc EXCEPT ![f] = "idle"]
    /\ occ' = [occ EXCEPT ![f] = 1]
    /\ chosen' = [chosen EXCEPT ![f] = {}]
    /\ due' = [due EXCEPT ![f] = {}]

Locked(k) == \E f \in Freezers : pc[f] # "idle" /\ occ[f] = k

\* The lock of the occurrence is taken and the public Registry read.
BeginFreeze(f, k) ==
    /\ pc[f] = "idle"
    /\ clock >= k * PeriodLength
    /\ report[k] = "none"
    /\ ~Locked(k)
    /\ pc' = [pc EXCEPT ![f] = "appeared"]
    /\ occ' = [occ EXCEPT ![f] = k]
    /\ chosen' = [chosen EXCEPT ![f] = Candidates(k)]
    /\ due' = [due EXCEPT ![f] = Due(k)]
    /\ UNCHANGED <<clock, registry, files, crashes>>

\* Every snapshot on disk, the occurrence's own included.
Frozen == UNION {snapshot[k] : k \in written}

\* Mutant of ReadAppeared: only the previous report's snapshot is looked at.
ReadAppearedPrevious(f) ==
    /\ pc[f] = "appeared"
    /\ chosen' = [chosen EXCEPT ![f] =
            IF occ[f] > 1 /\ occ[f] - 1 \in written THEN @ \ snapshot[occ[f] - 1] ELSE @]
    /\ pc' = [pc EXCEPT ![f] = "snapshot"]
    /\ UNCHANGED <<clock, registry, files, occ, due, crashes>>

ReadAppeared(f) ==
    /\ pc[f] = "appeared"
    /\ chosen' = [chosen EXCEPT ![f] = @ \ Frozen]
    /\ pc' = [pc EXCEPT ![f] = "snapshot"]
    /\ UNCHANGED <<clock, registry, files, occ, due, crashes>>

WriteSnapshot(f) ==
    /\ pc[f] = "snapshot"
    /\ written' = written \cup {occ[f]}
    /\ snapshot' = [snapshot EXCEPT ![occ[f]] = chosen[f]]
    /\ pc' = [pc EXCEPT ![f] = "state"]
    /\ UNCHANGED <<clock, registry, report, occ, chosen, due, crashes>>

\* state.json; an empty selection ends here.
WriteState(f) ==
    /\ pc[f] = "state"
    /\ report' = [report EXCEPT ![occ[f]] = "no_eligible_information"]
    /\ \/ /\ chosen[f] = {}
          /\ Exit(f)
       \/ /\ chosen[f] # {}
          /\ pc' = [pc EXCEPT ![f] = "revision"]
          /\ UNCHANGED <<occ, chosen, due>>
    /\ UNCHANGED <<clock, registry, written, snapshot, crashes>>

\* _new_revision renders or fails (ReportReview goes on from here).
NewRevision(f) ==
    /\ pc[f] = "revision"
    /\ \E st \in {"pending_review", "generation_failed"} :
          report' = [report EXCEPT ![occ[f]] = st]
    /\ Exit(f)
    /\ UNCHANGED <<clock, registry, written, snapshot, crashes>>

Crash(f) ==
    /\ pc[f] # "idle"
    /\ crashes < MaxCrashes
    /\ crashes' = crashes + 1
    /\ Exit(f)
    /\ UNCHANGED <<clock, registry, files>>

Tick ==
    /\ clock < MaxClock
    /\ clock' = clock + 1
    /\ UNCHANGED <<registry, files, freezing, crashes>>

Freeze(f) ==
    \/ \E k \in Occurrences : BeginFreeze(f, k)
    \/ ReadAppeared(f)
    \/ WriteSnapshot(f)
    \/ WriteState(f)
    \/ NewRevision(f)
    \/ Crash(f)

Next ==
    \/ \E e \in Entities, t \in Texts :
          Collect(e, t) \/ Check(e, t) \/ \E o \in Observations : Import(e, o, t) \/ Verify(e, o, t)
    \/ \E e \in Entities, n \in 1..Len(ledger) : Approve(e, n)
    \/ \E f \in Freezers : Freeze(f)
    \/ Tick

Spec == Init /\ [][Next]_vars

-----------------------------------------------------------------------------
\* No information is in two reports, in whatever order their occurrences are
\* frozen and whichever freezes died.
NoRepeat ==
    \A j, k \in written : j # k => snapshot[j] \cap snapshot[k] = {}

\* A freeze leaves out nothing that was public when it began, dated before its
\* report day and in no report yet: late approvals are carried forward.  (After
\* a freeze that died behind its snapshot, its choice waits for the next one.)
NothingSkipped ==
    crashes = 0 => \A f \in Freezers : pc[f] \in {"state", "revision"} => due[f] \subseteq Frozen

\* Information of an article is reported again only if its text was a different
\* one in the meantime: checks and repeated evidence are no news.
ReportedAnew(E) ==
    \A j, k \in written :
        \A x \in snapshot[j], y \in snapshot[k] :
            /\ x.entity \in E
            /\ y.entity = x.entity
            /\ y.material = x.material
            /\ x.at < y.at
            => \E v \in {ledger[i] : i \in Rows(x.entity)} :
                  /\ v.material.kind = x.material.kind
                  /\ v.material.text # x.material.text
                  /\ x.at < Dated(v) /\ Dated(v) < y.at

PdfReportedAnew == ReportedAnew(Pdf)
CoreReportedAnew == ReportedAnew(Core)

\* As long as no freeze has died, a frozen occurrence stays as it is: neither a
\* retry nor another freezer, an approval or a new version touches it.
FrozenStays ==
    [][crashes = 0 => \A k \in written : snapshot'[k] = snapshot[k]]_vars

=============================================================================
