---------------------------- MODULE ReportCommit ----------------------------
(***************************************************************************)
(* How the weekly monitor publishes a report: four files of one day that   *)
(* are staged and replaced one by one, the list of URLs already reported,  *)
(* the delta that will be added to it, and the recovery every run begins   *)
(* with (run_monitor of climate_monitor/orchestrator.py, semantic_bundle.py*)
(* and seen_state.py).                                                     *)
(*                                                                         *)
(* One run at a time.  Each step is one file operation, and a crash may    *)
(* come between any two or tear the file that is being written.            *)
(***************************************************************************)
EXTENDS Naturals

CONSTANTS
    LastDay,        \* bound on the days reports are made for
    Urls,           \* articles
    Texts,          \* wordings of a report
    None,           \* no file, delta, run or build
    Torn,           \* the content of a file whose writer died
    MaxCrashes,     \* bound on runs that die
    MaxCuts         \* bound on those that die while they discard a bundle

ASSUME BoundsAssumption ==
    LastDay \in Nat \ {0} /\ MaxCrashes \in Nat /\ MaxCuts \in Nat

Days == 1..LastDay

\* The files of a day in the order they are staged and replaced: the report, its
\* semantic sidecar, the combined candidates and their snapshot.
Kinds == 1..4

\* What a run publishes: the articles of the report, among the candidates it
\* retains, and the report's wording.
Bundles ==
    {b \in [kept : SUBSET Urls, items : SUBSET Urls, text : Texts] :
        b.kept # {} /\ b.kept \subseteq b.items}

\* What each file holds of it.  The sidecar names the report's digest, and the
\* snapshot the report's and the candidates'.
Part(k, b) ==
    CASE k \in {1, 2} -> [kept |-> b.kept, text |-> b.text]
      [] k = 3 -> [items |-> b.items]
      [] k = 4 -> b

Contents == [k \in Kinds |->
    IF k = 4 THEN Bundles
    ELSE IF k = 3 THEN [items : SUBSET Urls] ELSE [kept : SUBSET Urls, text : Texts]]

AnyContent == UNION {Contents[k] : k \in Kinds}

Delta == [day : Days, base : SUBSET Urls, build : Bundles]

Steps == {"recover", "drop", "apply", "legacy", "resolve", "seen", "read", "clear",
          "select", "manifest", "stage", "replace", "unmanifest"}

Results == {"clean", "discarded", "applied"}

\* A run: its next step, the day whose files it works on, the next file, the
\* last one to discard, what recovery did and what it is publishing.
Run == [at : Steps, target : Days, k : 0..4, last : 0..4,
        result : Results, build : Bundles \cup {None}]

ASSUME NoneAssumption ==
    /\ None # Torn
    /\ {None, Torn} \cap (Bundles \cup Delta \cup Run \cup AnyContent) = {}

VARIABLES
    final,          \* [Days -> [Kinds -> content]]
    pending,        \* the .pending siblings
    manifest,       \* the .bundle.pending.json files
    delta,          \* pending-seen-urls
    seen,           \* seen_urls.json
    today,
    run,
    crashes, cuts

files == <<final, pending, manifest>>
vars == <<files, delta, seen, today, run, crashes, cuts>>

TypeOK ==
    /\ final \in [Days -> [Kinds -> AnyContent \cup {None}]]
    /\ pending \in [Days -> [Kinds -> AnyContent \cup {None, Torn}]]
    /\ \A d \in Days, k \in Kinds :
        /\ final[d][k] \in Contents[k] \cup {None}
        /\ pending[d][k] \in Contents[k] \cup {None, Torn}
    /\ manifest \in [Days -> Bundles \cup {None, Torn}]
    /\ delta \in Delta \cup {None}
    /\ seen \subseteq Urls
    /\ today \in Days
    /\ run \in Run \cup {None}
    /\ crashes \in 0..MaxCrashes
    /\ cuts \in 0..MaxCuts

Empty == [k \in Kinds |-> None]

Init ==
    /\ final = [d \in Days |-> Empty]
    /\ pending = [d \in Days |-> Empty]
    /\ manifest = [d \in Days |-> None]
    /\ delta = None
    /\ seen = {}
    /\ today = 1
    /\ run = None
    /\ crashes = 0
    /\ cuts = 0

-----------------------------------------------------------------------------
At(step) == run # None /\ run.at = step

\* The run goes on, recovers the files of its own day, or ends.
GoTo(step, k) == run' = [run EXCEPT !.at = step, !.k = k]
RecoverDay(d) ==
    run' = [at |-> "recover", target |-> d, k |-> 0, last |-> 0,
            result |-> "clean", build |-> None]

Ends == run' = None

\* run_monitor begins with the day of the pending delta, if there is one.
Start ==
    /\ run = None
    /\ RecoverDay(IF delta = None THEN today ELSE delta.day)
    /\ UNCHANGED <<files, delta, seen, today, crashes, cuts>>

NextDay ==
    /\ run = None
    /\ today < LastDay
    /\ today' = today + 1
    /\ UNCHANGED <<files, delta, seen, run, crashes, cuts>>

-----------------------------------------------------------------------------
\* Recovery of the files of run.target: recover_pending_commit.

\* Then the delta is looked at, if there is one; else the day's own history.
Recovered(result) ==
    run' = [run EXCEPT !.at = IF delta # None THEN "resolve" ELSE "read", !.result = result]

\* Mutant of Matches: only staged files count.
MatchesStaged(d, k, b) == pending[d][k] = Part(k, b)

\* A file the manifest names is staged, or was replaced already.
Matches(d, k, b) == pending[d][k] = Part(k, b) \/ final[d][k] = Part(k, b)

Missing(d) == {k \in Kinds : ~Matches(d, k, manifest[d])}

\* _discard of the files from first (0 is the manifest) to last.
Discarding(first, last) ==
    run' = [run EXCEPT !.at = "drop", !.k = first, !.last = last]

\* _recover_manifest_commit: a manifest that cannot be read, a file of the
\* bundle that is neither staged nor final, or a whole bundle.
RecoverManifest(d) ==
    /\ manifest[d] # None
    /\ \/ manifest[d] = Torn /\ Discarding(0, 2)
       \/ /\ manifest[d] # Torn
          /\ \E k \in Missing(d) : (\A j \in Missing(d) : k <= j) /\ Discarding(0, k)
       \/ /\ manifest[d] # Torn
          /\ Missing(d) = {}
          /\ GoTo("apply", 1)

\* The two-file protocol: without a manifest, a staged sidecar is bound to the
\* staged report or to the report of the day.
Paired(d) == /\ pending[d][2] \notin {None, Torn}
             /\ pending[d][2] \in {pending[d][1], final[d][1]}

RecoverPair(d) ==
    /\ manifest[d] = None
    /\ \/ pending[d][1] = None /\ pending[d][2] = None /\ Recovered("clean")
       \/ Paired(d) /\ GoTo("legacy", 1)
       \/ ~Paired(d) /\ (pending[d][1] # None \/ pending[d][2] # None) /\ Discarding(1, 2)

Recover ==
    /\ At("recover")
    /\ RecoverManifest(run.target) \/ RecoverPair(run.target)
    /\ UNCHANGED <<files, delta, seen, today, crashes, cuts>>

Drop ==
    /\ At("drop")
    /\ \/ run.k = 0 /\ manifest' = [manifest EXCEPT ![run.target] = None] /\ UNCHANGED pending
       \/ run.k # 0 /\ pending' = [pending EXCEPT ![run.target][run.k] = None] /\ UNCHANGED manifest
    /\ IF run.k = run.last THEN Recovered("discarded") ELSE GoTo("drop", run.k + 1)
    /\ UNCHANGED <<final, delta, seen, today, crashes, cuts>>

\* Mutant of Replaced: whatever is staged is taken.
ReplacedUnchecked(d, k, want) ==
    /\ final' = IF pending[d][k] # None THEN [final EXCEPT ![d][k] = pending[d][k]] ELSE final
    /\ pending' = [pending EXCEPT ![d][k] = None]

\* A file is replaced by its staged content, if that is still there.
Replaced(d, k, want) ==
    /\ final' = IF pending[d][k] = want THEN [final EXCEPT ![d][k] = want] ELSE final
    /\ pending' = [pending EXCEPT ![d][k] = None]

Apply ==
    /\ At("apply")
    /\ Replaced(run.target, run.k, Part(run.k, manifest[run.target]))
    /\ IF run.k = 4 THEN GoTo("unmanifest", 0) ELSE GoTo("apply", run.k + 1)
    /\ UNCHANGED <<manifest, delta, seen, today, crashes, cuts>>

ApplyPair ==
    /\ At("legacy")
    /\ Replaced(run.target, run.k, pending[run.target][2])
    /\ IF run.k = 2 THEN Recovered("applied") ELSE GoTo("legacy", 2)
    /\ UNCHANGED <<manifest, delta, seen, today, crashes, cuts>>

-----------------------------------------------------------------------------
\* _validated_committed_report_bundle.
Valid(d) ==
    /\ final[d][1] # None
    /\ final[d][2] = final[d][1]
    /\ final[d][3] # None
    /\ final[d][1].kept \subseteq final[d][3].items
    /\ final[d][4] # None =>
        /\ Part(1, final[d][4]) = final[d][1]
        /\ Part(3, final[d][4]) = final[d][3]

Unpublished(d) == final[d][1] = None /\ final[d][2] = None

\* _verified_pending_seen_bundle: the delta belongs to the bundle of its day, or
\* to one that was never published.
Committed(d, b) == Valid(d) /\ \A k \in {1, 3, 4} : final[d][k] = Part(k, b)

\* Mutant of Abandoned: nothing was published when there was nothing to recover.
AbandonedWhenClean(d, b) == run.result # "applied"

Abandoned(d, b) ==
    /\ run.result # "applied"
    /\ \/ Unpublished(d)
       \/ Valid(d) /\ \E k \in {1, 3} : final[d][k] # Part(k, b)

AcceptDelta ==
    /\ At("resolve")
    /\ Committed(delta.day, delta.build)
    /\ GoTo("seen", 0)
    /\ UNCHANGED <<files, delta, seen, today, crashes, cuts>>

\* discard_pending_seen_url_delta_if_base_matches, then the run goes on.
DiscardDelta ==
    /\ At("resolve")
    /\ Abandoned(delta.day, delta.build)
    /\ delta.base = seen
    /\ delta' = None
    /\ IF delta.day = today THEN GoTo("read", 0) ELSE RecoverDay(today)
    /\ UNCHANGED <<files, seen, today, crashes, cuts>>

\* Mutant of Included: a list that changed is never the one wanted.
IncludedInBase == delta.base = seen /\ delta.build.kept \subseteq seen

\* _delta_already_applied.
Included == delta.build.kept \subseteq seen

\* commit_seen_url_delta: the list is replaced, then the delta removed; when the
\* list has all of its URLs the delta is only removed.
WriteSeen ==
    /\ At("seen")
    /\ delta.base = seen
    /\ ~Included
    /\ seen' = seen \cup delta.build.kept
    /\ UNCHANGED <<files, delta, today, run, crashes, cuts>>

\* The run ends when this was the day it is for.
RemoveDelta ==
    /\ At("seen")
    /\ Included
    /\ delta' = None
    /\ IF run.target = today THEN Ends ELSE RecoverDay(today)
    /\ UNCHANGED <<files, seen, today, crashes, cuts>>

-----------------------------------------------------------------------------
\* read_candidate_history: candidates no report was made of are removed.
Read ==
    /\ At("read")
    /\ \/ Unpublished(today) /\ GoTo("clear", 3)
       \/ Valid(today) /\ GoTo("select", 0)
    /\ UNCHANGED <<files, delta, seen, today, crashes, cuts>>

Clear ==
    /\ At("clear")
    /\ final' = [final EXCEPT ![today][run.k] = None]
    /\ IF run.k = 4 THEN GoTo("select", 0) ELSE GoTo("clear", 4)
    /\ UNCHANGED <<pending, manifest, delta, seen, today, crashes, cuts>>

HasReport == final[today][1] # None
Carried == IF HasReport THEN final[today][3].items ELSE {}

\* The articles of the day's own report are no history to it; with prepared
\* evidence neither are the candidates it retained.
SameDate(retain) ==
    IF HasReport THEN final[today][1].kept \cup (IF retain THEN Carried ELSE {}) ELSE {}

Candidates(found, retain) == (found \cup Carried) \ (seen \ SameDate(retain))

\* Nothing was found and the day's report is complete.
Replays(found, retain) == HasReport /\ found = {} /\ SameDate(retain) \subseteq seen

\* A report of some of the candidates is prepared, beginning with the delta.
Prepare ==
    /\ At("select")
    /\ \E found \in SUBSET Urls, retain \in BOOLEAN, b \in Bundles :
        /\ ~Replays(found, retain)
        /\ HasReport /\ final[today][4] = None => found = {}
        /\ b.items = Candidates(found, retain)
        /\ delta' = [day |-> today, base |-> seen, build |-> b]
        /\ run' = [run EXCEPT !.at = "manifest", !.target = today, !.build = b]
    /\ UNCHANGED <<files, seen, today, crashes, cuts>>

\* No candidate is worth a report.
NoReport ==
    /\ At("select")
    /\ ~HasReport
    /\ \E found \in SUBSET Urls, retain \in BOOLEAN :
        final' = [final EXCEPT ![today][3] = [items |-> Candidates(found, retain)]]
    /\ Ends
    /\ UNCHANGED <<pending, manifest, delta, seen, today, crashes, cuts>>

\* commit_report_with_semantics.
WriteManifest ==
    /\ At("manifest")
    /\ manifest' = [manifest EXCEPT ![run.target] = run.build]
    /\ GoTo("stage", 1)
    /\ UNCHANGED <<final, pending, delta, seen, today, crashes, cuts>>

Stage ==
    /\ At("stage")
    /\ pending' = [pending EXCEPT ![run.target][run.k] = Part(run.k, run.build)]
    /\ IF run.k = 4 THEN GoTo("replace", 1) ELSE GoTo("stage", run.k + 1)
    /\ UNCHANGED <<final, manifest, delta, seen, today, crashes, cuts>>

Replace ==
    /\ At("replace")
    /\ Replaced(run.target, run.k, Part(run.k, run.build))
    /\ IF run.k = 4 THEN GoTo("unmanifest", 0) ELSE GoTo("replace", run.k + 1)
    /\ UNCHANGED <<manifest, delta, seen, today, crashes, cuts>>

\* The last step of a commit and of its recovery.
RemoveManifest ==
    /\ At("unmanifest")
    /\ manifest' = [manifest EXCEPT ![run.target] = None]
    /\ IF run.build # None THEN GoTo("seen", 0) ELSE Recovered("applied")
    /\ UNCHANGED <<final, pending, delta, seen, today, crashes, cuts>>

-----------------------------------------------------------------------------
\* The run raises: the delta fits neither a bundle nor its absence, the files of
\* the day do not fit each other, nothing is to be done or the run is refused.
Raise ==
    /\ \/ /\ At("resolve")
          /\ ~Committed(delta.day, delta.build)
          /\ ~(Abandoned(delta.day, delta.build) /\ delta.base = seen)
       \/ At("seen") /\ delta.base # seen /\ ~Included
       \/ At("read") /\ ~Unpublished(today) /\ ~Valid(today)
       \/ At("select")
    /\ Ends
    /\ UNCHANGED <<files, delta, seen, today, crashes, cuts>>

\* It dies while staged files of a manifest that is gone are still to be dropped.
Cut == At("drop") /\ \E k \in Kinds : run.k <= k /\ k <= run.last /\ pending[run.target][k] # None
                  /\ manifest[run.target] = None

Crash ==
    /\ run # None
    /\ crashes < MaxCrashes
    /\ crashes' = crashes + 1
    /\ IF Cut THEN cuts < MaxCuts /\ cuts' = cuts + 1 ELSE UNCHANGED cuts
    /\ \/ UNCHANGED files
       \/ /\ At("manifest")
          /\ manifest' = [manifest EXCEPT ![run.target] = Torn]
          /\ UNCHANGED <<final, pending>>
       \/ /\ At("stage")
          /\ pending' = [pending EXCEPT ![run.target][run.k] = Torn]
          /\ UNCHANGED <<final, manifest>>
    /\ Ends
    /\ UNCHANGED <<delta, seen, today>>

\* What a run does without a choice of what to publish.
Proceed ==
    \/ Recover \/ Drop \/ Apply \/ ApplyPair \/ AcceptDelta \/ DiscardDelta
    \/ WriteSeen \/ RemoveDelta \/ Read \/ Clear
    \/ WriteManifest \/ Stage \/ Replace \/ RemoveManifest \/ Raise

Next == Start \/ NextDay \/ Proceed \/ Prepare \/ NoReport \/ Crash

Spec == Init /\ [][Next]_vars

\* The scheduler goes on starting runs, and a run goes on.
Fairness == WF_vars(Start) /\ WF_vars(Proceed)

FairSpec == Spec /\ Fairness

-----------------------------------------------------------------------------
Reported(d) == IF final[d][1] = None THEN {} ELSE final[d][1].kept

\* No article is in the reports of two days, though the list of what was
\* reported is written after the report and any run may die in between.
ReportedOnce ==
    \A d, e \in Days : d # e => Reported(d) \cap Reported(e) = {}

\* Outside a transaction the files of a day are those of one bundle, or
\* candidates alone.
OneBundle(d) ==
    manifest[d] = None /\ ~At("legacy") =>
        \/ Unpublished(d)
        \/ \E b \in Bundles : \A k \in Kinds : final[d][k] = Part(k, b)

\* What the tests of semantic_bundle say of an interruption: it never publishes
\* only a part of a bundle.
NeverPartial == \A d \in Days : OneBundle(d)

\* and it holds as long as no run dies while it discards a bundle.
WholeBundle == cuts = 0 => NeverPartial

\* A delta a dead run left behind is added to the list or discarded, unless a
\* run died while it discarded a bundle.
Resolves == delta # None ~> delta = None \/ cuts > 0
=============================================================================
