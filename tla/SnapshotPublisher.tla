------------------------- MODULE SnapshotPublisher -------------------------
(***************************************************************************)
(* How an approved public revision of the Registry reaches the rolling     *)
(* pull request (scripts/publish_weekly_reports.py --public-snapshot, the  *)
(* hourly job T11): a run builds a commit on main, pushes it to a          *)
(* candidate ref and then to the rolling branch, each push with a lease,   *)
(* looks at main again, restores the branch when main has moved, and at    *)
(* last writes a receipt that later scheduled runs compare.                *)
(*                                                                         *)
(* One run at a time.  Between any two of its commands people merge pull   *)
(* requests and the public revision changes; a command may fail with or    *)
(* without its effect, and the run may die.                                *)
(***************************************************************************)
EXTENDS Naturals

CONSTANTS
    Revisions,      \* public revisions of the Registry
    None,           \* no ref, run or revision
    BaseAttempts,   \* MAX_BASE_ATTEMPTS
    MaxVersion,     \* bound on merges to main
    MaxApprovals,   \* bound on changes of the public revision
    MaxFailures,    \* bound on commands that fail
    MaxCrashes      \* bound on runs that die

ASSUME BoundsAssumption ==
    /\ BaseAttempts \in Nat \ {0}
    /\ MaxVersion \in Nat /\ MaxApprovals \in Nat /\ MaxFailures \in Nat /\ MaxCrashes \in Nat

\* What main holds: which commit it is, its other files, and the public revision
\* its wiki shows.
Main == [version : Nat, other : Nat, shown : Revisions \cup {None}]

\* A generated commit on a commit of main.
Commit == [base : Nat, other : Nat, shown : Revisions]

Steps == {"stale", "freeze", "base", "look", "main", "branch", "delete", "deleted",
          "candidate", "candidate?", "confirm", "promote", "promote?", "window",
          "restore", "restore?", "cleanup", "pr", "record", "record failure"}

\* _MainChanged, and every other error.
Errors == {None, "main", "failed"}
Results == {"revision-unchanged", "no-op", "cleaned", "unchanged", "published", "failed"}

\* A run: the frozen revision, the main and the rolling branch it saw, how often
\* it began anew, the error under way and its result.
Run == [at : Steps, rev : Revisions \cup {None}, base : Main, old : Commit \cup {None},
        attempt : 1..BaseAttempts, error : Errors, result : Results]

ASSUME NoneAssumption == None \notin Revisions \cup Commit \cup Run \cup {"main", "failed"}

VARIABLES
    revision,       \* public_revision of the Registry
    main,           \* origin/main
    rolling,        \* the rolling branch
    candidate,      \* the candidate ref
    pr,             \* whether a pull request of the rolling branch is open
    receipt,        \* public-snapshot.json
    run,
    good,           \* rolling commits whose base was main when looked at again
    approvals, failures, crashes,
    unrecorded      \* runs that ended without a receipt

remote == <<main, rolling, candidate, pr, good>>
bounds == <<approvals, failures, crashes, unrecorded>>
vars == <<revision, remote, receipt, run, bounds>>

TypeOK ==
    /\ revision \in Revisions
    /\ main \in Main /\ main.version \in 0..MaxVersion
    /\ rolling \in Commit \cup {None}
    /\ candidate \in Commit \cup {None}
    /\ pr \in BOOLEAN /\ (pr => rolling # None)
    /\ receipt \in [failed : BOOLEAN, last : Revisions \cup {None}]
    /\ run \in Run \cup {None}
    /\ good \subseteq Commit
    /\ approvals \in 0..MaxApprovals
    /\ failures \in 0..MaxFailures
    /\ crashes \in 0..MaxCrashes
    /\ unrecorded \in 0..(MaxFailures + MaxCrashes)

Init ==
    /\ revision \in Revisions
    /\ main = [version |-> 0, other |-> 0, shown |-> None]
    /\ rolling = None
    /\ candidate = None
    /\ pr = FALSE
    /\ receipt = [failed |-> FALSE, last |-> None]
    /\ run = None
    /\ good = {}
    /\ approvals = 0 /\ failures = 0 /\ crashes = 0 /\ unrecorded = 0

-----------------------------------------------------------------------------
At(step) == run # None /\ run.at = step
GoTo(step) == run' = [run EXCEPT !.at = step]
Done(result) == run' = [run EXCEPT !.at = "record", !.result = result]
Fail == Done("failed")

\* A command of the run fails, at most MaxFailures times.
Fails == failures < MaxFailures /\ failures' = failures + 1
Works == UNCHANGED failures

\* Mutant of Again: one attempt too many.
AgainOnceMore ==
    \/ run.attempt <= BaseAttempts
       /\ run' = [run EXCEPT !.at = "freeze", !.attempt = @ + 1, !.error = None]
    \/ run.attempt > BaseAttempts /\ Fail

\* _MainChanged: begin anew from the latest main, or give up.
Again ==
    \/ run.attempt < BaseAttempts
       /\ run' = [run EXCEPT !.at = "freeze", !.attempt = @ + 1, !.error = None]
    \/ run.attempt = BaseAttempts /\ Fail

Built == [base |-> run.base.version, other |-> run.base.other, shown |-> run.rev]

SameTree(commit) == commit # None /\ commit.other = Built.other /\ commit.shown = Built.shown

-----------------------------------------------------------------------------
\* Mutant of Skips: a failure after the last success is overlooked.
SkipsAfterFailure == receipt.last = revision

\* main(): a scheduled run ends at once when the last success was of this revision
\* and no failure came after it.
Skips == ~receipt.failed /\ receipt.last = revision

Begin(result, step) ==
    run' = [at |-> step, rev |-> None, base |-> main, old |-> None, attempt |-> 1,
            error |-> None, result |-> result]

StartScheduled ==
    /\ run = None
    /\ IF Skips THEN Begin("revision-unchanged", "record") ELSE Begin("failed", "stale")
    /\ UNCHANGED <<revision, remote, receipt, bounds>>

\* Without --scheduled a run always goes through.
StartManual ==
    /\ run = None
    /\ Begin("failed", "stale")
    /\ UNCHANGED <<revision, remote, receipt, bounds>>

\* _assert_no_stale_candidates
CheckStale ==
    /\ At("stale")
    /\ IF candidate = None THEN GoTo("freeze") ELSE Fail
    /\ UNCHANGED <<revision, remote, receipt, bounds>>

\* _publish_attempt freezes the Registry, clones main, and reads the branch.
Freeze ==
    /\ At("freeze")
    /\ run' = [run EXCEPT !.at = "base", !.rev = revision]
    /\ UNCHANGED <<revision, remote, receipt, bounds>>

Clone ==
    /\ At("base")
    /\ run' = [run EXCEPT !.at = "look", !.base = main]
    /\ UNCHANGED <<revision, remote, receipt, bounds>>

Look ==
    /\ At("look")
    /\ run' = [run EXCEPT !.at = "main", !.old = rolling]
    /\ UNCHANGED <<revision, remote, receipt, bounds>>

\* _assert_remotes_unchanged, when the commit is generated and verified.
RecheckMain ==
    /\ At("main")
    /\ IF main = run.base THEN GoTo("branch") ELSE Again
    /\ UNCHANGED <<revision, remote, receipt, bounds>>

Changes == run.base.shown # run.rev

RecheckBranch ==
    /\ At("branch")
    /\ \/ rolling # run.old /\ Fail
       \/ rolling = run.old /\ ~Changes /\ run.old = None /\ Done("no-op")
       \/ rolling = run.old /\ ~Changes /\ run.old # None /\ GoTo("delete")
       \/ rolling = run.old /\ Changes /\ ~SameTree(run.old) /\ GoTo("candidate")
       \/ rolling = run.old /\ Changes /\ SameTree(run.old)
          /\ run' = [run EXCEPT !.at = "pr", !.result = "unchanged"]
    /\ good' = IF rolling = run.old /\ SameTree(run.old) THEN good \cup {run.old} ELSE good
    /\ UNCHANGED <<revision, main, rolling, candidate, pr, receipt, bounds>>

-----------------------------------------------------------------------------
\* A push with --force-with-lease takes effect only while the rolling branch is
\* what the run expects.  Deleting the branch closes its pull request.
Leased(expected, new) ==
    /\ rolling = expected
    /\ rolling' = new
    /\ pr' = (pr /\ new # None)

Refused(expected) == rolling # expected /\ UNCHANGED <<rolling, pr>>

\* The answer is an error, whether or not the push took effect.
Lost(expected, new) == Fails /\ (Leased(expected, new) \/ UNCHANGED <<rolling, pr>>)

\* main shows the revision already: the branch is obsolete.
Delete ==
    /\ At("delete")
    /\ \/ Leased(run.old, None) /\ Works /\ GoTo("deleted")
       \/ Refused(run.old) /\ Works /\ Fail
       \/ Lost(run.old, None) /\ Fail
    /\ UNCHANGED <<revision, main, candidate, good, receipt, approvals, crashes, unrecorded>>

Deleted ==
    /\ At("deleted")
    /\ IF main = run.base THEN Done("cleaned") ELSE Again
    /\ UNCHANGED <<revision, remote, receipt, bounds>>

-----------------------------------------------------------------------------
\* _promote_via_candidate: a new ref of the run's own takes the commit first.
PushCandidate ==
    /\ At("candidate")
    /\ \/ candidate' = Built /\ Works /\ GoTo("confirm")
       \/ Fails /\ candidate' \in {Built, None} /\ GoTo("candidate?")
    /\ UNCHANGED <<revision, main, rolling, pr, good, receipt, approvals, crashes, unrecorded>>

LookForCandidate ==
    /\ At("candidate?")
    /\ IF candidate = None THEN Fail ELSE GoTo("confirm")
    /\ UNCHANGED <<revision, remote, receipt, bounds>>

\* Whatever goes wrong from now on, the candidate is removed.
CleanUp(error) == run' = [run EXCEPT !.at = "cleanup", !.error = error]

Confirm ==
    /\ At("confirm")
    /\ IF main = run.base THEN GoTo("promote") ELSE CleanUp("main")
    /\ UNCHANGED <<revision, remote, receipt, bounds>>

Promote ==
    /\ At("promote")
    /\ \/ Leased(run.old, Built) /\ Works /\ GoTo("window")
       \/ Refused(run.old) /\ Works /\ GoTo("promote?")
       \/ Lost(run.old, Built) /\ GoTo("promote?")
    /\ UNCHANGED <<revision, main, candidate, good, receipt, approvals, crashes, unrecorded>>

\* An update whose answer was lost counts when the branch shows it.
LookForPromoted ==
    /\ At("promote?")
    /\ \/ rolling = Built /\ GoTo("window")
       \/ rolling \notin {Built, run.old} /\ CleanUp("failed")
       \/ rolling = run.old /\ CleanUp(IF main = run.base THEN "failed" ELSE "main")
    /\ UNCHANGED <<revision, remote, receipt, bounds>>

\* Mutant of Window: main is not looked at again.
WindowUnchecked ==
    /\ At("window")
    /\ CleanUp(None)
    /\ good' = IF main = run.base THEN good \cup {Built} ELSE good
    /\ UNCHANGED <<revision, main, rolling, candidate, pr, receipt, bounds>>

\* The branch may be on a main that has just been superseded.
Window ==
    /\ At("window")
    /\ \/ /\ main = run.base
          /\ CleanUp(None)
          /\ good' = good \cup {Built}
       \/ /\ main # run.base
          /\ run' = [run EXCEPT !.at = "restore", !.error = "main"]
          /\ UNCHANGED good
    /\ UNCHANGED <<revision, main, rolling, candidate, pr, receipt, bounds>>

\* _rollback_rolling
Restore ==
    /\ At("restore")
    /\ \/ (Leased(Built, run.old) \/ Refused(Built)) /\ Works
       \/ Lost(Built, run.old)
    /\ GoTo("restore?")
    /\ UNCHANGED <<revision, main, candidate, good, receipt, approvals, crashes, unrecorded>>

LookForRestored ==
    /\ At("restore?")
    /\ CleanUp(IF rolling = run.old THEN run.error ELSE "failed")
    /\ UNCHANGED <<revision, remote, receipt, bounds>>

\* _delete_ref_exact of the candidate; an error of it is one more.
DeleteCandidate ==
    /\ At("cleanup")
    /\ \/ /\ candidate' = None /\ Works
          /\ \/ run.error = None
                /\ run' = [run EXCEPT !.at = "pr", !.result = "published"]
             \/ run.error = "main" /\ Again
             \/ run.error = "failed" /\ Fail
       \/ Fails /\ candidate' \in {candidate, None} /\ Fail
    /\ UNCHANGED <<revision, main, rolling, pr, good, receipt, approvals, crashes, unrecorded>>

\* ensure_pr: an open one is taken; there is none to open for a branch that is gone.
EnsurePr ==
    /\ At("pr")
    /\ \/ rolling # None /\ pr' = TRUE /\ Done(run.result)
       \/ rolling = None /\ Fail /\ UNCHANGED pr
    /\ UNCHANGED <<revision, main, rolling, candidate, good, receipt, bounds>>

\* A read of the remote, the frozen Registry, the verification or the opening of
\* the pull request fails.
Reads == {"stale", "freeze", "base", "look", "main", "branch", "deleted",
          "candidate?", "confirm", "promote?", "window", "restore?", "pr"}

CommandFails ==
    /\ run # None /\ run.at \in Reads
    /\ Fails
    /\ \/ run.at \in {"confirm", "promote?", "restore?"} /\ CleanUp("failed")
       \/ run.at = "window" /\ run' = [run EXCEPT !.at = "restore", !.error = "failed"]
       \/ run.at \notin {"confirm", "promote?", "restore?", "window"} /\ Fail
    /\ UNCHANGED <<revision, remote, receipt, approvals, crashes, unrecorded>>

-----------------------------------------------------------------------------
\* Mutant of Receipt: a failure forgets nothing, but is not remembered either.
ReceiptForgetful(result) ==
    [failed |-> FALSE,
     last |-> IF result \in {"failed", "revision-unchanged"} THEN receipt.last ELSE run.rev]

\* _append_publisher_result
Receipt(result) ==
    [failed |-> result = "failed",
     last |-> IF result \in {"failed", "revision-unchanged"} THEN receipt.last ELSE run.rev]

\* After a publication the production checkout has to be what it was; a receipt that
\* cannot be written ends the run.
Record ==
    /\ At("record")
    /\ \/ receipt' = Receipt(run.result) /\ run' = None /\ Works /\ UNCHANGED unrecorded
       \/ /\ Fails /\ run' = None
          /\ receipt' \in {receipt, Receipt(run.result)}
          /\ unrecorded' = unrecorded + 1
       \/ /\ Fails /\ Fail
          /\ run.result \notin {"failed", "revision-unchanged"}
          /\ UNCHANGED <<receipt, unrecorded>>
    /\ UNCHANGED <<revision, remote, approvals, crashes>>

-----------------------------------------------------------------------------
\* The run dies.
Crash ==
    /\ run # None
    /\ crashes < MaxCrashes
    /\ crashes' = crashes + 1
    /\ unrecorded' = unrecorded + 1
    /\ run' = None
    /\ UNCHANGED <<revision, remote, receipt, approvals, failures>>

\* Reviews approve, an owner hides or shows again: the revision may be an earlier one.
Approve ==
    /\ approvals < MaxApprovals
    /\ approvals' = approvals + 1
    /\ revision' \in Revisions \ {revision}
    /\ UNCHANGED <<remote, receipt, run, failures, crashes, unrecorded>>

\* A person merges the pull request, and may delete its branch.
Merge ==
    /\ pr
    /\ main.version < MaxVersion
    /\ main' = [main EXCEPT !.version = @ + 1, !.shown = rolling.shown]
    /\ pr' = FALSE
    /\ rolling' \in {rolling, None}
    /\ UNCHANGED <<revision, candidate, good, receipt, run, bounds>>

MergeOther ==
    /\ main.version < MaxVersion
    /\ main' = [main EXCEPT !.version = @ + 1, !.other = @ + 1]
    /\ UNCHANGED <<revision, rolling, candidate, pr, good, receipt, run, bounds>>

\* An operator removes a candidate a run left behind.
RemoveCandidate ==
    /\ run = None
    /\ candidate # None
    /\ candidate' = None
    /\ UNCHANGED <<revision, main, rolling, pr, good, receipt, run, bounds>>

Promotes ==
    \/ PushCandidate \/ LookForCandidate \/ Confirm \/ Promote \/ LookForPromoted
    \/ Window \/ Restore \/ LookForRestored \/ DeleteCandidate

Proceed ==
    \/ CheckStale \/ Freeze \/ Clone \/ Look \/ RecheckMain \/ RecheckBranch
    \/ Delete \/ Deleted \/ Promotes \/ EnsurePr \/ Record \/ CommandFails

Next ==
    \/ StartScheduled \/ StartManual \/ Proceed \/ Crash
    \/ Approve \/ Merge \/ MergeOther \/ RemoveCandidate

Spec == Init /\ [][Next]_vars

\* The scheduler starts a run every hour, and a run goes on.
Fairness == WF_vars(StartScheduled) /\ WF_vars(Proceed)

FairSpec == Spec /\ Fairness

-----------------------------------------------------------------------------
\* What people can see or merge is the public revision: the rolling branch, with
\* its pull request open unless it was merged, or else main.
Offered ==
    IF rolling = None THEN main.shown = revision
    ELSE rolling.shown = revision /\ (pr \/ main.shown = revision)

\* When scheduled runs do nothing there is nothing to do, whatever merges, retries
\* and lost answers came before, and although the revision may return to one that
\* was published earlier; unless a run ended without a receipt.
SkipIsSafe == unrecorded = 0 /\ run = None /\ Skips => Offered

\* Merges to main alone never leave a candidate behind, nor the branch on a main
\* that was superseded before the run looked again.
Promoting == run # None /\ run.at \in {"confirm", "promote", "promote?", "window",
                                        "restore", "restore?", "cleanup"}

NoResidue ==
    failures = 0 /\ crashes = 0 /\ ~Promoting =>
        candidate = None /\ rolling \in good \cup {None}

\* Once merges, approvals and faults end, the public revision is offered and stays
\* so, or a candidate waits for an operator, or a run ended without a receipt.
Converges == <>[](Offered \/ candidate # None \/ unrecorded > 0)
=============================================================================
