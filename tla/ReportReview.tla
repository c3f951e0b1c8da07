---------------------------- MODULE ReportReview ----------------------------
(***************************************************************************)
(* One biweekly report after it was frozen: the revisions rendered for it, *)
(* their review by native cron sessions, the approval and the sender that  *)
(* waits for it (climate_delivery/report_review.py, and claim_review and   *)
(* validate_claim of climate_registry/acquisition_review.py).              *)
(*                                                                         *)
(* Every operation runs under a flock the kernel drops when its process    *)
(* dies, so at most one is in progress: op says how far it is.  Each step  *)
(* is one atomic file write, and a crash may come between any two.         *)
(***************************************************************************)
EXTENDS Integers, FiniteSets

CONSTANTS
    Sessions,       \* native cron sessions that may review
    None,           \* no session, review, claim, approval or operation
    MaxRevision,    \* bound on revision directories
    MaxClock,       \* bound on the clock
    SendDelay,      \* ticks an approval must be old before mail is sent
    ClaimTimeout,   \* ticks a review claim is valid for
    MaxCrashes,     \* bound on processes that die inside an operation
    MaxLost         \* bound on sessions that vanish without an end record

ASSUME BoundsAssumption ==
    /\ MaxRevision \in Nat \ {0} /\ MaxClock \in Nat
    /\ MaxCrashes \in Nat /\ MaxLost \in Nat
ASSUME DelaysAssumption == SendDelay \in Nat \ {0} /\ ClaimTimeout \in Nat \ {0}

Revisions == 1..MaxRevision
Verdicts == {"pass", "changes_requested", "review_failed", "blocked_code_change"}
Blockers == {"review_failed", "blocked_code_change", "generation_failed"}
Statuses == {"no_eligible_information", "pending_review", "approved"} \cup Blockers
MaybeSession == Sessions \cup {None}

Review == [by : Sessions, verdict : Verdicts]
Claim == [by : Sessions, deadline : Nat, released : BOOLEAN]
Approval == [by : Sessions, revision : Revisions, at : Nat]

\* A revision directory: who edited report-source.json last, whether packet.json
\* was written and which session its packet excludes, review.json, claim.json.
Directory == [editor : MaybeSession, packet : BOOLEAN, parent : MaybeSession,
              review : Review \cup {None}, claim : Claim \cup {None}]

\* The operation in progress: its next step, the session and verdict it works
\* for, the revision it makes or sends, and when it started.
Steps == {"release", "archive", "decide", "mkdir", "render", "publish", "fail", "send"}
Operation == [step : Steps, by : MaybeSession, verdict : Verdicts \cup {None},
              editor : MaybeSession, parent : MaybeSession,
              revision : 0..MaxRevision, at : Nat]

ASSUME NoneAssumption ==
    None \notin Sessions \cup Review \cup Claim \cup Approval \cup Directory
                \cup Operation \cup Verdicts

VARIABLES
    clock,
    status,         \* state.json
    revision,
    approval,
    dirs,           \* [Revisions -> Directory or None]
    archive,        \* the revision archive.json names, 0 before there is one
    mailed,         \* revisions with a recipient sent or attempted
    session,        \* [Sessions -> "new", "live", "ended", "lost"]
    op,             \* the operation that holds the flock, or None
    crashes,
    lost

state == <<status, revision, approval>>
files == <<dirs, archive>>
vars == <<clock, status, revision, approval, dirs, archive, mailed, session, op, crashes, lost>>

TypeOK ==
    /\ clock \in 0..MaxClock
    /\ status \in Statuses
    /\ revision \in 0..MaxRevision
    /\ approval \in Approval \cup {None}
    /\ dirs \in [Revisions -> Directory \cup {None}]
    /\ archive \in 0..MaxRevision
    /\ mailed \subseteq Revisions
    /\ session \in [Sessions -> {"new", "live", "ended", "lost"}]
    /\ op \in Operation \cup {None}
    /\ crashes \in 0..MaxCrashes
    /\ lost \in 0..MaxLost

-----------------------------------------------------------------------------
\* _new_revision: the next number, skipping directories a crash left behind.
Made == {r \in Revisions : dirs[r] # None}
Highest == CHOOSE r \in Made \cup {0} : \A q \in Made : q <= r

\* Mutant of NextNumber: an orphaned directory is used again.
NextNumberReused == revision + 1

NextNumber == IF revision + 1 \in Made THEN Highest + 1 ELSE revision + 1

\* The operation goes on to make a revision edited by editor that parent may
\* not review.
MakeRevision(by, editor, parent) ==
    [step |-> "mkdir", by |-> by, verdict |-> None, editor |-> editor,
     parent |-> parent, revision |-> 0, at |-> 0]

\* T4 wrote snapshot.json and state.json and is about to render revision 1.
Init ==
    /\ clock = 0
    /\ status = "no_eligible_information"
    /\ revision = 0
    /\ approval = None
    /\ dirs = [r \in Revisions |-> None]
    /\ archive = 0
    /\ mailed = {}
    /\ session = [s \in Sessions |-> "new"]
    /\ op = MakeRevision(None, None, None)
    /\ crashes = 0
    /\ lost = 0

\* mkdir and report-source.json; the directory is never given up.
Mkdir ==
    /\ op # None
    /\ op.step = "mkdir"
    /\ dirs' = [dirs EXCEPT ![NextNumber] =
                    [editor |-> op.editor, packet |-> FALSE, parent |-> None,
                     review |-> None, claim |-> None]]
    /\ op' = [op EXCEPT !.step = "render", !.revision = NextNumber]
    /\ UNCHANGED <<clock, state, archive, mailed, session, crashes, lost>>

\* Rendering and freezing the packet succeed, or the failure is kept.
Render ==
    /\ op # None
    /\ op.step = "render"
    /\ \/ /\ dirs' = [dirs EXCEPT ![op.revision] = [@ EXCEPT !.packet = TRUE, !.parent = op.parent]]
          /\ op' = [op EXCEPT !.step = "publish"]
       \/ /\ op' = [op EXCEPT !.step = "fail"]
          /\ UNCHANGED dirs
    /\ UNCHANGED <<clock, state, archive, mailed, session, crashes, lost>>

\* state.json names the new revision, pending or failed.
CommitRevision ==
    /\ op # None
    /\ op.step \in {"publish", "fail"}
    /\ revision' = op.revision
    /\ status' = IF op.step = "publish" THEN "pending_review" ELSE "generation_failed"
    /\ op' = None
    /\ UNCHANGED <<clock, approval, files, mailed, session, crashes, lost>>

-----------------------------------------------------------------------------
\* Native sessions: the queue wakes one while a revision is unowned, and it
\* ends with an end record, or without one when its host dies.
Packet == dirs[revision]
Finished(s) == session[s] = "ended"

\* pending() of scripts/review_pipeline.py.
Unowned ==
    /\ status = "pending_review"
    /\ Packet.claim # None => Packet.claim.released \/ Finished(Packet.claim.by)

Wake(s) ==
    /\ session[s] = "new"
    /\ Unowned
    /\ session' = [session EXCEPT ![s] = "live"]
    /\ UNCHANGED <<clock, state, files, mailed, op, crashes, lost>>

\* Mutant of MayClaim: an abandoned claim may not be taken over.
MayClaimOnce(s, old) == old = None

\* claim_review: nobody claimed yet, the claim was released by another session,
\* or its owner's native session ended.  Claiming again returns the same claim.
MayClaim(s, old) ==
    \/ old = None
    \/ old # None /\ old.by # s /\ (old.released \/ Finished(old.by))

\* claim_report.
CanClaim(s) ==
    /\ status = "pending_review"
    /\ Packet.parent # s
    /\ MayClaim(s, Packet.claim)

ClaimReport(s) ==
    /\ op = None
    /\ session[s] = "live"
    /\ CanClaim(s)
    /\ dirs' = [dirs EXCEPT ![revision].claim =
                    [by |-> s, deadline |-> clock + ClaimTimeout, released |-> FALSE]]
    /\ UNCHANGED <<clock, state, archive, mailed, session, op, crashes, lost>>

\* A session ends when it has nothing to claim, its claim submitted or not.
End(s) ==
    /\ session[s] = "live"
    /\ ~CanClaim(s)
    /\ session' = [session EXCEPT ![s] = "ended"]
    /\ UNCHANGED <<clock, state, files, mailed, op, crashes, lost>>

\* It fails before it claims, or dies without an end record.
Lose(s) ==
    /\ session[s] = "live"
    /\ lost < MaxLost
    /\ lost' = lost + 1
    /\ \E how \in {"ended", "lost"} : session' = [session EXCEPT ![s] = how]
    /\ UNCHANGED <<clock, state, files, mailed, op, crashes>>

\* validate_claim: only the token of claim.json, unreleased and in time.
HoldsClaim(s) ==
    /\ Packet.claim # None
    /\ Packet.claim.by = s
    /\ ~Packet.claim.released
    /\ clock < Packet.claim.deadline

\* Mutant of Submit: review.json is left for a later step.
SubmitUnwritten(s, verdict) ==
    /\ op = None
    /\ session[s] = "live"
    /\ status = "pending_review"
    /\ HoldsClaim(s)
    /\ verdict = "changes_requested" => NextNumber <= MaxRevision
    /\ op' = [step |-> "release", by |-> s, verdict |-> verdict, editor |-> s,
              parent |-> s, revision |-> revision, at |-> clock]
    /\ UNCHANGED <<clock, state, files, mailed, session, crashes, lost>>

\* submit_report_review begins by writing review.json.
Submit(s, verdict) ==
    /\ op = None
    /\ session[s] = "live"
    /\ status = "pending_review"
    /\ HoldsClaim(s)
    /\ verdict = "changes_requested" => NextNumber <= MaxRevision
    /\ dirs' = [dirs EXCEPT ![revision].review = [by |-> s, verdict |-> verdict]]
    /\ op' = [step |-> "release", by |-> s, verdict |-> verdict, editor |-> s,
              parent |-> s, revision |-> revision, at |-> clock]
    /\ UNCHANGED <<clock, state, archive, mailed, session, crashes, lost>>

\* Then claim.json is released, and the verdict chooses what follows.
AfterRelease ==
    CASE op.verdict = "pass" -> [op EXCEPT !.step = "archive"]
      [] op.verdict = "changes_requested" -> MakeRevision(op.by, op.by, op.by)
      [] OTHER -> [op EXCEPT !.step = "decide"]

Release ==
    /\ op # None
    /\ op.step = "release"
    /\ dirs' = [dirs EXCEPT ![revision].claim.released = TRUE]
    /\ op' = AfterRelease
    /\ UNCHANGED <<clock, state, archive, mailed, session, crashes, lost>>

\* Mutant of Archive: the receipt names the following revision.
ArchiveNext ==
    /\ op # None
    /\ op.step = "archive"
    /\ archive' = op.revision + 1
    /\ op' = [op EXCEPT !.step = "decide"]
    /\ UNCHANGED <<clock, state, dirs, mailed, session, crashes, lost>>

\* The archive receipt of a passed revision.
Archive ==
    /\ op # None
    /\ op.step = "archive"
    /\ archive' = op.revision
    /\ op' = [op EXCEPT !.step = "decide"]
    /\ UNCHANGED <<clock, state, dirs, mailed, session, crashes, lost>>

\* state.json records the approval or the blocker.
Decide ==
    /\ op # None
    /\ op.step = "decide"
    /\ \/ /\ op.verdict = "pass"
          /\ status' = "approved"
          /\ approval' = [by |-> op.by, revision |-> op.revision, at |-> op.at]
       \/ /\ op.verdict # "pass"
          /\ status' = op.verdict
          /\ UNCHANGED approval
    /\ op' = None
    /\ UNCHANGED <<clock, revision, files, mailed, session, crashes, lost>>

\* regenerate_report: the operator renders the revision's source once more; the
\* next reviewer must differ from the session in review.json, if there is one.
Regenerate ==
    /\ op = None
    /\ status \in Blockers
    /\ NextNumber <= MaxRevision
    /\ op' = MakeRevision(None, Packet.editor,
                IF Packet.review = None THEN None ELSE Packet.review.by)
    /\ UNCHANGED <<clock, state, files, mailed, session, crashes, lost>>

-----------------------------------------------------------------------------
\* Mutant of BeginSend: a pending revision passes for an approved one.
BeginSendPending ==
    /\ op = None
    /\ status = "pending_review"
    /\ mailed \subseteq {revision}
    /\ op' = [MakeRevision(None, None, None) EXCEPT !.step = "send", !.revision = revision]
    /\ UNCHANGED <<clock, state, files, mailed, session, crashes, lost>>

\* send_approved checks the approval against the packet, its age, and that no
\* other revision was mailed; deliver() then runs under the same flock.
BeginSend ==
    /\ op = None
    /\ status = "approved"
    /\ approval.revision = revision
    /\ clock >= approval.at + SendDelay
    /\ mailed \subseteq {revision}
    /\ op' = [MakeRevision(None, None, None) EXCEPT !.step = "send", !.revision = revision]
    /\ UNCHANGED <<clock, state, files, mailed, session, crashes, lost>>

\* deliver() attempts a recipient (MailDelivery has the details).
Mail ==
    /\ op # None
    /\ op.step = "send"
    /\ mailed' = mailed \cup {op.revision}
    /\ UNCHANGED <<clock, state, files, session, op, crashes, lost>>

EndSend ==
    /\ op # None
    /\ op.step = "send"
    /\ op' = None
    /\ UNCHANGED <<clock, state, files, mailed, session, crashes, lost>>

-----------------------------------------------------------------------------
\* A process dies, or one of its writes fails: the flock is free again.
Crash ==
    /\ op # None
    /\ crashes < MaxCrashes
    /\ crashes' = crashes + 1
    /\ op' = None
    /\ UNCHANGED <<clock, state, files, mailed, session, lost>>

Tick ==
    /\ clock < MaxClock
    /\ clock' = clock + 1
    /\ UNCHANGED <<state, files, mailed, session, op, crashes, lost>>

Proceed ==
    Mkdir \/ Render \/ CommitRevision \/ Release \/ Archive \/ Decide \/ EndSend

Next ==
    \/ Proceed \/ Mail \/ Crash \/ Tick \/ Regenerate \/ BeginSend
    \/ \E s \in Sessions : Wake(s) \/ End(s) \/ Lose(s) \/ ClaimReport(s)
    \/ \E s \in Sessions, v \in Verdicts : Submit(s, v)

Spec == Init /\ [][Next]_vars

\* Processes go on, cron wakes sessions, a session claims what it was woken for
\* and ends.
Fairness ==
    /\ WF_vars(Proceed)
    /\ WF_vars(\E s \in Sessions : Wake(s))
    /\ \A s \in Sessions : WF_vars(ClaimReport(s)) /\ WF_vars(End(s))

FairSpec == Spec /\ Fairness

-----------------------------------------------------------------------------
\* Safety

\* An approval is only ever recorded for a revision whose complete packet the
\* approving session reviewed: review.json, the released claim, archive.json
\* and state.json were written in separate steps and still agree.
ApprovalIsBacked ==
    status = "approved" =>
        /\ approval # None
        /\ approval.revision = revision
        /\ archive = revision
        /\ Packet.packet
        /\ Packet.review = [by |-> approval.by, verdict |-> "pass"]
        /\ Packet.claim # None
        /\ Packet.claim.by = approval.by
        /\ Packet.claim.released

\* The session that asked for a correction does not approve the corrected PDF.
ParentNeverApproves ==
    status = "approved" => approval.by # Packet.parent

\* A claim is closed only when its owner's review is on disk, so a crash cannot
\* lose a verdict and leave its claim closed.
ReleasedClaimHasReview ==
    \A r \in Revisions :
        dirs[r] # None /\ dirs[r].claim # None /\ dirs[r].claim.released =>
            /\ dirs[r].review # None
            /\ dirs[r].review.by = dirs[r].claim.by

\* Mail is only ever attempted for the approved revision.
MailIsApproved ==
    mailed # {} => status = "approved" /\ mailed = {approval.revision}

\* and no earlier than SendDelay after the reviewer passed it.
MailIsAged ==
    [][mailed' # mailed => approval # None /\ clock >= approval.at + SendDelay]_vars

\* A rendered revision never changes, and neither does a used number: crashes
\* leave orphaned directories that later operations may not overwrite.
RevisionsAreImmutable ==
    [][\A r \in Revisions : dirs[r] # None =>
        /\ dirs'[r] # None
        /\ dirs'[r].editor = dirs[r].editor
        /\ dirs[r].packet => dirs'[r].packet /\ dirs'[r].parent = dirs[r].parent]_vars

\* Nothing withdraws or replaces an approval.
ApprovalIsFinal ==
    [][status = "approved" => UNCHANGED <<state, files>>]_vars

\* A claim that was not released passes on only after its owner's session ended.
TakeoverNeedsEnd ==
    [][\A r \in Revisions :
        LET Old == dirs[r].claim
        IN  dirs[r] # None /\ Old # None /\ ~Old.released /\ dirs'[r].claim.by # Old.by
            => Finished(Old.by)]_vars

\* A pending review that nobody owns, or whose owner ended, is owned again as
\* long as cron has more sessions to wake than may still vanish, whatever crash
\* left it behind.
NotOrphaned ==
    Unowned /\ Cardinality({s \in Sessions : session[s] = "new"}) > MaxLost - lost
        ~> ~Unowned

\* What report-metadata.md says: an edited revision is for another context.
EditorNeverApproves ==
    status = "approved" => approval.by # Packet.editor
=============================================================================
