----------------------- MODULE SnapshotPublisherProofs -----------------------
(***************************************************************************)
(* Proofs about SnapshotPublisher, for any revisions, merges, attempts,    *)
(* failures and crashes: its types; that a scheduled run which skips has   *)
(* nothing to do; and that merges to main alone leave no residue.          *)
(***************************************************************************)
EXTENDS SnapshotPublisher, TLAPS

TypeInv ==
    /\ TypeOK
    /\ unrecorded <= failures + crashes
    /\ run # None /\ run.at \notin {"stale", "freeze", "record"} => run.rev # None

\* What Offered says, of any revision.
OfferedAs(r) ==
    IF rolling = None THEN main.shown = r
    ELSE rolling.shown = r /\ (pr \/ main.shown = r)

Succeeded == {"no-op", "cleaned", "unchanged", "published"}

\* What a run knows of the remote at each step, whatever people merge meanwhile.
RunInv ==
    /\ run # None /\ run.at \in {"main", "branch"} /\ run.old = None => rolling = None
    /\ At("branch") /\ run.old = None => main.shown = run.base.shown
    /\ At("delete") => run.old # None /\ ~Changes
    /\ At("deleted") => rolling = None /\ ~Changes
    /\ At("pr") => run.result \in Succeeded
    /\ At("restore") \/ At("restore?") => run.error # None
    /\ At("pr") \/ At("window") \/ (At("cleanup") /\ run.error = None) =>
        rolling = None \/ rolling.shown = run.rev

\* What a receipt says is offered, and what a run is about to write in one.
RecordInv ==
    /\ At("record") /\ run.result \in Succeeded => OfferedAs(run.rev)
    /\ At("record") /\ run.result = "revision-unchanged" /\ unrecorded = 0 =>
        OfferedAs(receipt.last)
    /\ unrecorded = 0 /\ run = None /\ ~receipt.failed /\ receipt.last # None =>
        OfferedAs(receipt.last)

\* Where the candidate and the branch are while nothing has failed.
ResidueInv ==
    failures = 0 /\ crashes = 0 =>
        /\ ~Promoting => candidate = None
        /\ ~At("candidate?")
        /\ run # None => run.old \in good \cup {None}
        /\ \/ rolling \in good \cup {None}
           \/ (At("window") \/ At("restore")) /\ rolling = Built

-----------------------------------------------------------------------------
\* What the updates of a run keep of it.
Keeps == run'.rev = run.rev /\ run'.base = run.base /\ run'.old = run.old

\* What a run holds.
LEMMA RunFields ==
  ASSUME NEW r \in Run
  PROVE /\ r.at \in Steps /\ r.rev \in Revisions \cup {None} /\ r.base \in Main
        /\ r.old \in Commit \cup {None} /\ r.attempt \in 1..BaseAttempts
        /\ r.error \in Errors /\ r.result \in Results
        /\ r # None
BY NoneAssumption DEF Run

\* A run begins with its first step.
LEMMA BeginEffect ==
  ASSUME main \in Main, NEW step \in Steps, NEW result \in Results, Begin(result, step)
  PROVE run' \in Run /\ run'.at = step /\ run'.result = result /\ run'.old = None
BY BoundsAssumption DEF Begin, Run, Errors

\* A run goes to its next step.
LEMMA GoToEffect ==
  ASSUME run \in Run, NEW step \in Steps, GoTo(step)
  PROVE /\ run' \in Run /\ run'.at = step /\ Keeps
        /\ run'.error = run.error /\ run'.result = run.result
BY DEF GoTo, Run, Keeps

\* A run has its result.
LEMMA DoneEffect ==
  ASSUME run \in Run, NEW result \in Results, Done(result)
  PROVE run' \in Run /\ run'.at = "record" /\ run'.result = result /\ Keeps
BY DEF Done, Run, Steps, Keeps

\* A run fails.
LEMMA FailEffect ==
  ASSUME run \in Run, Fail
  PROVE run' \in Run /\ run'.at = "record" /\ run'.result = "failed" /\ Keeps
BY DoneEffect DEF Fail, Results

\* A run removes its candidate.
LEMMA CleanUpEffect ==
  ASSUME run \in Run, NEW error \in Errors, CleanUp(error)
  PROVE run' \in Run /\ run'.at = "cleanup" /\ run'.error = error /\ Keeps
BY DEF CleanUp, Run, Steps, Keeps

\* A run begins anew, or gives up.
LEMMA AgainEffect ==
  ASSUME run \in Run, Again
  PROVE /\ run' \in Run /\ Keeps
        /\ \/ run'.at = "freeze"
           \/ run'.at = "record" /\ run'.result = "failed"
<1>1. CASE Fail
  BY <1>1, FailEffect
<1>2. CASE /\ run.attempt < BaseAttempts
           /\ run' = [run EXCEPT !.at = "freeze", !.attempt = @ + 1, !.error = None]
  <2>1. run.attempt \in 1..BaseAttempts /\ run.attempt + 1 \in 1..BaseAttempts
    BY <1>2, RunFields, BoundsAssumption
  <2>2. "freeze" \in Steps /\ None \in Errors
    BY DEF Steps, Errors
  <2> QED BY <1>2, <2>1, <2>2 DEF Run, Keeps
<1> QED BY <1>1, <1>2 DEF Again

\* A run goes on with an error.
LEMMA ErrorEffect ==
  ASSUME run \in Run, NEW step \in Steps, NEW error \in Errors,
         run' = [run EXCEPT !.at = step, !.error = error]
  PROVE run' \in Run /\ run'.at = step /\ run'.error = error /\ Keeps
BY DEF Run, Keeps

\* A run goes on with a result.
LEMMA ResultEffect ==
  ASSUME run \in Run, NEW step \in Steps, NEW result \in Results,
         run' = [run EXCEPT !.at = step, !.result = result]
  PROVE run' \in Run /\ run'.at = step /\ run'.result = result /\ Keeps
BY DEF Run, Keeps

\* A run remembers what it reads.
LEMMA ReadEffect ==
  ASSUME run \in Run, run' \in {[run EXCEPT !.at = "base", !.rev = revision],
                                [run EXCEPT !.at = "look", !.base = main],
                                [run EXCEPT !.at = "main", !.old = rolling]},
         revision \in Revisions, main \in Main, rolling \in Commit \cup {None}
  PROVE /\ run' \in Run
        /\ run' = [run EXCEPT !.at = "base", !.rev = revision] => run'.at = "base"
        /\ run' = [run EXCEPT !.at = "look", !.base = main] => run'.at = "look"
        /\ run' = [run EXCEPT !.at = "main", !.old = rolling] =>
             run'.at = "main" /\ run'.old = rolling
BY DEF Run, Steps

\* What a run builds is a commit.
LEMMA BuiltType ==
  ASSUME run \in Run, run.rev # None PROVE Built \in Commit /\ Built.shown = run.rev
<1>1. run.base \in Main /\ run.rev \in Revisions
  BY RunFields
<1> QED BY <1>1 DEF Built, Main, Commit

-----------------------------------------------------------------------------
\* A run stays a run, and knows its revision once it has frozen it.
RunType ==
    /\ run \in Run \cup {None}
    /\ run # None /\ run.at \notin {"stale", "freeze", "record"} => run.rev # None

\* Every step leaves a run or none.
LEMMA RunStep ==
  ASSUME TypeInv, Next PROVE RunType'
<1> USE DEF RunType, Keeps
<1>0. RunType /\ main \in Main /\ revision \in Revisions /\ rolling \in Commit \cup {None}
  BY DEF TypeInv, TypeOK
<1>1. CASE StartScheduled
  BY <1>1, <1>0, BeginEffect
    DEF StartScheduled, Steps, Results, Errors
<1>2. CASE StartManual
  BY <1>2, <1>0, BeginEffect
    DEF StartManual, Steps, Results, Errors
<1>3. CASE CheckStale
  BY <1>3, <1>0, GoToEffect, FailEffect
    DEF CheckStale, At, Steps, Results, Errors
<1>4. CASE Freeze
  BY <1>4, <1>0, ReadEffect, NoneAssumption
    DEF Freeze, At, Steps, Results, Errors, Run
<1>5. CASE Clone
  BY <1>5, <1>0, ReadEffect
    DEF Clone, At, Steps, Results, Errors
<1>6. CASE Look
  BY <1>6, <1>0, ReadEffect
    DEF Look, At, Steps, Results, Errors
<1>7. CASE RecheckMain
  BY <1>7, <1>0, GoToEffect, AgainEffect
    DEF RecheckMain, At, Steps, Results, Errors
<1>8. CASE RecheckBranch
  BY <1>8, <1>0, GoToEffect, DoneEffect, FailEffect, ResultEffect, RunFields
    DEF RecheckBranch, At, Steps, Results, Errors
<1>9. CASE Delete
  BY <1>9, <1>0, GoToEffect, FailEffect
    DEF Delete, At, Leased, Works, Refused, Lost, Fails, Steps, Results, Errors
<1>10. CASE Deleted
  BY <1>10, <1>0, DoneEffect, AgainEffect
    DEF Deleted, At, Steps, Results, Errors
<1>11. CASE PushCandidate
  BY <1>11, <1>0, GoToEffect
    DEF PushCandidate, At, Works, Fails, Steps, Results, Errors
<1>12. CASE LookForCandidate
  BY <1>12, <1>0, GoToEffect, FailEffect
    DEF LookForCandidate, At, Steps, Results, Errors
<1>13. CASE Confirm
  BY <1>13, <1>0, GoToEffect, CleanUpEffect
    DEF Confirm, At, Steps, Results, Errors
<1>14. CASE Promote
  BY <1>14, <1>0, GoToEffect
    DEF Promote, At, Leased, Works, Refused, Lost, Fails, Steps, Results, Errors
<1>15. CASE LookForPromoted
  BY <1>15, <1>0, GoToEffect, CleanUpEffect
    DEF LookForPromoted, At, Steps, Results, Errors
<1>16. CASE Window
  BY <1>16, <1>0, CleanUpEffect, ErrorEffect
    DEF Window, At, Steps, Results, Errors
<1>17. CASE Restore
  BY <1>17, <1>0, GoToEffect
    DEF Restore, At, Leased, Refused, Works, Lost, Fails, Steps, Results, Errors
<1>18. CASE LookForRestored
  BY <1>18, <1>0, CleanUpEffect, RunFields
    DEF LookForRestored, At, Steps, Results, Errors
<1>19. CASE DeleteCandidate
  BY <1>19, <1>0, FailEffect, AgainEffect, ResultEffect
    DEF DeleteCandidate, At, Works, Fails, Steps, Results, Errors
<1>20. CASE EnsurePr
  BY <1>20, <1>0, DoneEffect, FailEffect, RunFields
    DEF EnsurePr, At, Steps, Results, Errors
<1>21. CASE Record
  BY <1>21, <1>0, FailEffect
    DEF Record, At, Receipt, Works, Fails, Steps, Results, Errors
<1>22. CASE CommandFails
  BY <1>22, <1>0, FailEffect, CleanUpEffect, ErrorEffect
    DEF CommandFails, Reads, Fails, Steps, Results, Errors
<1>23. CASE Crash
  BY <1>23, <1>0
    DEF Crash
<1>24. CASE Approve
  BY <1>24, <1>0
    DEF Approve
<1>25. CASE Merge
  BY <1>25, <1>0
    DEF Merge
<1>26. CASE MergeOther
  BY <1>26, <1>0
    DEF MergeOther
<1>27. CASE RemoveCandidate
  BY <1>27, <1>0
    DEF RemoveCandidate
<1> QED BY <1>1, <1>2, <1>3, <1>4, <1>5, <1>6, <1>7, <1>8, <1>9, <1>10, <1>11,
    <1>12, <1>13, <1>14, <1>15, <1>16, <1>17, <1>18, <1>19, <1>20, <1>21, <1>22,
    <1>23, <1>24, <1>25, <1>26, <1>27 DEF Next, Proceed, Promotes

\* The remote keeps its types: a run pushes commits it built, people merge the branch.
RemoteType ==
    /\ main \in Main /\ main.version \in 0..MaxVersion
    /\ rolling \in Commit \cup {None}
    /\ candidate \in Commit \cup {None}
    /\ pr \in BOOLEAN /\ (pr => rolling # None)
    /\ good \subseteq Commit

\* A push that takes effect.
LEMMA LeasedEffect ==
  ASSUME NEW expected, NEW new, Leased(expected, new)
  PROVE rolling = expected /\ rolling' = new /\ pr' \in BOOLEAN /\ (pr' => pr /\ new # None)
BY DEF Leased

\* The commits of main.
LEMMA MainStep ==
  ASSUME main \in Main, main.version \in 0..MaxVersion, main.version < MaxVersion
  PROVE /\ \A r \in Revisions :
             /\ [main EXCEPT !.version = @ + 1, !.shown = r] \in Main
             /\ [main EXCEPT !.version = @ + 1, !.shown = r].version \in 0..MaxVersion
        /\ [main EXCEPT !.version = @ + 1, !.other = @ + 1] \in Main
        /\ [main EXCEPT !.version = @ + 1, !.other = @ + 1].version \in 0..MaxVersion
<1>1. main.version + 1 \in Nat /\ main.version + 1 \in 0..MaxVersion
  BY BoundsAssumption
<1>2. main.other + 1 \in Nat
  BY DEF Main
<1> QED BY <1>1, <1>2 DEF Main

\* Every step keeps the remote's types.
LEMMA RemoteStep ==
  ASSUME TypeInv, Next PROVE RemoteType'
<1> USE DEF RemoteType
<1>0. /\ RemoteType /\ run \in Run \cup {None}
      /\ run # None /\ run.at \notin {"stale", "freeze", "record"} => run.rev # None
  BY DEF TypeInv, TypeOK
<1>1. CASE StartScheduled
  BY <1>1, <1>0
    DEF StartScheduled, remote, bounds
<1>2. CASE StartManual
  BY <1>2, <1>0
    DEF StartManual, remote, bounds
<1>3. CASE CheckStale
  BY <1>3, <1>0
    DEF CheckStale, remote, bounds
<1>4. CASE Freeze
  BY <1>4, <1>0
    DEF Freeze, remote, bounds
<1>5. CASE Clone
  BY <1>5, <1>0
    DEF Clone, remote, bounds
<1>6. CASE Look
  BY <1>6, <1>0
    DEF Look, remote, bounds
<1>7. CASE RecheckMain
  BY <1>7, <1>0
    DEF RecheckMain, remote, bounds
<1>8. CASE RecheckBranch
  BY <1>8, <1>0, RunFields
    DEF RecheckBranch, At, bounds, SameTree
<1>9. CASE Delete
  BY <1>9, <1>0, RunFields, NoneAssumption, LeasedEffect
    DEF Delete, Refused, Lost, At
<1>10. CASE Deleted
  BY <1>10, <1>0
    DEF Deleted, remote, bounds
<1>11. CASE PushCandidate
  BY <1>11, <1>0, BuiltType
    DEF PushCandidate, At
<1>12. CASE LookForCandidate
  BY <1>12, <1>0
    DEF LookForCandidate, remote, bounds
<1>13. CASE Confirm
  BY <1>13, <1>0
    DEF Confirm, remote, bounds
<1>14. CASE Promote
  BY <1>14, <1>0, BuiltType, RunFields, NoneAssumption, LeasedEffect
    DEF Promote, At, Refused, Lost
<1>15. CASE LookForPromoted
  BY <1>15, <1>0, BuiltType
    DEF LookForPromoted, At, remote, bounds
<1>16. CASE Window
  BY <1>16, <1>0, BuiltType
    DEF Window, At, bounds
<1>17. CASE Restore
  BY <1>17, <1>0, BuiltType, RunFields, NoneAssumption, LeasedEffect
    DEF Restore, At, Refused, Lost
<1>18. CASE LookForRestored
  BY <1>18, <1>0
    DEF LookForRestored, remote, bounds
<1>19. CASE DeleteCandidate
  BY <1>19, <1>0
    DEF DeleteCandidate
<1>20. CASE EnsurePr
  <2>1. UNCHANGED <<main, rolling, candidate, good>>
    BY <1>20 DEF EnsurePr
  <2>2. (pr' = TRUE /\ rolling # None) \/ pr' = pr
    BY <1>20 DEF EnsurePr
  <2>3. pr' \in BOOLEAN /\ (pr' => rolling # None)
    <3>1. CASE pr' = TRUE /\ rolling # None
      BY <3>1, Zenon
    <3>2. CASE pr' = pr
      BY <3>2, <1>0, Zenon
    <3> QED BY <2>2, <3>1, <3>2
  <2> QED BY <1>0, <2>1, <2>3, Zenon
<1>21. CASE Record
  BY <1>21, <1>0
    DEF Record, remote
<1>22. CASE CommandFails
  BY <1>22, <1>0
    DEF CommandFails, remote
<1>23. CASE Crash
  BY <1>23, <1>0
    DEF Crash, remote
<1>24. CASE Approve
  BY <1>24, <1>0
    DEF Approve, remote
<1>25. CASE Merge
  <2>1. pr /\ rolling # None /\ rolling \in Commit /\ rolling.shown \in Revisions
    BY <1>25, <1>0 DEF Merge, Commit
  <2>2. main' \in Main /\ main'.version \in 0..MaxVersion
    BY <1>25, <1>0, <2>1, MainStep DEF Merge
  <2> QED BY <1>25, <1>0, <2>2 DEF Merge, bounds
<1>26. CASE MergeOther
  BY <1>26, <1>0, MainStep
    DEF MergeOther, bounds
<1>27. CASE RemoveCandidate
  BY <1>27, <1>0
    DEF RemoveCandidate, bounds
<1> QED BY <1>1, <1>2, <1>3, <1>4, <1>5, <1>6, <1>7, <1>8, <1>9, <1>10, <1>11,
    <1>12, <1>13, <1>14, <1>15, <1>16, <1>17, <1>18, <1>19, <1>20, <1>21, <1>22,
    <1>23, <1>24, <1>25, <1>26, <1>27 DEF Next, Proceed, Promotes

\* The counters keep their bounds.
LEMMA CountersStep ==
  ASSUME TypeInv, Next
  PROVE /\ approvals' \in 0..MaxApprovals /\ failures' \in 0..MaxFailures
        /\ crashes' \in 0..MaxCrashes /\ unrecorded' \in Nat
        /\ unrecorded' <= failures' + crashes'
<1> USE BoundsAssumption
<1>0. /\ approvals \in 0..MaxApprovals /\ failures \in 0..MaxFailures
      /\ crashes \in 0..MaxCrashes /\ unrecorded \in Nat
      /\ unrecorded <= failures + crashes
  BY DEF TypeInv, TypeOK
<1>1. CASE StartScheduled
  BY <1>0, <1>1 DEF StartScheduled, bounds
<1>2. CASE StartManual
  BY <1>0, <1>2 DEF StartManual, bounds
<1>3. CASE CheckStale
  BY <1>0, <1>3 DEF CheckStale, bounds
<1>4. CASE Freeze
  BY <1>0, <1>4 DEF Freeze, bounds
<1>5. CASE Clone
  BY <1>0, <1>5 DEF Clone, bounds
<1>6. CASE Look
  BY <1>0, <1>6 DEF Look, bounds
<1>7. CASE RecheckMain
  BY <1>0, <1>7 DEF RecheckMain, bounds
<1>8. CASE RecheckBranch
  BY <1>0, <1>8 DEF RecheckBranch, bounds
<1>9. CASE Delete
  BY <1>0, <1>9 DEF Delete, Works, Lost, Fails
<1>10. CASE Deleted
  BY <1>0, <1>10 DEF Deleted, bounds
<1>11. CASE PushCandidate
  BY <1>0, <1>11 DEF PushCandidate, Fails, Works
<1>12. CASE LookForCandidate
  BY <1>0, <1>12 DEF LookForCandidate, bounds
<1>13. CASE Confirm
  BY <1>0, <1>13 DEF Confirm, bounds
<1>14. CASE Promote
  BY <1>0, <1>14 DEF Promote, Works, Lost, Fails
<1>15. CASE LookForPromoted
  BY <1>0, <1>15 DEF LookForPromoted, bounds
<1>16. CASE Window
  BY <1>0, <1>16 DEF Window, bounds
<1>17. CASE Restore
  BY <1>0, <1>17 DEF Restore, Works, Lost, Fails
<1>18. CASE LookForRestored
  BY <1>0, <1>18 DEF LookForRestored, bounds
<1>19. CASE DeleteCandidate
  BY <1>0, <1>19 DEF DeleteCandidate, Fails, Works
<1>20. CASE EnsurePr
  BY <1>0, <1>20 DEF EnsurePr, bounds
<1>21. CASE Record
  BY <1>0, <1>21 DEF Record, Fails, Works
<1>22. CASE CommandFails
  BY <1>0, <1>22 DEF CommandFails, Fails
<1>23. CASE Crash
  BY <1>0, <1>23 DEF Crash
<1>24. CASE Approve
  BY <1>0, <1>24 DEF Approve
<1>25. CASE Merge
  BY <1>0, <1>25 DEF Merge, bounds
<1>26. CASE MergeOther
  BY <1>0, <1>26 DEF MergeOther, bounds
<1>27. CASE RemoveCandidate
  BY <1>0, <1>27 DEF RemoveCandidate, bounds
<1> QED BY <1>1, <1>2, <1>3, <1>4, <1>5, <1>6, <1>7, <1>8, <1>9, <1>10, <1>11,
    <1>12, <1>13, <1>14, <1>15, <1>16, <1>17, <1>18, <1>19, <1>20, <1>21, <1>22,
    <1>23, <1>24, <1>25, <1>26, <1>27 DEF Next, Proceed, Promotes

\* Every step keeps the types and the bounds.
LEMMA TypeStep ==
  ASSUME TypeInv, Next PROVE TypeInv'
<1>1. revision' \in Revisions
  BY DEF TypeInv, TypeOK, Next, Proceed, Promotes, StartScheduled, StartManual,
    CheckStale, Freeze, Clone, Look, RecheckMain, RecheckBranch, Delete, Deleted,
    PushCandidate, LookForCandidate, Confirm, Promote, LookForPromoted, Window,
    Restore, LookForRestored, DeleteCandidate, EnsurePr, Record, CommandFails,
    Crash, Approve, Merge, MergeOther, RemoveCandidate
<1>2. receipt' \in [failed : BOOLEAN, last : Revisions \cup {None}]
  <2>0. receipt \in [failed : BOOLEAN, last : Revisions \cup {None}] /\ run \in Run \cup {None}
    BY DEF TypeInv, TypeOK
  <2>1. CASE Record
    <3>1. run.rev \in Revisions \cup {None} /\ run # None
      BY <2>0, <2>1, RunFields DEF Record, At
    <3>2. receipt.last \in Revisions \cup {None}
      BY <2>0
    <3>3. receipt' = receipt \/ receipt' = Receipt(run.result)
      BY <2>1 DEF Record
    <3>4. PICK b \in BOOLEAN, r \in Revisions \cup {None} : receipt' = [failed |->
      b, last |-> r]
      <4>1. CASE receipt' = receipt
        <5>1. receipt = [failed |-> receipt.failed, last |-> receipt.last] /\ receipt.failed \in BOOLEAN
          BY <2>0
        <5> QED BY <4>1, <5>1, <3>2
      <4>2. CASE receipt' = Receipt(run.result) /\ run.result = "failed"
        <5>1. receipt' = [failed |-> TRUE, last |-> receipt.last]
          BY <4>2 DEF Receipt
        <5> QED BY <5>1, <3>2
      <4>3. CASE receipt' = Receipt(run.result) /\ run.result = "revision-unchanged"
        <5>1. receipt' = [failed |-> FALSE, last |-> receipt.last]
          BY <4>3 DEF Receipt
        <5> QED BY <5>1, <3>2
      <4>4. CASE receipt' = Receipt(run.result) /\ run.result \notin {"failed", "revision-unchanged"}
        <5>1. receipt' = [failed |-> FALSE, last |-> run.rev]
          BY <4>4 DEF Receipt
        <5> QED BY <5>1, <3>1
      <4> QED BY <3>3, <4>1, <4>2, <4>3, <4>4
    <3> QED BY <3>4
  <2>2. CASE ~Record
    <3>1. receipt' = receipt
      BY <2>2 DEF Next, Proceed, Promotes, StartScheduled, StartManual, CheckStale,
        Freeze, Clone, Look, RecheckMain, RecheckBranch, Delete, Deleted,
        PushCandidate, LookForCandidate, Confirm, Promote, LookForPromoted, Window,
        Restore, LookForRestored, DeleteCandidate, EnsurePr, CommandFails, Crash,
        Approve, Merge, MergeOther, RemoveCandidate
    <3> QED BY <2>0, <3>1
  <2> QED BY <2>1, <2>2
<1>3. unrecorded' \in 0..(MaxFailures + MaxCrashes)
  BY CountersStep, BoundsAssumption
<1> QED
  BY <1>1, <1>2, <1>3, RunStep, RemoteStep, CountersStep
  DEF TypeInv, TypeOK, RunType, RemoteType

\* The strengthened types hold always.
LEMMA TypeHolds == Spec => []TypeInv
<1>1. Init => TypeInv
  <2> SUFFICES ASSUME Init PROVE TypeInv
    OBVIOUS
  <2>1. main \in Main /\ main.version \in 0..MaxVersion
    BY BoundsAssumption DEF Init, Main
  <2>2. receipt \in [failed : BOOLEAN, last : Revisions \cup {None}]
    BY DEF Init
  <2>3. /\ run = None /\ rolling = None /\ candidate = None /\ pr = FALSE /\ good = {}
        /\ revision \in Revisions
    BY DEF Init
  <2>4. /\ approvals \in 0..MaxApprovals /\ failures \in 0..MaxFailures
        /\ crashes \in 0..MaxCrashes /\ unrecorded \in 0..(MaxFailures + MaxCrashes)
        /\ unrecorded <= failures + crashes
    BY BoundsAssumption DEF Init
  <2> QED BY <2>1, <2>2, <2>3, <2>4 DEF TypeInv, TypeOK
<1>2. TypeInv /\ [Next]_vars => TypeInv'
  <2>1. TypeInv /\ Next => TypeInv'
    BY TypeStep
  <2>2. TypeInv /\ UNCHANGED vars => TypeInv'
    BY DEF TypeInv, TypeOK, vars, remote, bounds
  <2> QED BY <2>1, <2>2
<1> QED BY <1>1, <1>2, PTL DEF Spec

\* The types of the publisher's state, for every number of revisions, merges,
\* attempts, failures and crashes.
THEOREM TypeCorrect == Spec => []TypeOK
<1>1. TypeInv => TypeOK
  BY DEF TypeInv
<1> QED BY <1>1, TypeHolds, PTL

-----------------------------------------------------------------------------
\* A run that is at none of the steps RunInv speaks of satisfies it.
LEMMA Elsewhere ==
  ASSUME run' = None \/ (/\ run' \in Run
                         /\ run'.at \notin {"main", "branch", "delete", "deleted", "pr",
                                           "window", "restore", "restore?"}
                         /\ run'.at = "cleanup" => run'.error # None)
  PROVE RunInv'
BY DEF RunInv, At

\* What a run knows of the remote it keeps knowing.
LEMMA RunInvStep ==
  ASSUME TypeInv, TypeInv', RunInv, Next PROVE RunInv'
<1> USE DEF RunInv, Keeps, At
<1>0. /\ run \in Run \cup {None} /\ main \in Main /\ revision \in Revisions
      /\ rolling \in Commit \cup {None} /\ (pr => rolling # None)
  BY DEF TypeInv, TypeOK
<1>1. CASE StartScheduled
  BY <1>1, <1>0, BeginEffect, NoneAssumption, Elsewhere
    DEF StartScheduled, Steps, Errors, Results
<1>2. CASE StartManual
  BY <1>2, <1>0, BeginEffect, NoneAssumption, Elsewhere
    DEF StartManual, Steps, Errors, Results
<1>3. CASE CheckStale
  BY <1>3, <1>0, GoToEffect, FailEffect, NoneAssumption, Elsewhere
    DEF CheckStale, At, Steps, Errors, Results
<1>4. CASE Freeze
  BY <1>4, <1>0, ReadEffect, NoneAssumption, Elsewhere
    DEF Freeze, At, Steps, Errors, Results
<1>5. CASE Clone
  BY <1>5, <1>0, ReadEffect, NoneAssumption, Elsewhere
    DEF Clone, At, Steps, Errors, Results
<1>6. CASE Look
  <2>1. run' = [run EXCEPT !.at = "main", !.old = rolling] /\ run \in Run /\ rolling' = rolling
    BY <1>6, <1>0 DEF Look, remote
  <2>2. run'.at = "main" /\ run'.old = rolling
    BY <2>1 DEF Run
  <2> QED BY <2>1, <2>2
<1>7. CASE RecheckMain
  BY <1>7, <1>0, GoToEffect, AgainEffect, RunFields
    DEF RecheckMain, At, Steps, Results, Errors, Changes, Succeeded, remote, bounds
<1>8. CASE RecheckBranch
  BY <1>8, <1>0, GoToEffect, DoneEffect, FailEffect, ResultEffect, RunFields
    DEF RecheckBranch, At, Changes, Steps, Results, Errors, Succeeded, Built, SameTree,
      bounds
<1>9. CASE Delete
  BY <1>9, <1>0, GoToEffect, FailEffect, RunFields, NoneAssumption
    DEF Delete, At, Leased, Refused, Lost, Steps, Results, Errors, Changes, Succeeded
<1>10. CASE Deleted
  BY <1>10, <1>0, DoneEffect, AgainEffect, RunFields
    DEF Deleted, At, Steps, Results, Errors, Changes, Succeeded, remote, bounds
<1>11. CASE PushCandidate
  BY <1>11, <1>0, GoToEffect, NoneAssumption, Elsewhere
    DEF PushCandidate, At, Steps, Errors, Results
<1>12. CASE LookForCandidate
  BY <1>12, <1>0, GoToEffect, FailEffect, NoneAssumption, Elsewhere
    DEF LookForCandidate, At, Steps, Errors, Results
<1>13. CASE Confirm
  BY <1>13, <1>0, GoToEffect, CleanUpEffect, NoneAssumption, Elsewhere
    DEF Confirm, At, Steps, Errors, Results
<1>14. CASE Promote
  <2>1. /\ run \in Run /\ run' \in Run /\ run'.rev = run.rev
        /\ \/ run'.at = "window" /\ rolling' = Built /\ Built.shown = run.rev
           \/ run'.at = "promote?"
    BY <1>14, <1>0, GoToEffect, LeasedEffect, RunFields DEF Promote, Steps, Built
  <2> QED BY <2>1
<1>15. CASE LookForPromoted
  <2>1. /\ run \in Run /\ run' \in Run /\ run'.rev = run.rev
        /\ \/ run'.at = "window" /\ rolling' = Built /\ Built.shown = run.rev
           \/ run'.at = "cleanup" /\ run'.error # None
    BY <1>15, <1>0, GoToEffect, CleanUpEffect, RunFields, NoneAssumption
    DEF LookForPromoted, Steps, Errors, remote, Built
  <2> QED BY <2>1
<1>16. CASE Window
  <2>1. /\ run # None /\ run.at = "window" /\ run' \in Run /\ run'.rev = run.rev
        /\ rolling' = rolling
        /\ \/ run'.at = "cleanup"
           \/ run'.at = "restore" /\ run'.error # None
    BY <1>16, <1>0, CleanUpEffect, ErrorEffect, NoneAssumption DEF Window, Steps, Errors
  <2> QED BY <2>1
<1>17. CASE Restore
  BY <1>17, <1>0, GoToEffect, RunFields, NoneAssumption
    DEF Restore, At, Leased, Refused, Lost, Steps, Results, Errors, Changes, Succeeded
<1>18. CASE LookForRestored
  <2>1. /\ run \in Run /\ run' \in Run /\ run'.rev = run.rev
        /\ \/ FALSE
           \/ run'.at = "cleanup" /\ run'.error # None
    BY <1>18, <1>0, CleanUpEffect, RunFields, NoneAssumption
    DEF LookForRestored, Steps, Errors, remote
  <2> QED BY <2>1
<1>19. CASE DeleteCandidate
  BY <1>19, <1>0, FailEffect, AgainEffect, ResultEffect, RunFields
    DEF DeleteCandidate, At, Steps, Results, Errors, Changes, Succeeded
<1>20. CASE EnsurePr
  BY <1>20, <1>0, DoneEffect, FailEffect, RunFields
    DEF EnsurePr, At, Steps, Results, Errors, Changes, Succeeded, bounds
<1>21. CASE Record
  BY <1>21, <1>0, FailEffect, NoneAssumption, Elsewhere
    DEF Record, At, Steps, Errors, Results
<1>22. CASE CommandFails
  <2>1. /\ run \in Run /\ run' \in Run /\ run'.at \in {"record", "cleanup", "restore"}
        /\ run'.at # "record" => run'.error = "failed"
    BY <1>22, <1>0, FailEffect, CleanUpEffect, ErrorEffect DEF CommandFails, Steps,
      Errors
  <2> QED BY <2>1, NoneAssumption
<1>23. CASE Crash
  BY <1>23, <1>0, NoneAssumption, Elsewhere
    DEF Crash, Steps, Errors, Results
<1>24. CASE Approve
  BY <1>24, <1>0, RunFields
    DEF Approve, Changes, Succeeded, remote
<1>25. CASE Merge
  BY <1>0, <1>25 DEF Merge, Changes, bounds, Main
<1>26. CASE MergeOther
  BY <1>0, <1>26 DEF MergeOther, Changes, bounds, Main
<1>27. CASE RemoveCandidate
  BY <1>27, <1>0, RunFields
    DEF RemoveCandidate, Changes, Succeeded, bounds
<1> QED BY <1>1, <1>2, <1>3, <1>4, <1>5, <1>6, <1>7, <1>8, <1>9, <1>10, <1>11,
    <1>12, <1>13, <1>14, <1>15, <1>16, <1>17, <1>18, <1>19, <1>20, <1>21, <1>22,
    <1>23, <1>24, <1>25, <1>26, <1>27 DEF Next, Proceed, Promotes

\* A run's knowledge of the remote holds always.
LEMMA RunInvHolds == Spec => []RunInv
<1>1. Init => RunInv
  BY DEF Init, RunInv, At
<1>2. TypeInv /\ TypeInv' /\ RunInv /\ [Next]_vars => RunInv'
  <2>1. TypeInv /\ TypeInv' /\ RunInv /\ Next => RunInv'
    BY RunInvStep
  <2>2. RunInv /\ UNCHANGED vars => RunInv'
    BY DEF RunInv, At, Changes, vars, remote, bounds
  <2> QED BY <2>1, <2>2
<1> QED BY <1>1, <1>2, TypeHolds, PTL DEF Spec

-----------------------------------------------------------------------------
\* What is offered stays so while no run changes the branch: a merge shows what the
\* branch showed.
LEMMA OfferedStays ==
  ASSUME NEW r, TypeInv, OfferedAs(r),
         Merge \/ MergeOther \/ UNCHANGED <<main, rolling, pr>>
  PROVE OfferedAs(r)'
<1>0. main \in Main /\ (pr => rolling # None)
  BY DEF TypeInv, TypeOK
<1>1. CASE Merge
  BY <1>0, <1>1, NoneAssumption DEF Merge, OfferedAs, Main
<1>2. CASE MergeOther
  BY <1>0, <1>2 DEF MergeOther, OfferedAs, Main
<1>3. CASE UNCHANGED <<main, rolling, pr>>
  BY <1>3 DEF OfferedAs
<1> QED BY <1>1, <1>2, <1>3

\* A run that has not succeeded writes nothing that could mislead.
LEMMA NotSucceeded ==
  ASSUME run' \in Run, run'.at = "record" => run'.result = "failed"
  PROVE RecordInv'
BY NoneAssumption DEF RecordInv, At, Succeeded

\* Every step keeps the receipt true.
LEMMA RecordInvStep ==
  ASSUME TypeInv, RunInv, RecordInv, Next PROVE RecordInv'
<1> USE DEF RecordInv, Keeps, At
<1>0. /\ run \in Run \cup {None} /\ main \in Main /\ revision \in Revisions /\ unrecorded \in Nat
      /\ rolling \in Commit \cup {None} /\ (pr => rolling # None)
      /\ receipt \in [failed : BOOLEAN, last : Revisions \cup {None}]
  BY DEF TypeInv, TypeOK
<1>1. CASE StartScheduled
  <2>1. CASE Skips
    <3>1. run' \in Run /\ run'.at = "record" /\ run'.result = "revision-unchanged"
      BY <1>1, <1>0, <2>1, BeginEffect DEF StartScheduled, Steps, Results
    <3>2. UNCHANGED <<main, rolling, pr, receipt, unrecorded>>
      BY <1>1 DEF StartScheduled, remote, bounds
    <3>3. run = None /\ ~receipt.failed /\ receipt.last # None
      BY <1>0, <1>1, <2>1, NoneAssumption DEF StartScheduled, Skips
    <3>4. unrecorded = 0 => OfferedAs(receipt.last)
      BY <3>3
    <3>5. unrecorded' = 0 => OfferedAs(receipt.last)'
      BY <3>2, <3>4 DEF OfferedAs
    <3> QED BY <3>1, <3>5, NoneAssumption DEF Succeeded
  <2>2. CASE ~Skips
    <3>1. run' \in Run /\ run'.at = "stale"
      BY <1>1, <1>0, <2>2, BeginEffect DEF StartScheduled, Steps, Results
    <3> QED BY <3>1, NotSucceeded
  <2> QED BY <2>1, <2>2
<1>2. CASE StartManual
  BY <1>2, <1>0, BeginEffect, NoneAssumption
    DEF StartManual, Steps, Results, Errors, remote, bounds
<1>3. CASE CheckStale
  <2>1. run' \in Run /\ (run'.at = "record" => run'.result = "failed")
    BY <1>3, <1>0, GoToEffect, FailEffect, NoneAssumption
    DEF CheckStale, Steps, Errors, Results
  <2> QED BY <2>1, NotSucceeded
<1>4. CASE Freeze
  BY <1>4, <1>0, ReadEffect, NoneAssumption
    DEF Freeze, At, Steps, Results, Errors, remote, bounds
<1>5. CASE Clone
  BY <1>5, <1>0, ReadEffect, NoneAssumption
    DEF Clone, At, Steps, Results, Errors, remote, bounds
<1>6. CASE Look
  BY <1>6, <1>0, ReadEffect, NoneAssumption
    DEF Look, At, Steps, Results, Errors, remote, bounds
<1>7. CASE RecheckMain
  <2>1. run' \in Run /\ (run'.at = "record" => run'.result = "failed")
    BY <1>7, <1>0, GoToEffect, AgainEffect, NoneAssumption
    DEF RecheckMain, Steps, Errors, Results
  <2> QED BY <2>1, NotSucceeded
<1>8. CASE RecheckBranch
  BY <1>8, <1>0, GoToEffect, DoneEffect, FailEffect, ResultEffect, RunFields,
    NoneAssumption
    DEF RecheckBranch, At, Changes, Steps, Results, Errors, bounds, RunInv, OfferedAs,
      Succeeded
<1>9. CASE Delete
  <2>1. run' \in Run /\ (run'.at = "record" => run'.result = "failed")
    BY <1>9, <1>0, GoToEffect, FailEffect, NoneAssumption
    DEF Delete, Steps, Errors, Results
  <2> QED BY <2>1, NotSucceeded
<1>10. CASE Deleted
  BY <1>10, <1>0, DoneEffect, AgainEffect, NoneAssumption
    DEF Deleted, At, Steps, Results, Errors, remote, bounds, RunInv, OfferedAs,
      Changes, Succeeded
<1>11. CASE PushCandidate
  BY <1>11, <1>0, GoToEffect, NoneAssumption
    DEF PushCandidate, At, Steps, Results, Errors
<1>12. CASE LookForCandidate
  <2>1. run' \in Run /\ (run'.at = "record" => run'.result = "failed")
    BY <1>12, <1>0, GoToEffect, FailEffect, NoneAssumption
    DEF LookForCandidate, Steps, Errors, Results
  <2> QED BY <2>1, NotSucceeded
<1>13. CASE Confirm
  BY <1>13, <1>0, GoToEffect, CleanUpEffect, NoneAssumption
    DEF Confirm, At, Steps, Results, Errors, remote, bounds
<1>14. CASE Promote
  BY <1>14, <1>0, GoToEffect, NoneAssumption
    DEF Promote, At, Leased, Refused, Lost, Steps, Results, Errors
<1>15. CASE LookForPromoted
  BY <1>15, <1>0, GoToEffect, CleanUpEffect, NoneAssumption
    DEF LookForPromoted, At, Steps, Results, Errors, remote, bounds
<1>16. CASE Window
  BY <1>16, <1>0, CleanUpEffect, ErrorEffect, NoneAssumption
    DEF Window, At, Steps, Results, Errors, bounds
<1>17. CASE Restore
  BY <1>17, <1>0, GoToEffect, NoneAssumption
    DEF Restore, At, Leased, Refused, Lost, Steps, Results, Errors
<1>18. CASE LookForRestored
  BY <1>18, <1>0, CleanUpEffect, RunFields, NoneAssumption
    DEF LookForRestored, At, Steps, Results, Errors, remote, bounds
<1>19. CASE DeleteCandidate
  <2>1. run' \in Run /\ (run'.at = "record" => run'.result = "failed")
    BY <1>19, <1>0, FailEffect, AgainEffect, ResultEffect, NoneAssumption
    DEF DeleteCandidate, Steps, Errors, Results
  <2> QED BY <2>1, NotSucceeded
<1>20. CASE EnsurePr
  BY <1>20, <1>0, DoneEffect, FailEffect, RunFields, NoneAssumption
    DEF EnsurePr, At, Steps, Results, Errors, bounds, RunInv, OfferedAs, Changes,
      Succeeded
<1>21. CASE Record
  <2>1. run \in Run /\ run.at = "record" /\ run.result \in Results
    BY <1>0, <1>21, RunFields DEF Record
  <2>2. UNCHANGED <<main, rolling, pr>>
    BY <1>21 DEF Record, remote
  <2>3. CASE receipt' = Receipt(run.result) /\ run' = None /\ UNCHANGED unrecorded
    <3>1. CASE run.result = "failed"
      BY <2>3, <3>1 DEF Receipt
    <3>2. CASE run.result = "revision-unchanged"
      <4>1. receipt'.last = receipt.last /\ (unrecorded = 0 => OfferedAs(receipt.last))
        BY <2>1, <2>3, <3>2, NoneAssumption DEF Receipt
      <4>2. unrecorded' = 0 => OfferedAs(receipt.last)'
        BY <2>2, <2>3, <4>1 DEF OfferedAs
      <4> QED BY <2>3, <4>2
    <3>3. CASE run.result \in Succeeded
      <4>1. receipt'.last = run.rev /\ OfferedAs(run.rev)
        BY <2>1, <2>3, <3>3, NoneAssumption DEF Receipt, Succeeded
      <4>2. OfferedAs(receipt.last)'
        BY <2>2, <4>1 DEF OfferedAs
      <4> QED BY <2>3, <4>2
    <3> QED BY <2>1, <3>1, <3>2, <3>3 DEF Results, Succeeded
  <2>4. CASE run' = None /\ unrecorded' = unrecorded + 1
    BY <1>0, <2>4
  <2>5. CASE Fail
    BY <2>1, <2>5, FailEffect, NotSucceeded
  <2> QED BY <1>21, <2>3, <2>4, <2>5 DEF Record
<1>22. CASE CommandFails
  <2>1. run' \in Run /\ (run'.at = "record" => run'.result = "failed")
    BY <1>22, <1>0, FailEffect, CleanUpEffect, ErrorEffect, NoneAssumption
    DEF CommandFails, Steps, Errors, Results
  <2> QED BY <2>1, NotSucceeded
<1>23. CASE Crash
  BY <1>23, <1>0, NoneAssumption
    DEF Crash, remote
<1>24. CASE Approve
  <2>1. UNCHANGED <<run, receipt, unrecorded>>
    BY <1>24 DEF Approve, bounds
  <2>2. \A r : OfferedAs(r) => OfferedAs(r)'
    BY <1>24, OfferedStays DEF Approve, remote
  <2>3. OfferedAs(run.rev) => OfferedAs(run.rev)'
    BY <2>1, <2>2
  <2>4. OfferedAs(receipt.last) => OfferedAs(receipt.last)'
    BY <2>1, <2>2
  <2> QED BY <2>1, <2>3, <2>4
<1>25. CASE Merge
  <2>1. UNCHANGED <<run, receipt, unrecorded>>
    BY <1>25 DEF Merge, bounds
  <2>2. \A r : OfferedAs(r) => OfferedAs(r)'
    BY <1>25, OfferedStays DEF Merge, remote
  <2>3. OfferedAs(run.rev) => OfferedAs(run.rev)'
    BY <2>1, <2>2
  <2>4. OfferedAs(receipt.last) => OfferedAs(receipt.last)'
    BY <2>1, <2>2
  <2> QED BY <2>1, <2>3, <2>4
<1>26. CASE MergeOther
  <2>1. UNCHANGED <<run, receipt, unrecorded>>
    BY <1>26 DEF MergeOther, bounds
  <2>2. \A r : OfferedAs(r) => OfferedAs(r)'
    BY <1>26, OfferedStays DEF MergeOther, remote
  <2>3. OfferedAs(run.rev) => OfferedAs(run.rev)'
    BY <2>1, <2>2
  <2>4. OfferedAs(receipt.last) => OfferedAs(receipt.last)'
    BY <2>1, <2>2
  <2> QED BY <2>1, <2>3, <2>4
<1>27. CASE RemoveCandidate
  <2>1. UNCHANGED <<run, receipt, unrecorded>>
    BY <1>27 DEF RemoveCandidate, bounds
  <2>2. \A r : OfferedAs(r) => OfferedAs(r)'
    BY <1>27, OfferedStays DEF RemoveCandidate, remote
  <2>3. OfferedAs(run.rev) => OfferedAs(run.rev)'
    BY <2>1, <2>2
  <2>4. OfferedAs(receipt.last) => OfferedAs(receipt.last)'
    BY <2>1, <2>2
  <2> QED BY <2>1, <2>3, <2>4
<1> QED BY <1>1, <1>2, <1>3, <1>4, <1>5, <1>6, <1>7, <1>8, <1>9, <1>10, <1>11,
    <1>12, <1>13, <1>14, <1>15, <1>16, <1>17, <1>18, <1>19, <1>20, <1>21, <1>22,
    <1>23, <1>24, <1>25, <1>26, <1>27 DEF Next, Proceed, Promotes

\* The receipt is true always.
LEMMA RecordInvHolds == Spec => []RecordInv
<1>1. Init => RecordInv
  BY NoneAssumption DEF Init, RecordInv, At
<1>2. TypeInv /\ RunInv /\ RecordInv /\ [Next]_vars => RecordInv'
  <2>1. TypeInv /\ RunInv /\ RecordInv /\ Next => RecordInv'
    BY RecordInvStep
  <2>2. RecordInv /\ UNCHANGED vars => RecordInv'
    BY DEF RecordInv, At, OfferedAs, vars, remote, bounds
  <2> QED BY <2>1, <2>2
<1> QED BY <1>1, <1>2, TypeHolds, RunInvHolds, PTL DEF Spec

\* A scheduled run that skips because the last receipt is a success of the current
\* revision has nothing to do, unless a run ended without a receipt.
THEOREM SkipsAreSafe == Spec => []SkipIsSafe
<1>1. TypeInv /\ RecordInv => SkipIsSafe
  <2> SUFFICES ASSUME TypeInv, RecordInv, unrecorded = 0, run = None, Skips PROVE
    Offered
    BY DEF SkipIsSafe
  <2>1. receipt.last = revision /\ ~receipt.failed /\ receipt.last # None
    BY NoneAssumption DEF Skips, TypeInv, TypeOK
  <2>2. OfferedAs(receipt.last)
    BY <2>1 DEF RecordInv
  <2> QED BY <2>1, <2>2 DEF Offered, OfferedAs
<1> QED BY <1>1, TypeHolds, RecordInvHolds, PTL

-----------------------------------------------------------------------------
\* While nothing has failed, a candidate is only there inside a promotion, and the
\* branch is on a main that was looked at again, or is being looked at.
LEMMA ResidueInvStep ==
  ASSUME TypeInv, ResidueInv, Next PROVE ResidueInv'
<1> SUFFICES ASSUME failures' = 0, crashes' = 0 PROVE ResidueInv'
  BY DEF ResidueInv
<1> USE DEF ResidueInv, Keeps, At
<1>0. /\ run \in Run \cup {None} /\ main \in Main /\ failures \in Nat /\ crashes \in Nat
  BY DEF TypeInv, TypeOK
<1>f. ~Fails /\ \A x, y : ~Lost(x, y)
  BY <1>0 DEF Fails, Lost
<1>1. CASE StartScheduled
  BY <1>1, <1>0, BeginEffect, NoneAssumption
    DEF StartScheduled, Steps, Results, Errors, remote, bounds, Promoting, Built
<1>2. CASE StartManual
  BY <1>2, <1>0, BeginEffect, NoneAssumption
    DEF StartManual, Steps, Results, Errors, remote, bounds, Promoting, Built
<1>3. CASE CheckStale
  BY <1>3, <1>0, GoToEffect, FailEffect, NoneAssumption
    DEF CheckStale, At, Steps, Results, Errors, remote, bounds, Promoting, Built
<1>4. CASE Freeze
  BY <1>4, <1>0, ReadEffect, NoneAssumption
    DEF Freeze, At, Steps, Results, Errors, remote, bounds, Promoting, Built
<1>5. CASE Clone
  BY <1>5, <1>0, ReadEffect, NoneAssumption
    DEF Clone, At, Steps, Results, Errors, remote, bounds, Promoting, Built
<1>6. CASE Look
  BY <1>6, <1>0, ReadEffect, NoneAssumption
    DEF Look, At, Steps, Results, Errors, remote, bounds, Promoting, Built, Run
<1>7. CASE RecheckMain
  BY <1>7, <1>0, GoToEffect, AgainEffect, NoneAssumption
    DEF RecheckMain, At, Steps, Results, Errors, remote, bounds, Promoting, Built
<1>8. CASE RecheckBranch
  BY <1>8, <1>0, GoToEffect, DoneEffect, FailEffect, ResultEffect, RunFields,
    NoneAssumption
    DEF RecheckBranch, At, Steps, Results, Errors, bounds, Promoting, Built
<1>9. CASE Delete
  <2>1. /\ failures = 0 /\ crashes = 0 /\ run \in Run /\ run' \in Run
        /\ run'.at \in {"deleted", "record"} /\ run.at = "delete" /\ run'.old = run.old
        /\ rolling' \in {rolling, None} /\ UNCHANGED <<candidate, good>>
    BY <1>0, <1>f, <1>9, GoToEffect, FailEffect, LeasedEffect
    DEF Delete, Works, Refused, Steps
  <2> QED BY <2>1, NoneAssumption DEF Promoting, Built
<1>10. CASE Deleted
  BY <1>10, <1>0, DoneEffect, AgainEffect, NoneAssumption
    DEF Deleted, At, Steps, Results, Errors, remote, bounds, Promoting, Built
<1>11. CASE PushCandidate
  <2>1. /\ failures = 0 /\ crashes = 0 /\ run \in Run /\ run' \in Run
        /\ run'.at = "confirm" /\ run.at = "candidate" /\ run'.old = run.old /\ UNCHANGED <<rolling, good>>
    BY <1>0, <1>f, <1>11, GoToEffect
    DEF PushCandidate, Works, Steps
  <2> QED BY <2>1, NoneAssumption DEF Promoting, Built
<1>12. CASE LookForCandidate
  BY <1>12, <1>0, GoToEffect, FailEffect, NoneAssumption
    DEF LookForCandidate, At, Steps, Results, Errors, remote, bounds, Promoting, Built
<1>13. CASE Confirm
  BY <1>13, <1>0, GoToEffect, CleanUpEffect, NoneAssumption
    DEF Confirm, At, Steps, Results, Errors, remote, bounds, Promoting, Built
<1>14. CASE Promote
  <2>1. /\ failures = 0 /\ crashes = 0 /\ run \in Run /\ run' \in Run
        /\ run.at = "promote" /\ Keeps /\ UNCHANGED <<candidate, good>>
        /\ \/ run'.at = "window" /\ rolling' = Built
           \/ run'.at = "promote?" /\ rolling' = rolling
    BY <1>0, <1>f, <1>14, GoToEffect, LeasedEffect
    DEF Promote, Works, Refused, Steps
  <2> QED BY <2>1, NoneAssumption DEF Promoting, Built
<1>15. CASE LookForPromoted
  BY <1>15, <1>0, GoToEffect, CleanUpEffect, NoneAssumption
    DEF LookForPromoted, At, Built, Steps, Results, Errors, remote, bounds, Promoting
<1>16. CASE Window
  BY <1>16, <1>0, CleanUpEffect, ErrorEffect, NoneAssumption
    DEF Window, At, Built, Steps, Results, Errors, bounds, Promoting
<1>17. CASE Restore
  <2>1. /\ failures = 0 /\ crashes = 0 /\ run \in Run /\ run' \in Run
        /\ run.at = "restore" /\ run'.at = "restore?" /\ Keeps /\ UNCHANGED <<candidate, good>>
        /\ rolling' = run.old \/ (rolling' = rolling /\ rolling # Built)
    BY <1>0, <1>f, <1>17, GoToEffect, LeasedEffect
    DEF Restore, Works, Refused, Steps
  <2> QED BY <2>1, NoneAssumption DEF Promoting, Built
<1>18. CASE LookForRestored
  BY <1>18, <1>0, CleanUpEffect, RunFields, NoneAssumption
    DEF LookForRestored, At, Steps, Results, Errors, remote, bounds, Promoting, Built
<1>19. CASE DeleteCandidate
  <2>1. /\ failures = 0 /\ crashes = 0 /\ run \in Run /\ run' \in Run
        /\ run'.at \in {"pr", "freeze", "record"} /\ run.at = "cleanup" /\ run'.old = run.old
        /\ candidate' = None /\ UNCHANGED <<rolling, good>>
    BY <1>0, <1>f, <1>19, FailEffect, AgainEffect, ResultEffect
    DEF DeleteCandidate, Works, Steps, Errors, Results
  <2> QED BY <2>1, NoneAssumption DEF Promoting, Built
<1>20. CASE EnsurePr
  BY <1>20, <1>0, DoneEffect, FailEffect, RunFields, NoneAssumption
    DEF EnsurePr, At, Steps, Results, Errors, bounds, Promoting, Built
<1>21. CASE Record
  BY <1>21, <1>0, FailEffect, NoneAssumption
    DEF Record, At, Works, Fails, Steps, Results, Errors, remote, Promoting, Built
<1>22. CASE CommandFails
  BY <1>22, <1>f DEF CommandFails
<1>23. CASE Crash
  BY <1>23, <1>0, NoneAssumption
    DEF Crash, remote, Promoting, Built
<1>24. CASE Approve
  BY <1>24, <1>0, NoneAssumption
    DEF Approve, remote, Promoting, Built
<1>25. CASE Merge
  BY <1>25, <1>0, NoneAssumption
    DEF Merge, bounds, Promoting, Built
<1>26. CASE MergeOther
  BY <1>26, <1>0, NoneAssumption
    DEF MergeOther, bounds, Promoting, Built
<1>27. CASE RemoveCandidate
  BY <1>27, <1>0, NoneAssumption
    DEF RemoveCandidate, bounds, Promoting, Built
<1> QED BY <1>1, <1>2, <1>3, <1>4, <1>5, <1>6, <1>7, <1>8, <1>9, <1>10, <1>11,
    <1>12, <1>13, <1>14, <1>15, <1>16, <1>17, <1>18, <1>19, <1>20, <1>21, <1>22,
    <1>23, <1>24, <1>25, <1>26, <1>27 DEF Next, Proceed, Promotes

\* The whereabouts of candidate and branch hold always.
LEMMA ResidueInvHolds == Spec => []ResidueInv
<1>1. Init => ResidueInv
  BY DEF Init, ResidueInv, At
<1>2. TypeInv /\ ResidueInv /\ [Next]_vars => ResidueInv'
  <2>1. TypeInv /\ ResidueInv /\ Next => ResidueInv'
    BY ResidueInvStep
  <2>2. ResidueInv /\ UNCHANGED vars => ResidueInv'
    BY DEF ResidueInv, At, Promoting, Built, vars, remote, bounds
  <2> QED BY <2>1, <2>2
<1> QED BY <1>1, <1>2, TypeHolds, PTL DEF Spec

\* Merges to main alone leave no candidate behind, nor the branch on a main that was
\* superseded before the run looked again.
THEOREM LeavesNoResidue == Spec => []NoResidue
<1>1. ResidueInv => NoResidue
  BY DEF ResidueInv, NoResidue, Promoting, At
<1> QED BY <1>1, ResidueInvHolds, PTL
=============================================================================
