------------------------- MODULE ReportReviewProofs -------------------------
(***************************************************************************)
(* The safety of ReportReview for any number of sessions, revisions,       *)
(* crashes and lost sessions, and any delays.                              *)
(***************************************************************************)
EXTENDS ReportReview, TLAPS

\* The directories are numbered without gaps, the last one commits last, and an
\* operation that will make one has a number left.
MakesOne ==
    /\ op # None
    /\ op.step = "mkdir" \/ (op.step = "release" /\ op.verdict = "changes_requested")

Numbering ==
    \E t \in 0..MaxRevision :
        /\ Made = 1..t
        /\ revision \in 0..t
        /\ MakesOne => t < MaxRevision

\* A claimed directory holds a packet that does not exclude the claimer, and a
\* released claim its owner's review.
Sound(d) ==
    d.claim # None =>
        /\ d.packet
        /\ d.claim.by # d.parent
        /\ d.claim.released => d.review # None /\ d.review.by = d.claim.by

ClaimsSound == \A r \in Revisions : dirs[r] # None => Sound(dirs[r])

\* What state.json and the mail directory say about the current revision.
StateInv ==
    /\ status # "no_eligible_information" => revision # 0
    /\ status = "pending_review" => Packet.packet
    /\ status # "approved" => approval = None /\ mailed = {}
    /\ ApprovalIsBacked
    /\ mailed \subseteq {revision}

\* What the operation in progress has established at each of its steps.
Reviewed ==
    /\ status = "pending_review"
    /\ op.revision = revision
    /\ op.by \in Sessions
    /\ op.verdict \in Verdicts
    /\ Packet.review = [by |-> op.by, verdict |-> op.verdict]
    /\ Packet.claim # None
    /\ Packet.claim.by = op.by

Closed == Reviewed /\ Packet.claim.released

Rendering ==
    /\ status # "approved"
    /\ op.revision \in Made
    /\ op.revision # revision

OpInv ==
    op # None =>
        /\ op.step = "release" => Reviewed
        /\ op.step = "archive" => Closed /\ op.verdict = "pass"
        /\ op.step = "decide" =>
            /\ Closed
            /\ op.verdict # "changes_requested"
            /\ op.verdict = "pass" => archive = revision
        /\ op.step = "mkdir" => status # "approved"
        /\ op.step = "render" => Rendering /\ ~dirs[op.revision].packet /\ dirs[op.revision].claim = None
        /\ op.step = "publish" => Rendering /\ dirs[op.revision].packet
        /\ op.step = "fail" => Rendering
        /\ op.step = "send" => status = "approved" /\ op.revision = revision

IInv ==
    /\ TypeOK
    /\ Numbering
    /\ ClaimsSound
    /\ StateInv
    /\ OpInv
-----------------------------------------------------------------------------
\* The definitions every step of the induction looks through.
USE DEF Revisions, MaybeSession, Packet, state, files

\* The next number is the one after the last directory.
LEMMA NextIsFree ==
    ASSUME TypeOK, Numbering
    PROVE  /\ NextNumber \in Nat \ {0}
           /\ Made = 1..(NextNumber - 1)
           /\ revision \in 0..(NextNumber - 1)
           /\ NextNumber - 1 \in 0..MaxRevision
           /\ MakesOne => NextNumber \in Revisions
           /\ NextNumber \in Revisions => dirs[NextNumber] = None
<1>1. PICK t \in 0..MaxRevision :
          Made = 1..t /\ revision \in 0..t /\ (MakesOne => t < MaxRevision)
  BY DEF Numbering
<1>2. MaxRevision \in Nat
  BY BoundsAssumption
<1>3. NextNumber = t + 1
  <2>1. CASE revision + 1 \in Made
    <3>1. t \in Made \cup {0} /\ \A q \in Made : q <= t
      BY <1>1, <1>2
    <3>2. \A h \in Made \cup {0} : (\A q \in Made : q <= h) => h = t
      BY <1>1, <1>2
    <3>3. Highest = t
      BY <3>1, <3>2 DEF Highest
    <3> QED BY <2>1, <3>3 DEF NextNumber
  <2>2. CASE revision + 1 \notin Made
    <3>1. revision = t
      BY <1>1, <1>2, <2>2
    <3> QED BY <2>2, <3>1 DEF NextNumber
  <2> QED BY <2>1, <2>2
<1>4. NextNumber \in Revisions => dirs[NextNumber] = None
  BY <1>1, <1>2, <1>3 DEF Made
<1> QED BY <1>1, <1>2, <1>3, <1>4

\* Writing a file of an existing directory makes no new one.
LEMMA SameNumbers ==
    ASSUME TypeOK, NEW r \in Revisions, NEW d \in Directory,
           dirs[r] # None, dirs' = [dirs EXCEPT ![r] = d]
    PROVE  /\ Made' = Made
           /\ dirs' \in [Revisions -> Directory \cup {None}]
           /\ dirs'[r] = d
           /\ \A q \in Revisions : q # r => dirs'[q] = dirs[q]
BY NoneAssumption DEF TypeOK, Made

\* The revision state.json names exists once there is a report to review.
LEMMA CurrentExists ==
    ASSUME IInv, status # "no_eligible_information"
    PROVE  revision \in Revisions /\ Packet \in Directory /\ Packet # None
<1>1. revision \in Made
  <2>1. PICK t \in 0..MaxRevision : Made = 1..t /\ revision \in 0..t
    BY DEF IInv, Numbering
  <2> QED BY <2>1, BoundsAssumption DEF IInv, StateInv
<1> QED BY <1>1 DEF Made, IInv, TypeOK

\* Numbering only looks at the directories, the revision and the operation.
LEMMA NumberingKept ==
    ASSUME Numbering, Made' = Made, revision' = revision,
           MakesOne' => MakesOne
    PROVE  Numbering'
BY DEF Numbering

\* The start: no directory, and revision 1 about to be made.
LEMMA InitIInv == Init => IInv
<1> SUFFICES ASSUME Init PROVE IInv
  OBVIOUS
<1>1. MaxRevision \in Nat \ {0} /\ 0 \in 0..MaxClock /\ 0 \in 0..MaxCrashes /\ 0 \in 0..MaxLost
  BY BoundsAssumption
<1>2. MakeRevision(None, None, None) \in Operation
  BY <1>1 DEF MakeRevision, Operation, Steps
<1>3. TypeOK
  BY <1>1, <1>2 DEF Init, TypeOK, Statuses
<1>4. Made = {} /\ {} = 1..0
  BY DEF Init, Made
<1>5. Numbering
  BY <1>1, <1>4 DEF Init, Numbering
<1>6. OpInv
  BY DEF Init, OpInv, MakeRevision
<1> QED BY <1>3, <1>5, <1>6 DEF Init, IInv, ClaimsSound, StateInv, ApprovalIsBacked
-----------------------------------------------------------------------------
\* Sessions and the clock are none of the report's state.
LEMMA OutsideStep ==
    ASSUME IInv, UNCHANGED <<state, files, mailed, op>>, TypeOK'
    PROVE  IInv'
<1>1. Made' = Made
  BY DEF Made
<1>2. Numbering'
  BY <1>1, NumberingKept DEF IInv, MakesOne
<1>3. ClaimsSound' /\ StateInv'
  BY DEF IInv, ClaimsSound, Sound, StateInv, ApprovalIsBacked
<1>4. OpInv'
  BY <1>1 DEF IInv, OpInv, Closed, Reviewed, Rendering
<1> QED BY <1>2, <1>3, <1>4 DEF IInv

LEMMA SessionStep ==
    ASSUME IInv, NEW s \in Sessions, Wake(s) \/ End(s) \/ Lose(s)
    PROVE  IInv'
<1>1. session' \in [Sessions -> {"new", "live", "ended", "lost"}]
  BY DEF IInv, TypeOK, Wake, End, Lose
<1>2. lost' \in 0..MaxLost
  BY BoundsAssumption DEF IInv, TypeOK, Wake, End, Lose
<1>3. UNCHANGED <<state, files, mailed, op, clock, crashes>>
  BY DEF Wake, End, Lose
<1>4. TypeOK'
  BY <1>1, <1>2, <1>3 DEF IInv, TypeOK
<1> QED BY <1>3, <1>4, OutsideStep

LEMMA TickStep ==
    ASSUME IInv, Tick
    PROVE  IInv'
<1>1. TypeOK'
  BY BoundsAssumption DEF IInv, TypeOK, Tick
<1> QED BY <1>1, OutsideStep DEF Tick

\* An operation ends or dies, and leaves what it wrote.
LEMMA StopStep ==
    ASSUME IInv, Crash \/ EndSend
    PROVE  IInv'
<1>1. UNCHANGED <<state, files, mailed, clock, session, lost>> /\ op' = None
  BY DEF Crash, EndSend
<1>2. TypeOK'
  BY <1>1, BoundsAssumption DEF IInv, TypeOK, Crash, EndSend
<1>3. Numbering'
  BY <1>1, NumberingKept DEF IInv, MakesOne, Made
<1>4. ClaimsSound' /\ StateInv' /\ OpInv'
  BY <1>1 DEF IInv, ClaimsSound, Sound, StateInv, ApprovalIsBacked, OpInv
<1> QED BY <1>2, <1>3, <1>4 DEF IInv

\* A claim is written into the pending revision.
LEMMA ClaimStep ==
    ASSUME IInv, NEW s \in Sessions, ClaimReport(s)
    PROVE  IInv'
<1> DEFINE c == [by |-> s, deadline |-> clock + ClaimTimeout, released |-> FALSE]
           d == [Packet EXCEPT !.claim = c]
<1>1. revision \in Revisions /\ Packet \in Directory /\ Packet # None
  BY CurrentExists DEF ClaimReport, CanClaim
<1>2. c \in Claim
  BY BoundsAssumption, DelaysAssumption DEF Claim, IInv, TypeOK
<1>3. d \in Directory /\ d.packet = Packet.packet /\ d.parent = Packet.parent /\ d.claim = c
  BY <1>1, <1>2 DEF Directory
<1>4. dirs' = [dirs EXCEPT ![revision] = d]
  BY DEF ClaimReport
<1> HIDE DEF d
<1>5. /\ Made' = Made
      /\ dirs' \in [Revisions -> Directory \cup {None}]
      /\ dirs'[revision] = d
      /\ \A q \in Revisions : q # revision => dirs'[q] = dirs[q]
  BY <1>1, <1>3, <1>4, SameNumbers DEF IInv
<1>6. TypeOK'
  BY <1>5 DEF IInv, TypeOK, ClaimReport
<1>7. Numbering'
  BY <1>5, NumberingKept DEF IInv, MakesOne, ClaimReport
<1>8. ClaimsSound'
  BY <1>3, <1>5 DEF IInv, ClaimsSound, Sound, StateInv, ClaimReport, CanClaim
<1>9. StateInv' /\ OpInv'
  BY <1>3, <1>5 DEF IInv, StateInv, ApprovalIsBacked, OpInv, ClaimReport, CanClaim
<1> QED BY <1>6, <1>7, <1>8, <1>9 DEF IInv

\* A verdict is written beside the claim of the session that gives it.
LEMMA SubmitStep ==
    ASSUME IInv, NEW s \in Sessions, NEW v \in Verdicts, Submit(s, v)
    PROVE  IInv'
<1> DEFINE rev == [by |-> s, verdict |-> v]
           d == [Packet EXCEPT !.review = rev]
<1>1. revision \in Revisions /\ Packet \in Directory /\ Packet # None
  BY CurrentExists DEF Submit
<1>2. rev \in Review
  BY DEF Review
<1>3. /\ d \in Directory /\ d.packet = Packet.packet /\ d.parent = Packet.parent
      /\ d.claim = Packet.claim /\ d.review = rev
  BY <1>1, <1>2 DEF Directory
<1>4. dirs' = [dirs EXCEPT ![revision] = d]
  BY DEF Submit
<1> HIDE DEF d
<1>5. /\ Made' = Made
      /\ dirs' \in [Revisions -> Directory \cup {None}]
      /\ dirs'[revision] = d
      /\ \A q \in Revisions : q # revision => dirs'[q] = dirs[q]
  BY <1>1, <1>3, <1>4, SameNumbers DEF IInv
<1>6. op' \in Operation /\ op' # None
  <2>1. op' \in Operation
    BY <1>1, BoundsAssumption DEF Submit, Operation, Steps, IInv, TypeOK
  <2> QED BY <2>1, NoneAssumption
<1>7. TypeOK'
  BY <1>5, <1>6 DEF IInv, TypeOK, Submit
<1>8. Numbering'
  <2>1. v = "changes_requested" => NextNumber <= MaxRevision
    BY DEF Submit
  <2>2. MakesOne' => v = "changes_requested"
    BY DEF MakesOne, Submit
  <2>3. /\ Made = 1..(NextNumber - 1) /\ revision \in 0..(NextNumber - 1)
        /\ NextNumber \in Nat \ {0} /\ NextNumber - 1 \in 0..MaxRevision
    BY NextIsFree DEF IInv
  <2>4. revision' = revision
    BY DEF Submit
  <2> DEFINE t == NextNumber - 1
  <2>5. t \in 0..MaxRevision /\ (MakesOne' => t < MaxRevision)
    BY <2>1, <2>2, <2>3, BoundsAssumption
  <2> HIDE DEF t
  <2>6. Made' = 1..t /\ revision' \in 0..t
    BY <1>5, <2>3, <2>4 DEF t
  <2> QED BY <2>5, <2>6 DEF Numbering
<1>9. ClaimsSound'
  <2>1. Sound(Packet)
    BY <1>1 DEF IInv, ClaimsSound
  <2>2. Packet.claim.by = s /\ ~Packet.claim.released
    BY DEF Submit, HoldsClaim
  <2>3. Sound(d)
    BY <1>3, <2>1, <2>2 DEF Sound
  <2> QED BY <1>5, <2>3 DEF IInv, ClaimsSound, Sound
<1>10. StateInv'
  BY <1>3, <1>5 DEF IInv, StateInv, ApprovalIsBacked, Submit
<1>11. OpInv'
  BY <1>3, <1>5, <1>6 DEF OpInv, Reviewed, Submit, HoldsClaim
<1> QED BY <1>7, <1>8, <1>9, <1>10, <1>11 DEF IInv

\* The claim of the session whose review is on disk is closed.
LEMMA ReleaseStep ==
    ASSUME IInv, Release
    PROVE  IInv'
<1> DEFINE c == [Packet.claim EXCEPT !.released = TRUE]
           d == [Packet EXCEPT !.claim = c]
<1>0. op # None /\ op.step = "release" /\ Reviewed
  BY DEF IInv, OpInv, Release
<1>1. revision \in Revisions /\ Packet \in Directory /\ Packet # None
  BY <1>0, CurrentExists DEF Reviewed
<1>2. c \in Claim /\ c.by = op.by /\ c.released
  BY <1>0, <1>1 DEF Reviewed, Directory, Claim
<1>3. /\ d \in Directory /\ d.packet = Packet.packet /\ d.parent = Packet.parent
      /\ d.review = Packet.review /\ d.claim = c
  BY <1>1, <1>2 DEF Directory
<1>4. dirs' = [dirs EXCEPT ![revision] = d]
  BY DEF Release
<1> HIDE DEF c, d
<1>5. /\ Made' = Made
      /\ dirs' \in [Revisions -> Directory \cup {None}]
      /\ dirs'[revision] = d
      /\ \A q \in Revisions : q # revision => dirs'[q] = dirs[q]
  BY <1>1, <1>3, <1>4, SameNumbers DEF IInv
<1>6. op' = AfterRelease /\ op \in Operation
  BY <1>0 DEF IInv, TypeOK, Release
<1>7. op' \in Operation /\ op' # None
  <2>1. CASE op.verdict = "changes_requested"
    <3>1. op' = MakeRevision(op.by, op.by, op.by)
      BY <2>1, <1>6 DEF AfterRelease
    <3>2. op' \in Operation
      BY <3>1, <1>0, BoundsAssumption DEF MakeRevision, Operation, Steps, Reviewed
    <3> QED BY <3>2, NoneAssumption
  <2>2. CASE op.verdict # "changes_requested"
    <3>1. op' \in {[op EXCEPT !.step = "archive"], [op EXCEPT !.step = "decide"]}
      BY <2>2, <1>6 DEF AfterRelease
    <3>2. op' \in Operation
      BY <3>1, <1>6 DEF Operation, Steps
    <3> QED BY <3>2, NoneAssumption
  <2> QED BY <2>1, <2>2
<1>8. TypeOK'
  BY <1>5, <1>7 DEF IInv, TypeOK, Release
<1>9. Numbering'
  <2>1. MakesOne' => MakesOne
    BY <1>0, <1>6 DEF MakesOne, AfterRelease, Operation
  <2>2. revision' = revision
    BY DEF Release
  <2> QED BY <1>5, <2>1, <2>2, NumberingKept DEF IInv
<1>10. ClaimsSound'
  <2>1. Sound(Packet)
    BY <1>1 DEF IInv, ClaimsSound
  <2>2. Packet.review # None /\ Packet.review.by = op.by
    BY <1>0, <1>1, NoneAssumption DEF Reviewed, Directory, Review
  <2>3. Sound(d)
    BY <1>0, <1>2, <1>3, <2>1, <2>2 DEF Sound, Reviewed
  <2> QED BY <1>5, <2>3 DEF IInv, ClaimsSound
<1>11. StateInv'
  BY <1>0, <1>3, <1>5 DEF IInv, StateInv, ApprovalIsBacked, Release, Reviewed
<1>12. OpInv'
  <2>1. status' = status /\ revision' = revision /\ Packet' = d
    BY <1>5 DEF Release
  <2>2. Packet'.claim # None /\ Packet'.claim.by = op.by /\ Packet'.claim.released
    BY <2>1, <1>2, <1>3, NoneAssumption
  <2>3. CASE op.verdict = "changes_requested"
    BY <2>1, <2>3, <1>0, <1>6 DEF OpInv, AfterRelease, MakeRevision, Reviewed
  <2>4. CASE op.verdict = "pass"
    <3>1. op' = [op EXCEPT !.step = "archive"]
      BY <2>4, <1>6 DEF AfterRelease
    <3>2. /\ op'.step = "archive" /\ op'.verdict = op.verdict
          /\ op'.by = op.by /\ op'.revision = op.revision
      BY <3>1, <1>6 DEF Operation
    <3> QED BY <2>1, <2>2, <2>4, <3>2, <1>0, <1>3 DEF OpInv, Closed, Reviewed
  <2>5. CASE op.verdict \notin {"changes_requested", "pass"}
    <3>1. op' = [op EXCEPT !.step = "decide"]
      BY <2>5, <1>6 DEF AfterRelease
    <3>2. /\ op'.step = "decide" /\ op'.verdict = op.verdict
          /\ op'.by = op.by /\ op'.revision = op.revision
      BY <3>1, <1>6 DEF Operation
    <3> QED BY <2>1, <2>2, <2>5, <3>2, <1>0, <1>3 DEF OpInv, Closed, Reviewed
  <2> QED BY <2>3, <2>4, <2>5
<1> QED BY <1>8, <1>9, <1>10, <1>11, <1>12 DEF IInv

\* The receipt names the revision that passed.
LEMMA ArchiveStep ==
    ASSUME IInv, Archive
    PROVE  IInv'
<1>0. op # None /\ op.step = "archive" /\ Closed /\ op.verdict = "pass" /\ op \in Operation
  BY DEF IInv, OpInv, TypeOK, Archive
<1>1. /\ op' = [op EXCEPT !.step = "decide"] /\ op' \in Operation /\ op' # None
      /\ op'.step = "decide" /\ op'.verdict = op.verdict
      /\ op'.by = op.by /\ op'.revision = op.revision
  <2>1. op' = [op EXCEPT !.step = "decide"]
    BY DEF Archive
  <2>2. op' \in Operation
    BY <2>1, <1>0 DEF Operation, Steps
  <2> QED BY <2>1, <2>2, <1>0, NoneAssumption DEF Operation
<1>2. archive' = revision /\ UNCHANGED <<clock, state, dirs, mailed, session, crashes, lost>>
  BY <1>0 DEF Archive, Closed, Reviewed
<1>3. TypeOK'
  BY <1>1, <1>2 DEF IInv, TypeOK
<1>4. Made' = Made /\ ~MakesOne'
  BY <1>1, <1>2 DEF Made, MakesOne
<1>5. Numbering'
  BY <1>2, <1>4, NumberingKept DEF IInv
<1>6. ClaimsSound'
  BY <1>2 DEF IInv, ClaimsSound, Sound
<1>7. StateInv' /\ OpInv'
  BY <1>0, <1>1, <1>2 DEF IInv, StateInv, ApprovalIsBacked, OpInv, Closed, Reviewed
<1> QED BY <1>3, <1>5, <1>6, <1>7 DEF IInv

\* The verdict reaches state.json; a pass finds review, claim and archive there.
LEMMA DecideStep ==
    ASSUME IInv, Decide
    PROVE  IInv'
<1>0. /\ op # None /\ Closed /\ op.verdict # "changes_requested" /\ op \in Operation
      /\ op.verdict = "pass" => archive = revision
  BY DEF IInv, OpInv, TypeOK, Decide
<1>1. revision \in Revisions /\ Packet \in Directory /\ Packet # None
  BY <1>0, CurrentExists DEF Closed, Reviewed
<1>2. op' = None /\ UNCHANGED <<clock, revision, files, mailed, session, crashes, lost>>
  BY DEF Decide
<1>3. CASE op.verdict = "pass"
  <2> DEFINE a == [by |-> op.by, revision |-> op.revision, at |-> op.at]
  <2>1. status' = "approved" /\ approval' = a
    BY <1>3 DEF Decide
  <2>2. a \in Approval /\ a # None
    BY <1>0, <1>1, NoneAssumption DEF Approval, Operation, Closed, Reviewed
  <2>3. TypeOK'
    BY <1>2, <2>1, <2>2 DEF IInv, TypeOK, Statuses
  <2>4. Packet.packet
    BY <1>0 DEF IInv, StateInv, Closed, Reviewed
  <2>5. StateInv'
    <3>1. mailed = {} /\ revision # 0
      BY <1>0 DEF IInv, StateInv, Closed, Reviewed
    <3>2. ApprovalIsBacked'
      BY <1>0, <1>2, <1>3, <2>1, <2>2, <2>4 DEF ApprovalIsBacked, Closed, Reviewed
    <3> QED BY <1>2, <2>1, <3>1, <3>2 DEF StateInv
  <2> QED BY <1>2, <2>3, <2>5, NumberingKept
          DEF IInv, MakesOne, Made, ClaimsSound, Sound, OpInv
<1>4. CASE op.verdict # "pass"
  <2>1. status' = op.verdict /\ approval' = approval /\ status' \in Blockers
    BY <1>0, <1>4 DEF Decide, Closed, Reviewed, Verdicts, Blockers
  <2>2. TypeOK'
    BY <1>2, <2>1 DEF IInv, TypeOK, Statuses
  <2>3. StateInv'
    BY <1>0, <1>2, <2>1 DEF IInv, StateInv, ApprovalIsBacked, Blockers, Closed, Reviewed
  <2> QED BY <1>2, <2>2, <2>3, NumberingKept
          DEF IInv, MakesOne, Made, ClaimsSound, Sound, OpInv
<1> QED BY <1>3, <1>4

\* A blocked revision is about to be rendered again.
LEMMA RegenerateStep ==
    ASSUME IInv, Regenerate
    PROVE  IInv'
<1> DEFINE parent == IF Packet.review = None THEN None ELSE Packet.review.by
<1>1. revision \in Revisions /\ Packet \in Directory
  BY CurrentExists DEF Regenerate, Blockers
<1>2. parent \in MaybeSession
  BY <1>1 DEF Directory, Review
<1>3. op' = MakeRevision(None, Packet.editor, parent)
  BY DEF Regenerate
<1> HIDE DEF parent
<1>4. op' \in Operation /\ op' # None /\ op'.step = "mkdir"
  <2>1. op' \in Operation
    BY <1>1, <1>2, <1>3, BoundsAssumption DEF MakeRevision, Operation, Steps, Directory
  <2> QED BY <2>1, <1>3, NoneAssumption DEF MakeRevision
<1>5. UNCHANGED <<clock, state, files, mailed, session, crashes, lost>> /\ status # "approved"
  BY DEF Regenerate, Blockers
<1>6. TypeOK'
  BY <1>4, <1>5 DEF IInv, TypeOK
<1>7. Numbering'
  <2> DEFINE t == NextNumber - 1
  <2>1. t \in 0..MaxRevision /\ Made = 1..t /\ revision \in 0..t /\ t < MaxRevision
    BY NextIsFree, BoundsAssumption DEF IInv, Regenerate
  <2> HIDE DEF t
  <2>2. Made' = Made /\ revision' = revision
    BY <1>5 DEF Made
  <2> QED BY <2>1, <2>2 DEF Numbering
<1>8. ClaimsSound' /\ StateInv'
  BY <1>5 DEF IInv, ClaimsSound, Sound, StateInv, ApprovalIsBacked
<1>9. OpInv'
  BY <1>4, <1>5 DEF OpInv
<1> QED BY <1>6, <1>7, <1>8, <1>9 DEF IInv

\* Sending begins with, and mails, nothing but the approved revision.
LEMMA BeginSendStep ==
    ASSUME IInv, BeginSend
    PROVE  IInv'
<1>1. op' \in Operation /\ op' # None /\ op'.step = "send" /\ op'.revision = revision
  <2>1. op' \in Operation
    BY DEF IInv, TypeOK, BeginSend, MakeRevision, Operation, Steps
  <2> QED BY <2>1, NoneAssumption DEF BeginSend, MakeRevision
<1>2. UNCHANGED <<clock, state, files, mailed, session, crashes, lost>> /\ status = "approved"
  BY DEF BeginSend
<1>3. TypeOK'
  BY <1>1, <1>2 DEF IInv, TypeOK
<1>4. Numbering'
  BY <1>1, <1>2, NumberingKept DEF IInv, MakesOne, Made
<1>5. ClaimsSound' /\ StateInv' /\ OpInv'
  BY <1>1, <1>2 DEF IInv, ClaimsSound, Sound, StateInv, ApprovalIsBacked, OpInv
<1> QED BY <1>3, <1>4, <1>5 DEF IInv

LEMMA MailStep ==
    ASSUME IInv, Mail
    PROVE  IInv'
<1>1. status = "approved" /\ op.revision = revision
  BY DEF IInv, OpInv, Mail
<1>2. revision \in Revisions
  BY <1>1, CurrentExists
<1>3. mailed' = mailed \cup {revision} /\ UNCHANGED <<clock, state, files, session, op, crashes, lost>>
  BY <1>1 DEF Mail
<1>4. TypeOK'
  BY <1>2, <1>3 DEF IInv, TypeOK
<1>5. Numbering'
  BY <1>3, NumberingKept DEF IInv, MakesOne, Made
<1>6. ClaimsSound' /\ StateInv'
  BY <1>1, <1>3 DEF IInv, ClaimsSound, Sound, StateInv, ApprovalIsBacked
<1>7. OpInv'
  BY <1>1, <1>3 DEF IInv, OpInv, Mail
<1> QED BY <1>4, <1>5, <1>6, <1>7 DEF IInv

\* A new directory gets a number no directory has had.
LEMMA MkdirStep ==
    ASSUME IInv, Mkdir
    PROVE  IInv'
<1> DEFINE n == NextNumber
           d == [editor |-> op.editor, packet |-> FALSE, parent |-> None,
                 review |-> None, claim |-> None]
<1>0. op \in Operation /\ op # None /\ op.step = "mkdir" /\ status # "approved" /\ MakesOne
  BY DEF IInv, TypeOK, OpInv, MakesOne, Mkdir
<1>1. /\ n \in Revisions /\ dirs[n] = None
      /\ Made = 1..(n - 1) /\ revision \in 0..(n - 1) /\ revision # n
  BY <1>0, NextIsFree, BoundsAssumption DEF IInv
<1>2. d \in Directory /\ d # None /\ d.claim = None /\ ~d.packet
  <2>1. d \in Directory
    BY <1>0 DEF Directory, Operation
  <2> QED BY <2>1, NoneAssumption
<1>3. dirs' = [dirs EXCEPT ![n] = d] /\ op' = [op EXCEPT !.step = "render", !.revision = n]
  BY DEF Mkdir
<1>4. UNCHANGED <<clock, state, archive, mailed, session, crashes, lost>>
  BY DEF Mkdir
<1> HIDE DEF n, d
<1>5. /\ dirs' \in [Revisions -> Directory \cup {None}]
      /\ dirs'[n] = d
      /\ \A q \in Revisions : q # n => dirs'[q] = dirs[q]
  BY <1>1, <1>2, <1>3 DEF IInv, TypeOK
<1>6. op' \in Operation /\ op' # None /\ op'.step = "render" /\ op'.revision = n
  <2>1. n \in 0..MaxRevision /\ "render" \in Steps
    BY <1>1, BoundsAssumption DEF Steps
  <2> HIDE DEF MaybeSession
  <2>2. op' \in Operation
    BY <1>0, <1>3, <2>1 DEF Operation
  <2> QED BY <2>2, <1>0, <1>3, NoneAssumption DEF Operation
<1>7. TypeOK'
  BY <1>4, <1>5, <1>6 DEF IInv, TypeOK
<1>8. Made' = 1..n
  <2>1. Made' = Made \cup {n}
    BY <1>1, <1>2, <1>5 DEF Made
  <2> QED BY <2>1, <1>1, BoundsAssumption
<1>9. Numbering'
  BY <1>1, <1>4, <1>6, <1>8, BoundsAssumption DEF Numbering, MakesOne
<1>10. ClaimsSound'
  BY <1>2, <1>5 DEF IInv, ClaimsSound, Sound
<1>11. StateInv'
  <2>1. status' = status /\ approval' = approval /\ revision' = revision /\ mailed' = mailed
    BY <1>4
  <2>2. status = "pending_review" => Packet' = Packet
    BY <1>1, <1>4, <1>5, CurrentExists
  <2> QED BY <2>1, <2>2, <1>0 DEF IInv, StateInv, ApprovalIsBacked
<1>12. OpInv'
  <2>1. n \in Made'
    BY <1>1, <1>8
  <2> QED BY <2>1, <1>0, <1>1, <1>2, <1>4, <1>5, <1>6 DEF OpInv, Rendering
<1> QED BY <1>7, <1>9, <1>10, <1>11, <1>12 DEF IInv

\* Its packet is frozen, or the failure kept.
LEMMA RenderStep ==
    ASSUME IInv, Render
    PROVE  IInv'
<1> DEFINE n == op.revision
           d == [dirs[n] EXCEPT !.packet = TRUE, !.parent = op.parent]
<1>0. /\ op \in Operation /\ op # None /\ op.step = "render" /\ Rendering
      /\ ~dirs[n].packet /\ dirs[n].claim = None
  BY DEF IInv, TypeOK, OpInv, Render
<1>1. n \in Revisions /\ dirs[n] \in Directory /\ dirs[n] # None /\ n # revision
  BY <1>0 DEF Rendering, Made, IInv, TypeOK
<1>2. d \in Directory /\ d.claim = None /\ d.packet
  BY <1>0, <1>1 DEF Directory, Operation
<1>3. UNCHANGED <<clock, state, archive, mailed, session, crashes, lost>>
  BY DEF Render
<1>4. CASE dirs' = [dirs EXCEPT ![n] = d] /\ op' = [op EXCEPT !.step = "publish"]
  <2> HIDE DEF d, n
  <2>1. /\ Made' = Made
        /\ dirs' \in [Revisions -> Directory \cup {None}]
        /\ dirs'[n] = d
        /\ \A q \in Revisions : q # n => dirs'[q] = dirs[q]
    BY <1>1, <1>2, <1>4, SameNumbers DEF IInv
  <2>2. op' \in Operation /\ op' # None /\ op'.step = "publish" /\ op'.revision = n
    <3>1. op' \in Operation
      BY <1>0, <1>4 DEF Operation, Steps
    <3> QED BY <3>1, <1>0, <1>4, NoneAssumption DEF Operation, n
  <2>3. TypeOK'
    BY <1>3, <2>1, <2>2 DEF IInv, TypeOK
  <2>4. Numbering'
    BY <1>3, <2>1, <2>2, NumberingKept DEF IInv, MakesOne
  <2>5. ClaimsSound'
    BY <1>2, <2>1 DEF IInv, ClaimsSound, Sound
  <2>6. StateInv'
    <3>1. status = "pending_review" => Packet' = Packet
      BY <1>1, <1>3, <2>1, CurrentExists
    <3> QED BY <3>1, <1>0, <1>3 DEF IInv, StateInv, ApprovalIsBacked, Rendering
  <2>7. OpInv'
    BY <1>0, <1>2, <1>3, <2>1, <2>2 DEF OpInv, Rendering, n
  <2> QED BY <2>3, <2>4, <2>5, <2>6, <2>7 DEF IInv
<1>5. CASE op' = [op EXCEPT !.step = "fail"] /\ dirs' = dirs
  <2>1. op' \in Operation /\ op' # None /\ op'.step = "fail" /\ op'.revision = n
    <3>1. op' \in Operation
      BY <1>0, <1>5 DEF Operation, Steps
    <3> QED BY <3>1, <1>0, <1>5, NoneAssumption DEF Operation
  <2>2. TypeOK'
    BY <1>3, <1>5, <2>1 DEF IInv, TypeOK
  <2>3. Made' = Made
    BY <1>5 DEF Made
  <2>4. Numbering'
    BY <1>3, <2>1, <2>3, NumberingKept DEF IInv, MakesOne
  <2>5. ClaimsSound' /\ StateInv'
    BY <1>3, <1>5 DEF IInv, ClaimsSound, Sound, StateInv, ApprovalIsBacked
  <2>6. OpInv'
    BY <1>0, <1>3, <2>1, <2>3 DEF OpInv, Rendering
  <2> QED BY <2>2, <2>4, <2>5, <2>6 DEF IInv
<1> QED BY <1>4, <1>5 DEF Render

\* state.json moves on to the new revision.
LEMMA CommitRevisionStep ==
    ASSUME IInv, CommitRevision
    PROVE  IInv'
<1>0. /\ op \in Operation /\ op # None /\ Rendering
      /\ op.step = "publish" => dirs[op.revision].packet
  BY DEF IInv, TypeOK, OpInv, CommitRevision
<1>1. op.revision \in Revisions
  BY <1>0 DEF Rendering, Made
<1>2. /\ revision' = op.revision /\ op' = None
      /\ status' \in {"pending_review", "generation_failed"}
      /\ status' = "pending_review" => op.step = "publish"
      /\ UNCHANGED <<clock, approval, files, mailed, session, crashes, lost>>
  BY DEF CommitRevision
<1>3. TypeOK'
  BY <1>1, <1>2, BoundsAssumption DEF IInv, TypeOK, Statuses, Blockers
<1>4. Numbering'
  <2>1. PICK t \in 0..MaxRevision : Made = 1..t
    BY DEF IInv, Numbering
  <2>2. Made' = 1..t /\ revision' \in 0..t /\ ~MakesOne'
    BY <2>1, <1>0, <1>2 DEF Made, Rendering, MakesOne
  <2> QED BY <2>2 DEF Numbering
<1>5. ClaimsSound' /\ OpInv'
  BY <1>2 DEF IInv, ClaimsSound, Sound, OpInv
<1>6. StateInv'
  BY <1>0, <1>1, <1>2, BoundsAssumption DEF IInv, StateInv, ApprovalIsBacked, Rendering
<1> QED BY <1>3, <1>4, <1>5, <1>6 DEF IInv

\* No step of any process breaks the invariant.
LEMMA NextIInv == IInv /\ [Next]_vars => IInv'
<1> SUFFICES ASSUME IInv, [Next]_vars PROVE IInv'
  OBVIOUS
<1>1. CASE Proceed
  BY <1>1, MkdirStep, RenderStep, CommitRevisionStep, ReleaseStep, ArchiveStep,
     DecideStep, StopStep DEF Proceed
<1>2. CASE Mail \/ Crash \/ Tick \/ Regenerate \/ BeginSend
  BY <1>2, MailStep, StopStep, TickStep, RegenerateStep, BeginSendStep
<1>3. CASE \E s \in Sessions : Wake(s) \/ End(s) \/ Lose(s) \/ ClaimReport(s)
  BY <1>3, SessionStep, ClaimStep
<1>4. CASE \E s \in Sessions, v \in Verdicts : Submit(s, v)
  BY <1>4, SubmitStep
<1>5. CASE UNCHANGED vars
  <2>1. TypeOK'
    BY <1>5 DEF IInv, TypeOK, vars
  <2> QED BY <1>5, <2>1, OutsideStep DEF vars
<1> QED BY <1>1, <1>2, <1>3, <1>4, <1>5 DEF Next
-----------------------------------------------------------------------------
\* What the invariant says of single states.
LEMMA IInvImplies ==
    IInv => /\ TypeOK /\ ApprovalIsBacked /\ ParentNeverApproves
            /\ ReleasedClaimHasReview /\ MailIsApproved
<1> SUFFICES ASSUME IInv PROVE /\ TypeOK /\ ApprovalIsBacked /\ ParentNeverApproves
                               /\ ReleasedClaimHasReview /\ MailIsApproved
  OBVIOUS
<1>1. TypeOK /\ ApprovalIsBacked /\ ReleasedClaimHasReview
  BY DEF IInv, StateInv, ClaimsSound, Sound, ReleasedClaimHasReview
<1>2. ParentNeverApproves
  <2> SUFFICES ASSUME status = "approved" PROVE approval.by # Packet.parent
    BY DEF ParentNeverApproves
  <2>1. Sound(Packet) /\ Packet.claim # None /\ Packet.claim.by = approval.by
    BY CurrentExists DEF IInv, ClaimsSound, StateInv, ApprovalIsBacked
  <2> QED BY <2>1 DEF Sound
<1>3. MailIsApproved
  BY DEF IInv, StateInv, ApprovalIsBacked, MailIsApproved
<1> QED BY <1>1, <1>2, <1>3

LEMMA Invariance == Spec => []IInv
BY InitIInv, NextIInv, PTL DEF Spec

\* The variables keep their types.
THEOREM TypeCorrect == Spec => []TypeOK
BY Invariance, IInvImplies, PTL

\* Whatever crashed before, an approval in state.json is backed by the packet,
\* review, released claim and archive receipt of the same revision and session.
THEOREM BackedApproval == Spec => []ApprovalIsBacked
BY Invariance, IInvImplies, PTL

\* No session approves the revision made from the changes it asked for.
THEOREM IndependentApproval == Spec => []ParentNeverApproves
BY Invariance, IInvImplies, PTL

\* A closed claim always has its owner's review beside it.
THEOREM ClosedAfterReview == Spec => []ReleasedClaimHasReview
BY Invariance, IInvImplies, PTL

\* Nothing but the approved revision of an occurrence is ever mailed.
THEOREM ApprovedMail == Spec => []MailIsApproved
BY Invariance, IInvImplies, PTL

\* A step leaves every existing directory's identity alone.
LEMMA ImmutableStep ==
    ASSUME IInv, [Next]_vars
    PROVE  \A r \in Revisions : dirs[r] # None =>
              /\ dirs'[r] # None
              /\ dirs'[r].editor = dirs[r].editor
              /\ dirs[r].packet => dirs'[r].packet /\ dirs'[r].parent = dirs[r].parent
<1> SUFFICES ASSUME NEW r \in Revisions, dirs[r] # None
             PROVE  /\ dirs'[r] # None
                    /\ dirs'[r].editor = dirs[r].editor
                    /\ dirs[r].packet => dirs'[r].packet /\ dirs'[r].parent = dirs[r].parent
  OBVIOUS
<1>1. dirs[r] \in Directory /\ TypeOK
  BY DEF IInv, TypeOK
<1>2. CASE dirs'[r] = dirs[r]
  BY <1>2
<1>3. CASE Mkdir
  <2> DEFINE n == NextNumber
             d == [editor |-> op.editor, packet |-> FALSE, parent |-> None,
                   review |-> None, claim |-> None]
  <2>1. n # r
    <3>1. MakesOne
      BY <1>3 DEF Mkdir, MakesOne
    <3> QED BY <3>1, NextIsFree DEF IInv
  <2>2. dirs' = [dirs EXCEPT ![n] = d]
    BY <1>3 DEF Mkdir
  <2> HIDE DEF n, d
  <2>3. dirs'[r] = dirs[r]
    BY <1>1, <2>1, <2>2 DEF TypeOK
  <2> QED BY <2>3
<1>4. CASE Render
  <2> DEFINE n == op.revision
             d == [dirs[n] EXCEPT !.packet = TRUE, !.parent = op.parent]
  <2>1. ~dirs[n].packet
    BY <1>4 DEF Render, IInv, OpInv
  <2>2. CASE r # n \/ dirs' = dirs
    <3>1. dirs'[r] = dirs[r]
      BY <1>1, <1>4, <2>2 DEF Render, TypeOK
    <3> QED BY <3>1
  <2>3. CASE r = n /\ dirs' = [dirs EXCEPT ![n] = d]
    <3>1. d \in Directory /\ d.editor = dirs[n].editor
      BY <1>1, <1>4, <2>3 DEF TypeOK, Directory, Operation, Render
    <3> HIDE DEF d
    <3>2. dirs'[r] = d
      BY <1>1, <2>3 DEF TypeOK
    <3> QED BY <2>1, <2>3, <3>1, <3>2, NoneAssumption
  <2> QED BY <1>4, <2>2, <2>3 DEF Render
<1>5. CASE (\E s \in Sessions : ClaimReport(s)) \/ (\E s \in Sessions, v \in Verdicts : Submit(s, v)) \/ Release
  <2>1. revision \in Revisions /\ Packet \in Directory
    BY <1>5, CurrentExists DEF ClaimReport, CanClaim, Submit, Release, IInv, OpInv, Reviewed
  <2>2. PICK d \in Directory : /\ dirs' = [dirs EXCEPT ![revision] = d]
                               /\ d.editor = Packet.editor
                               /\ d.packet = Packet.packet
                               /\ d.parent = Packet.parent
    <3>1. ASSUME NEW s \in Sessions, ClaimReport(s)
          PROVE  \E c \in Claim : dirs' = [dirs EXCEPT ![revision] = [Packet EXCEPT !.claim = c]]
      <4> DEFINE c == [by |-> s, deadline |-> clock + ClaimTimeout, released |-> FALSE]
      <4>1. c \in Claim
        BY BoundsAssumption, DelaysAssumption DEF Claim, IInv, TypeOK
      <4>2. dirs' = [dirs EXCEPT ![revision] = [Packet EXCEPT !.claim = c]]
        BY <3>1 DEF ClaimReport
      <4> QED BY <4>1, <4>2
    <3>2. ASSUME NEW s \in Sessions, NEW v \in Verdicts, Submit(s, v)
          PROVE  \E rev \in Review : dirs' = [dirs EXCEPT ![revision] = [Packet EXCEPT !.review = rev]]
      <4> DEFINE rev == [by |-> s, verdict |-> v]
      <4>1. rev \in Review
        BY DEF Review
      <4>2. dirs' = [dirs EXCEPT ![revision] = [Packet EXCEPT !.review = rev]]
        BY <3>2 DEF Submit
      <4> QED BY <4>1, <4>2
    <3>3. ASSUME Release
          PROVE  \E c \in Claim : dirs' = [dirs EXCEPT ![revision] = [Packet EXCEPT !.claim = c]]
      <4> DEFINE c == [Packet.claim EXCEPT !.released = TRUE]
      <4>1. c \in Claim
        BY <3>3, <2>1 DEF Release, IInv, OpInv, Reviewed, Directory, Claim
      <4>2. dirs' = [dirs EXCEPT ![revision] = [Packet EXCEPT !.claim = c]]
        BY <3>3 DEF Release
      <4> QED BY <4>1, <4>2
    <3>4. \/ \E c \in Claim : dirs' = [dirs EXCEPT ![revision] = [Packet EXCEPT !.claim = c]]
          \/ \E rev \in Review : dirs' = [dirs EXCEPT ![revision] = [Packet EXCEPT !.review = rev]]
      BY <1>5, <3>1, <3>2, <3>3
    <3> QED BY <2>1, <3>4 DEF Directory
  <2>3. r # revision => dirs'[r] = dirs[r]
    BY <2>2, <1>1 DEF TypeOK
  <2>4. r = revision => dirs'[r] = d
    BY <2>2, <1>1 DEF TypeOK
  <2> QED BY <2>2, <2>3, <2>4, NoneAssumption
<1>6. CASE dirs' = dirs
  BY <1>6
<1>7. Mkdir \/ Render \/ (\E s \in Sessions : ClaimReport(s)) \/ (\E s \in Sessions, v \in Verdicts : Submit(s, v)) \/ Release \/ dirs' = dirs
  BY DEF Next, Proceed, CommitRevision, Archive, Decide, EndSend, Mail, Crash, Tick,
     Regenerate, BeginSend, Wake, End, Lose, vars
<1> QED BY <1>3, <1>4, <1>5, <1>6, <1>7

\* Revision directories, their numbers included, are never rewritten.
THEOREM ImmutableRevisions == Spec => RevisionsAreImmutable
BY Invariance, ImmutableStep, PTL DEF Spec, RevisionsAreImmutable

\* An approved report's state and files stand still.
THEOREM FinalApproval == Spec => ApprovalIsFinal
<1>1. ASSUME IInv, [Next]_vars, status = "approved" PROVE UNCHANGED <<state, files>>
  <2>1. op # None => op.step = "send"
    BY <1>1 DEF IInv, OpInv, TypeOK, Operation, Steps, Closed, Reviewed, Rendering
  <2> QED BY <1>1, <2>1 DEF Next, Proceed, Mkdir, Render, CommitRevision, Release, Archive,
        Decide, EndSend, Mail, Crash, Tick, Regenerate, BeginSend, Wake, End, Lose,
        ClaimReport, CanClaim, Submit, Blockers, vars
<1> QED BY <1>1, Invariance, PTL DEF Spec, ApprovalIsFinal

\* The age checked when a sender took the lock stays true while it holds it.
Aged == op # None /\ op.step = "send" => clock >= approval.at + SendDelay

LEMMA AgedStep == IInv /\ Aged /\ [Next]_vars => Aged'
<1> SUFFICES ASSUME IInv, Aged, [Next]_vars, op' # None, op'.step = "send"
             PROVE  clock' >= approval'.at + SendDelay
  BY DEF Aged
<1>1. CASE BeginSend
  BY <1>1 DEF BeginSend
<1>2. CASE Tick
  <2>1. op = op' /\ approval' = approval /\ clock' = clock + 1
    BY <1>2 DEF Tick
  <2>2. approval \in Approval
    BY <2>1 DEF IInv, TypeOK, OpInv, StateInv, ApprovalIsBacked
  <2>3. approval.at \in Nat /\ clock \in Int
    BY <2>2 DEF Approval, IInv, TypeOK
  <2> QED BY <2>1, <2>3, DelaysAssumption DEF Aged
<1>3. CASE UNCHANGED <<op, approval, clock>>
  BY <1>3 DEF Aged
<1>4. op # None => op \in Operation
  BY DEF IInv, TypeOK
<1>5. ~Mkdir /\ ~Render /\ ~Archive
  BY <1>4 DEF Mkdir, Render, Archive, Operation
<1>6. ~Release
  BY <1>4 DEF Release, AfterRelease, MakeRevision, Operation
<1>7. ~CommitRevision /\ ~Decide /\ ~EndSend /\ ~Crash
  BY DEF CommitRevision, Decide, EndSend, Crash
<1>8. ~Regenerate /\ ~(\E s \in Sessions, v \in Verdicts : Submit(s, v))
  BY DEF Regenerate, MakeRevision, Submit
<1>9. BeginSend \/ Tick \/ UNCHANGED <<op, approval, clock>>
  BY <1>5, <1>6, <1>7, <1>8 DEF Next, Proceed, Mail, Wake, End, Lose, ClaimReport, vars
<1> QED BY <1>1, <1>2, <1>3, <1>9

\* No mail leaves before the approval is SendDelay old.
THEOREM AgedMail == Spec => MailIsAged
<1>1. Init => Aged
  BY DEF Init, Aged, MakeRevision
<1>2. ASSUME IInv, Aged, [Next]_vars, mailed' # mailed
      PROVE  approval # None /\ clock >= approval.at + SendDelay
  <2>1. Mail
    BY <1>2 DEF Next, Proceed, Mkdir, Render, CommitRevision, Release, Archive, Decide, EndSend,
       Crash, Tick, Regenerate, BeginSend, Wake, End, Lose, ClaimReport, Submit, vars
  <2> QED BY <1>2, <2>1 DEF Mail, Aged, IInv, OpInv, StateInv, ApprovalIsBacked
<1> QED BY <1>1, <1>2, Invariance, AgedStep, PTL DEF Spec, MailIsAged
\* A claim that was not released changes hands only once its owner's session has
\* ended: neither a deadline nor a crash gives it away.
THEOREM NoTakeover == Spec => TakeoverNeedsEnd
<1>1. ASSUME IInv, [Next]_vars
      PROVE  \A r \in Revisions :
                LET Old == dirs[r].claim
                IN  dirs[r] # None /\ Old # None /\ ~Old.released /\ dirs'[r].claim.by # Old.by
                    => Finished(Old.by)
  <2> SUFFICES ASSUME NEW r \in Revisions, dirs[r] # None, dirs[r].claim # None,
                      ~dirs[r].claim.released, dirs'[r].claim.by # dirs[r].claim.by
               PROVE  Finished(dirs[r].claim.by)
    BY <1>1
  <2>1. dirs[r] \in Directory /\ dirs \in [Revisions -> Directory \cup {None}] /\ TypeOK
    BY <1>1 DEF IInv, TypeOK
  <2>2. CASE \E s \in Sessions : ClaimReport(s)
    <3>1. PICK s \in Sessions : ClaimReport(s)
      BY <2>2
    <3>2. r = revision
      BY <2>1, <3>1 DEF ClaimReport
    <3>3. MayClaim(s, dirs[r].claim)
      BY <3>1, <3>2 DEF ClaimReport, CanClaim
    <3> QED BY <3>3 DEF MayClaim
  <2>3. CASE Mkdir
    <3>1. NextNumber # r
      <4>1. MakesOne
        BY <2>3 DEF Mkdir, MakesOne
      <4> QED BY <1>1, <4>1, NextIsFree DEF IInv
    <3> QED BY <2>1, <2>3, <3>1 DEF Mkdir
  <2>4. CASE Render
    <3> DEFINE n == op.revision
               d == [dirs[n] EXCEPT !.packet = TRUE, !.parent = op.parent]
    <3>1. dirs' = dirs \/ dirs' = [dirs EXCEPT ![n] = d]
      BY <2>4 DEF Render
    <3>2. r = n => d.claim = dirs[r].claim
      BY <2>1 DEF Directory
    <3> HIDE DEF n, d
    <3>3. dirs'[r] = dirs[r] \/ (r = n /\ dirs'[r] = d)
      BY <2>1, <3>1
    <3> QED BY <3>2, <3>3
  <2>5. CASE \E s \in Sessions, v \in Verdicts : Submit(s, v)
    <3>1. dirs'[r].claim = dirs[r].claim
      BY <2>1, <2>5 DEF Submit, Directory
    <3> QED BY <3>1
  <2>6. CASE Release
    <3>1. dirs'[r].claim.by = dirs[r].claim.by
      BY <2>1, <2>6 DEF Release, Directory, Claim
    <3> QED BY <3>1
  <2>7. dirs' # dirs
    OBVIOUS
  <2> QED
    BY <1>1, <2>2, <2>3, <2>4, <2>5, <2>6, <2>7 DEF Next, Proceed, CommitRevision, Archive, Decide,
       EndSend, Mail, Crash, Tick, Regenerate, BeginSend, Wake, End, Lose, vars
<1> QED BY <1>1, Invariance, PTL DEF Spec, TakeoverNeedsEnd
=============================================================================
