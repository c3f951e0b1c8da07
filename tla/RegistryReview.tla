---------------------------- MODULE RegistryReview ----------------------------
(***************************************************************************)
(* How a Registry candidate becomes public: publication.py stages and      *)
(* approves candidates, acquisition_review.py and publication.py run the   *)
(* two boards that review them, item_lifecycle.py holds disputed ones, and *)
(* T1 checks the current body of every entity.                             *)
(*                                                                         *)
(* The "final" board (registry-review/) is prepared by anybody outside a   *)
(* lock and claimed and submitted by native sessions; the "source" board   *)
(* is the acquisition-review/ of one acquisition run, whose files only     *)
(* change under its lock.  A transaction of the Registry is one step; a    *)
(* file written after it is a step of its own, and a crash may come in     *)
(* between, except that Queue writes its file with its transaction: nobody *)
(* who could tell reads that file without the lock.  A process that finds  *)
(* a lock taken, or a check failed, raises: it is back before its call.    *)
(***************************************************************************)
EXTENDS Naturals, FiniteSets

CONSTANTS
    Entities,       \* articles of the acquisition run
    Sessions,       \* native review sessions, each with its own identity
    Preparers,      \* processes that prepare the final board: T1, PDF, web intake
    None,
    MaxBody,        \* bound on collected bodies of an entity
    MaxRuns,        \* bound on T1 runs that target an entity
    MaxFixes,       \* bound on corrections of an entity
    MaxDisputes,    \* bound on disputes
    MaxCrashes      \* bound on calls that die

ASSUME BoundsAssumption ==
    /\ MaxBody \in Nat \ {0}
    /\ MaxRuns \in Nat /\ MaxFixes \in Nat /\ MaxDisputes \in Nat /\ MaxCrashes \in Nat
ASSUME ProcessesAssumption == Sessions \cap Preparers = {} /\ None \notin Sessions

Processes == Sessions \cup Preparers
Boards == {"final", "source"}

\* The latest T1 run of an entity: how many there were, the body it was given
\* and whether it is still under way.
CheckRun == [runs : 0..MaxRuns, target : 0..MaxBody, open : BOOLEAN]

\* A row of registry_candidates, as far as reviews tell candidates apart:
\* authors are the sessions whose corrections its display consists of.
Candidate == [entity : Entities, body : 1..MaxBody, fixes : 0..MaxFixes,
              check : CheckRun, authors : SUBSET Sessions]

\* What a board lists: its candidates, and whether each is offered for review
\* or only remembered among the excluded ones.
Packet == SUBSET [cand : Candidate, ready : BOOLEAN]
Offered(p) == {x.cand : x \in {y \in p : y.ready}}

Claim == [by : Sessions, packet : Packet, open : BOOLEAN]

ASSUME NoneAssumption == None \notin Candidate \cup Claim

Verdicts == {"none", "pass", "negative", "failed"}
Steps == {"idle", "packet", "refresh", "queue", "claim",            \* prepare and claim
          "commit", "release",                                      \* submit the final board
          "item", "state", "unlock",                                \* submit the source board
          "closing", "saving"}                                      \* correct

Operation == [at : Steps, goal : {"none"} \cup Boards, packet : Packet,
              verdict : [Entities -> Verdicts], left : SUBSET Entities]

VARIABLES
    live,       \* [Entities -> what the Registry's rows hold now]
    latest,     \* [Entities -> latest_candidate_sha256]
    published,  \* [Entities -> published_candidate_sha256, or None]
    reviews,    \* registry_reviews
    receipts,   \* candidates a receipt of the source board found wanting
    disputes,   \* item-lifecycle/state.json
    packet,     \* [Boards -> packet.json, or the packet in state.json]
    claim,      \* [Boards -> claim.json, or None]
    items,      \* [Entities -> item_reviews of the source board, or None]
    parent,     \* parent_context of the source board
    session,    \* [Sessions -> "none", "live" or "ended" (a cron_ end reason)]
    op,         \* [Processes -> the call it is in]
    crashes

registry == <<live, latest, published, reviews>>
lifecycle == <<receipts, disputes>>
files == <<packet, claim, items, parent>>
vars == <<live, latest, published, reviews, receipts, disputes, packet, claim, items, parent,
          session, op, crashes>>

Live == [body : 1..MaxBody, fixes : 0..MaxFixes, check : CheckRun]
Review == [cand : Candidate, by : Sessions, pass : BOOLEAN]
Dispute == [cand : Candidate, answered : BOOLEAN]
ItemReview == [cand : Candidate, pass : BOOLEAN]

TypeOK ==
    /\ live \in [Entities -> Live]
    /\ latest \in [Entities -> Candidate]
    /\ published \in [Entities -> Candidate \cup {None}]
    /\ reviews \subseteq Review
    /\ receipts \subseteq Candidate
    /\ disputes \subseteq Dispute
    /\ packet \in [Boards -> Packet]
    /\ claim \in [Boards -> Claim \cup {None}]
    /\ items \in [Entities -> ItemReview \cup {None}]
    /\ parent \in Sessions \cup {None}
    /\ session \in [Sessions -> {"none", "live", "ended"}]
    /\ op \in [Processes -> Operation]
    /\ crashes \in 0..MaxCrashes

NoVerdict == [e \in Entities |-> "none"]
Idle == [at |-> "idle", goal |-> "none", packet |-> {}, verdict |-> NoVerdict, left |-> {}]

Unchecked == [runs |-> 0, target |-> 0, open |-> FALSE]
First(e) == [entity |-> e, body |-> 1, fixes |-> 0, check |-> Unchecked, authors |-> {}]

\* The run has just been collected: staged, queued for review and excluded
\* from it until T1 has looked at the bodies.
Init ==
    /\ live = [e \in Entities |-> [body |-> 1, fixes |-> 0, check |-> Unchecked]]
    /\ latest = [e \in Entities |-> First(e)]
    /\ published = [e \in Entities |-> None]
    /\ reviews = {} /\ receipts = {} /\ disputes = {}
    /\ packet = [b \in Boards |->
            IF b = "final" THEN {} ELSE {[cand |-> First(e), ready |-> FALSE] : e \in Entities}]
    /\ claim = [b \in Boards |-> None]
    /\ items = [e \in Entities |-> None]
    /\ parent = None
    /\ session = [s \in Sessions |-> "none"]
    /\ op = [x \in Processes |-> Idle]
    /\ crashes = 0

-----------------------------------------------------------------------------
\* Staging

\* snapshot_entity and stage_snapshot: the candidate of what the rows hold now.
\* The display of the previous candidate is carried over unless the business
\* rows changed; checks are none.
Staged(e) ==
    [entity |-> e, body |-> live[e].body, fixes |-> live[e].fixes, check |-> live[e].check,
     authors |-> IF latest[e].body = live[e].body /\ latest[e].fixes = live[e].fixes
                 THEN latest[e].authors ELSE {}]

StagedAt(E) == [e \in Entities |-> IF e \in E THEN Staged(e) ELSE latest[e]]

\* Mutant of InfoReady: the target of the run is not compared.
InfoReadyOfAnyBody(c) == c.check = live[c.entity].check /\ c.check.runs > 0 /\ ~c.check.open

\* information_ready: the last T1 run that targets the entity had this body,
\* is complete, and is the one the candidate was staged with.
InfoReady(c) ==
    /\ c.body = live[c.entity].body
    /\ c.check = live[c.entity].check
    /\ c.check.target = c.body
    /\ ~c.check.open

\* Mutant of Publishable: a candidate that has been replaced may be published.
PublishableWhenChecked(now, c) == InfoReady(c)

\* _approve: only what is still the latest candidate of its entity.
Publishable(now, c) == now[c.entity] = c /\ InfoReady(c)

\* The classifications of partition_items.
Approved(c) == published[c.entity] = c

Negative(c) == c \in receipts \/ \E r \in reviews : r.cand = c /\ ~r.pass

\* Disputes of this very candidate if there are any; else every dispute of the
\* entity holds it, for its inputs have changed.
Disputed(c) ==
    LET own == {d \in disputes : d.cand = c}
    IN  IF own # {} THEN \E d \in own : ~d.answered
        ELSE \E d \in disputes : d.cand.entity = c.entity

\* Ready for review when now is what latest_candidate_sha256 says.
Ready(now, c) ==
    \/ Approved(c)
    \/ now[c.entity] = c /\ ~Negative(c) /\ ~Disputed(c) /\ InfoReady(c)

ReadyOf(now) == {c \in {now[e] : e \in Entities} : Ready(now, c)}

\* Mutant of Held: a dispute recorded since the claim is not looked at again.
HeldByReview(now, c) == ~Approved(c) /\ now[c.entity] = c /\ Negative(c)

\* Mutant of Held: what the other board has found meanwhile is not looked at.
HeldByDispute(now, c) == ~Approved(c) /\ now[c.entity] = c /\ Disputed(c)

\* require_no_disputes raises: a candidate that is still the latest is held.
Held(now, c) == ~Approved(c) /\ now[c.entity] = c /\ (Negative(c) \/ Disputed(c))

\* Mutant of Independent: the author of a correction may review it.
IndependentOfNobody(s, p) == TRUE

\* _require_correction_independence.
Independent(s, p) == \A c \in Offered(p) : s \notin c.authors

-----------------------------------------------------------------------------
\* What the Registry is told

\* A later acquisition run stores a new body and stages everything.
Collect(e) ==
    /\ live[e].body < MaxBody
    /\ live' = [live EXCEPT ![e].body = @ + 1]
    /\ latest' = [x \in Entities |-> IF x = e
            THEN [Staged(e) EXCEPT !.body = live[e].body + 1, !.authors = {}] ELSE Staged(x)]
    /\ UNCHANGED <<published, reviews, lifecycle, files, session, op, crashes>>

\* T1 freezes the exact targets of a run; nothing is staged yet.  Scheduled
\* runs of one kind exclude each other.
StartRun(E) ==
    /\ E # {}
    /\ \A e \in Entities : ~live[e].check.open
    /\ \A e \in E : live[e].check.runs < MaxRuns
    /\ live' = [e \in Entities |-> IF e \in E
            THEN [live[e] EXCEPT !.check = [runs |-> @.runs + 1, target |-> live[e].body, open |-> TRUE]]
            ELSE live[e]]
    /\ UNCHANGED <<latest, published, reviews, lifecycle, files, session, op, crashes>>

\* The run ends with an attempt for every target and stages everything.
FinishRun ==
    /\ \E e \in Entities : live[e].check.open
    /\ live' = [e \in Entities |-> [live[e] EXCEPT !.check.open = FALSE]]
    /\ latest' = [e \in Entities |-> [Staged(e) EXCEPT !.check.open = FALSE]]
    /\ UNCHANGED <<published, reviews, lifecycle, files, session, op, crashes>>

\* record_dispute and import_decisions.
Seen == {latest[e] : e \in Entities} \cup Offered(packet["final"]) \cup Offered(packet["source"])

Hold(c) ==
    /\ Cardinality(disputes) < MaxDisputes
    /\ disputes' = disputes \cup {[cand |-> c, answered |-> FALSE]}
    /\ UNCHANGED <<registry, receipts, files, session, op, crashes>>

ImportDecision(d) ==
    /\ ~d.answered
    /\ disputes' = (disputes \ {d}) \cup {[d EXCEPT !.answered = TRUE]}
    /\ UNCHANGED <<registry, receipts, files, session, op, crashes>>

-----------------------------------------------------------------------------
\* Sessions, claims and locks

Wake(s) ==
    /\ session[s] = "none"
    /\ session' = [session EXCEPT ![s] = "live"]
    /\ UNCHANGED <<registry, lifecycle, files, op, crashes>>

End(s) ==
    /\ session[s] = "live"
    /\ op[s] = Idle
    /\ session' = [session EXCEPT ![s] = "ended"]
    /\ UNCHANGED <<registry, lifecycle, files, op, crashes>>

Preparing == {"packet", "refresh", "queue", "claim"}
Submitting == {"item", "state", "unlock", "closing", "saving"}
FinalLocked == \E x \in Processes : op[x].goal = "final" /\ op[x].at \in Preparing

\* Mutant of SourceLocked: a submission does not take the lock.
SourceLockedToCorrect == \E x \in Processes : op[x].at \in {"closing", "saving"}

\* transaction_lock of the source board.
SourceLocked == \E x \in Processes : op[x].at \in Submitting

Owned(b) ==
    /\ claim[b] # None
    /\ claim[b].open
    /\ session[claim[b].by] # "ended"

\* claim_review: nobody's, or finished by somebody or about something else, or
\* left behind by a session that ended.
MayClaim(b, s, p) ==
    claim[b] # None =>
        \/ ~claim[b].open /\ ~(claim[b].by = s /\ claim[b].packet = p)
        \/ claim[b].open /\ session[claim[b].by] = "ended"

HoldsClaim(b, s) ==
    /\ claim[b] # None
    /\ claim[b].by = s
    /\ claim[b].open
    /\ claim[b].packet = packet[b]

Close(b) == [claim EXCEPT ![b] = IF @ = None THEN None ELSE [@ EXCEPT !.open = FALSE]]

Free(x) == op[x] = Idle /\ (x \in Sessions => session[x] = "live")
Leave(x) == op' = [op EXCEPT ![x] = Idle]

-----------------------------------------------------------------------------
\* prepare_review, refresh_acquisition_reviews and the claims

\* prepare_review up to its transaction: the owner's packet is kept; otherwise
\* everything is staged and the ready candidates that await a review chosen.
\* A claiming session holds the review lock, other callers hold none.
Prepare(x, goal) ==
    /\ Free(x)
    /\ ~Owned("final")
    /\ goal = "final" => ~FinalLocked
    /\ latest' = StagedAt(Entities)
    /\ op' = [op EXCEPT ![x] = [Idle EXCEPT !.at = "packet", !.goal = goal, !.packet =
            {[cand |-> c, ready |-> TRUE] : c \in {y \in ReadyOf(latest') : ~Approved(y)}}]]
    /\ UNCHANGED <<live, published, reviews, lifecycle, files, session, crashes>>

WritePacket(x) ==
    /\ op[x].at = "packet"
    /\ packet' = [packet EXCEPT !["final"] = op[x].packet]
    /\ op' = [op EXCEPT ![x].at = "refresh"]
    /\ UNCHANGED <<registry, lifecycle, claim, items, parent, session, crashes>>

BeginClaimSource(s) ==
    /\ Free(s)
    /\ op' = [op EXCEPT ![s] = [Idle EXCEPT !.at = "refresh", !.goal = "source"]]
    /\ UNCHANGED <<registry, lifecycle, files, session, crashes>>

\* Where a call goes on once the source board is up to date.
AfterRefresh(x) ==
    op' = [op EXCEPT ![x] = IF @.goal = "none" THEN Idle ELSE [@ EXCEPT !.at = "claim"]]

\* refresh_acquisition_reviews looks, outside the lock, at the owner and at what
\* has become of the candidates.
Changed(p) ==
    \/ \E y \in p : y.cand # latest[y.cand.entity]
    \/ ReadyOf(latest) # Offered(p)

Refresh(x) ==
    /\ op[x].at = "refresh"
    /\ IF ~Owned("source") /\ Changed(packet["source"])
       THEN op' = [op EXCEPT ![x].at = "queue"]
       ELSE AfterRefresh(x)
    /\ UNCHANGED <<registry, lifecycle, files, session, crashes>>

\* queue_acquisition_review: stages, freezes the run's items anew and keeps the
\* reviews of those that are still the same candidates.
Queue(x) ==
    /\ op[x].at = "queue"
    /\ ~SourceLocked
    /\ latest' = StagedAt(Entities)
    /\ packet' = [packet EXCEPT !["source"] =
            {[cand |-> latest'[e], ready |-> latest'[e] \in ReadyOf(latest')] : e \in Entities}]
    /\ items' = [e \in Entities |->
            IF items[e] # None /\ items[e].cand \in Offered(packet'["source"]) THEN items[e] ELSE None]
    /\ AfterRefresh(x)
    /\ UNCHANGED <<live, published, reviews, lifecycle, claim, parent, session, crashes>>

\* claim_review before it looks at the claim: require_review_information and
\* require_item_readiness.
Reviewable(s, p) ==
    /\ \A c \in Offered(p) : latest[c.entity] = c /\ InfoReady(c) /\ Ready(latest, c)
    /\ Independent(s, p)

Take(b, s, p) == claim' = [claim EXCEPT ![b] = [by |-> s, packet |-> p, open |-> TRUE]]

\* claim_registry_review: of the packet it has prepared.
MayReviewFinal(s) ==
    /\ Reviewable(s, op[s].packet)
    /\ \E c \in Offered(op[s].packet) : ~Approved(c)
    /\ MayClaim("final", s, op[s].packet)

ClaimFinal(s) ==
    /\ op[s].at = "claim" /\ op[s].goal = "final"
    /\ MayReviewFinal(s)
    /\ Take("final", s, op[s].packet)
    /\ Leave(s)
    /\ UNCHANGED <<registry, lifecycle, packet, items, parent, session, crashes>>

\* claim_acquisition: of the packet its state.json holds now.
MayReviewSource(s) ==
    /\ ~SourceLocked
    /\ parent # s
    /\ Offered(packet["source"]) # {}
    /\ Reviewable(s, packet["source"])
    /\ MayClaim("source", s, packet["source"])

ClaimSource(s) ==
    /\ op[s].at = "claim" /\ op[s].goal = "source"
    /\ MayReviewSource(s)
    /\ Take("source", s, packet["source"])
    /\ Leave(s)
    /\ UNCHANGED <<registry, lifecycle, packet, items, parent, session, crashes>>

\* A lock is taken or a check fails.
Raise(x) ==
    /\ \/ op[x].at = "queue" /\ SourceLocked
       \/ op[x].at = "claim" /\ op[x].goal = "final" /\ ~MayReviewFinal(x)
       \/ op[x].at = "claim" /\ op[x].goal = "source" /\ ~MayReviewSource(x)
    /\ Leave(x)
    /\ UNCHANGED <<registry, lifecycle, files, session, crashes>>

-----------------------------------------------------------------------------
\* review_candidates: the final board is submitted without a lock

BeginFinal(s, verdict) ==
    /\ Free(s)
    /\ HoldsClaim("final", s)
    /\ op' = [op EXCEPT ![s] = [Idle EXCEPT !.at = "commit", !.packet = packet["final"], !.verdict = verdict]]
    /\ UNCHANGED <<registry, lifecycle, files, session, crashes>>

\* One transaction for the whole packet; a pass that cannot be published is
\* recorded as in need of correction.
CommitFinal(s) ==
    /\ op[s].at = "commit"
    /\ LET offered == Offered(op[s].packet)
           now == StagedAt({c.entity : c \in offered})
           judged == {c \in offered : op[s].verdict[c.entity] # "none"}
           passed == {c \in judged : op[s].verdict[c.entity] = "pass" /\ Publishable(now, c)}
       IN  /\ Independent(s, op[s].packet)
           /\ \A c \in offered : ~Held(now, c)
           /\ latest' = now
           /\ reviews' = reviews \cup {[cand |-> c, by |-> s, pass |-> c \in passed] : c \in judged}
           /\ published' = [e \in Entities |->
                  IF \E c \in passed : c.entity = e THEN CHOOSE c \in passed : c.entity = e ELSE published[e]]
    /\ op' = [op EXCEPT ![s].at = "release"]
    /\ UNCHANGED <<live, lifecycle, files, session, crashes>>

\* It writes the claim it has read, whatever claim.json holds now.
ReleaseFinal(s) ==
    /\ op[s].at = "release"
    /\ claim' = [claim EXCEPT !["final"] = [by |-> s, packet |-> op[s].packet, open |-> FALSE]]
    /\ Leave(s)
    /\ UNCHANGED <<registry, lifecycle, packet, items, parent, session, crashes>>

-----------------------------------------------------------------------------
\* review_acquisition: the source board is submitted under its lock

NothingHeld(s, now) ==
    /\ Independent(s, packet["source"])
    /\ \A c \in Offered(packet["source"]) : ~Held(now, c)

BeginSource(s, verdict) ==
    /\ Free(s)
    /\ ~SourceLocked
    /\ HoldsClaim("source", s)
    /\ NothingHeld(s, latest)
    /\ op' = [op EXCEPT ![s] = [Idle EXCEPT !.at = "item", !.verdict = verdict,
            !.left = {e \in Entities : verdict[e] = "pass"}]]
    /\ UNCHANGED <<registry, lifecycle, files, session, crashes>>

\* A transaction for every item that passes.
SubmitItem(s, c) ==
    /\ op[s].at = "item"
    /\ c.entity \in op[s].left
    /\ LET now == StagedAt({c.entity})
           passes == Publishable(now, c)
       IN  /\ NothingHeld(s, now)
           /\ latest' = now
           /\ reviews' = reviews \cup {[cand |-> c, by |-> s, pass |-> passes]}
           /\ published' = IF passes THEN [published EXCEPT ![c.entity] = c] ELSE published
           /\ op' = [op EXCEPT ![s].left = @ \ {c.entity},
                    ![s].verdict[c.entity] = IF passes THEN "pass" ELSE "failed"]
    /\ UNCHANGED <<live, lifecycle, files, session, crashes>>

\* Mutant of WriteReceipt: it does not wait for the approvals.
WriteReceiptEarly(s) ==
    /\ op[s].at = "item"
    /\ receipts' = receipts \cup
            {c \in Offered(packet["source"]) : op[s].verdict[c.entity] = "negative"}
    /\ op' = [op EXCEPT ![s].at = "state"]
    /\ UNCHANGED <<registry, disputes, files, session, crashes>>

\* The receipt says what the reviewer concluded.
WriteReceipt(s) ==
    /\ op[s].at = "item" /\ op[s].left = {}
    /\ receipts' = receipts \cup
            {c \in Offered(packet["source"]) : op[s].verdict[c.entity] = "negative"}
    /\ op' = [op EXCEPT ![s].at = "state"]
    /\ UNCHANGED <<registry, disputes, files, session, crashes>>

\* Mutant of Recorded: the review names the article, not its candidate.
RecordedOfArticle(s, c) == [cand |-> c.entity, pass |-> op[s].verdict[c.entity] = "pass"]

\* state.json says what became of it.
Recorded(s, c) ==
    [cand |-> c, pass |-> op[s].verdict[c.entity] = "pass"]

SaveState(s) ==
    /\ op[s].at = "state"
    /\ items' = [e \in Entities |-> IF op[s].verdict[e] = "none" THEN items[e]
            ELSE Recorded(s, CHOOSE c \in Offered(packet["source"]) : c.entity = e)]
    /\ op' = [op EXCEPT ![s].at = "unlock"]
    /\ UNCHANGED <<registry, lifecycle, packet, claim, parent, session, crashes>>

ReleaseSource(s) ==
    /\ op[s].at = "unlock"
    /\ claim' = Close("source")
    /\ Leave(s)
    /\ UNCHANGED <<registry, lifecycle, packet, items, parent, session, crashes>>

\* require_no_disputes raises in the midst of a submission.
Refuse(s) ==
    /\ \/ op[s].at = "commit"
          /\ LET offered == Offered(op[s].packet)
                 now == StagedAt({c.entity : c \in offered})
             IN  ~Independent(s, op[s].packet) \/ \E c \in offered : Held(now, c)
       \/ op[s].at = "item" /\ \E e \in op[s].left : ~NothingHeld(s, StagedAt({e}))
    /\ Leave(s)
    /\ UNCHANGED <<registry, lifecycle, files, session, crashes>>

-----------------------------------------------------------------------------
\* correct_candidate

\* Under the lock, whoever owns the review: the Registry is told of the display
\* and its author.  What earlier authors wrote may be part of it.
Correct(s, c, kept) ==
    /\ Free(s)
    /\ ~SourceLocked
    /\ live[c.entity].body = 1         \* the body of this run's item
    /\ live[c.entity].fixes < MaxFixes
    /\ LET new == [Staged(c.entity) EXCEPT !.fixes = live[c.entity].fixes + 1, !.authors = {s} \cup kept]
       IN  /\ live' = [live EXCEPT ![c.entity].fixes = @ + 1]
           /\ latest' = [latest EXCEPT ![c.entity] = new]
           /\ op' = [op EXCEPT ![s] = [Idle EXCEPT !.at = "closing", !.packet =
                    {IF x.cand = c THEN [x EXCEPT !.cand = new] ELSE x : x \in packet["source"]}]]
    /\ UNCHANGED <<published, reviews, lifecycle, files, session, crashes>>

CloseCorrected(s) ==
    /\ op[s].at = "closing"
    /\ claim' = Close("source")
    /\ op' = [op EXCEPT ![s].at = "saving"]
    /\ UNCHANGED <<registry, lifecycle, packet, items, parent, session, crashes>>

SaveCorrected(s) ==
    /\ op[s].at = "saving"
    /\ packet' = [packet EXCEPT !["source"] = op[s].packet]
    /\ items' = [e \in Entities |->
            IF \E x \in packet["source"] \ op[s].packet : x.cand.entity = e THEN None ELSE items[e]]
    /\ parent' = s
    /\ Leave(s)
    /\ UNCHANGED <<registry, lifecycle, claim, session, crashes>>

-----------------------------------------------------------------------------
\* Any call may die; its locks go with it, its claim stays.
Crash(x) ==
    /\ op[x] # Idle
    /\ crashes < MaxCrashes
    /\ crashes' = crashes + 1
    /\ Leave(x)
    /\ UNCHANGED <<registry, lifecycle, files, session>>

\* What a reviewer may say of the offered candidates of a packet.
Judgements(p) ==
    {v \in [Entities -> {"none", "pass", "negative"}] :
        \A e \in Entities : v[e] # "none" => \E c \in Offered(p) : c.entity = e}

Environment ==
    \/ \E e \in Entities : Collect(e)
    \/ \E E \in SUBSET Entities : StartRun(E)
    \/ FinishRun
    \/ \E c \in Seen : Hold(c)
    \/ \E d \in disputes : ImportDecision(d)
    \/ \E s \in Sessions : Wake(s) \/ End(s)

Preparation ==
    \/ \E x \in Preparers : Prepare(x, "none")
    \/ \E s \in Sessions : Prepare(s, "final") \/ BeginClaimSource(s) \/ ClaimFinal(s) \/ ClaimSource(s)
    \/ \E x \in Processes : WritePacket(x) \/ Refresh(x) \/ Queue(x) \/ Raise(x) \/ Crash(x)

Submission == \E s \in Sessions :
    \/ \E v \in Judgements(packet["final"]) : BeginFinal(s, v)
    \/ \E v \in Judgements(packet["source"]) : BeginSource(s, v)
    \/ \E c \in Offered(packet["source"]) : SubmitItem(s, c)
    \/ CommitFinal(s) \/ ReleaseFinal(s)
    \/ WriteReceipt(s) \/ SaveState(s) \/ ReleaseSource(s) \/ Refuse(s)

Correction == \E s \in Sessions :
    \/ \E x \in packet["source"] : \E kept \in {{}, x.cand.authors} : Correct(s, x.cand, kept)
    \/ CloseCorrected(s) \/ SaveCorrected(s)

Next == Environment \/ Preparation \/ Submission \/ Correction

Spec == Init /\ [][Next]_vars

-----------------------------------------------------------------------------
\* Properties

\* What is public was checked, in a run that is complete, with the very body it
\* shows (information_ready between staging, T1 and approval).
PublicWasChecked == \A e \in Entities : published[e] # None =>
    /\ published[e].check.target = published[e].body
    /\ ~published[e].check.open

\* Nobody approves a display part of which is their own correction
\* (_require_correction_independence over both boards and across crashes).
IndependentApproval == \A r \in reviews : r.pass => r.by \notin r.cand.authors

\* An item the source board calls passed has a pass in the Registry
\* (review_acquisition turns a refused approval into needs_correction).
ItemPassIsPublic == \A e \in Entities : items[e] # None /\ items[e].pass =>
    \E r \in reviews : r.cand = items[e].cand /\ r.pass

\* The reviews in state.json are of candidates its packet offers
\* (queue_acquisition_review and correct_candidate drop the others).
ReviewsOfPacket == \A e \in Entities : items[e] # None =>
    items[e].cand \in Offered(packet["source"])

\* A session in the midst of a submission owns the board for the packet it
\* submits: nobody else has claimed it meanwhile (claim_review, validate_claim).
SubmitterOwns == \A s \in Sessions :
    /\ op[s].at \in {"commit", "release"} =>
           claim["final"] = [by |-> s, packet |-> op[s].packet, open |-> TRUE]
    /\ op[s].at \in {"item", "state", "unlock"} =>
           claim["source"] = [by |-> s, packet |-> packet["source"], open |-> TRUE]

\* A candidate that either board found wanting is never published later
\* (require_no_disputes reads the Registry's reviews and the receipts).
NegativeIsFinal == [][\A e \in Entities :
    published'[e] # published[e] => ~Negative(published'[e])]_vars

\* Nothing is published over an open dispute or one about an earlier state of it
\* (require_no_disputes within the approving transaction).
DisputeHolds == [][\A e \in Entities :
    published'[e] # published[e] => ~Disputed(published'[e])]_vars

\* The public never sees an earlier body, correction or check again (_approve
\* publishes the latest candidate only).
Since(new, old) == new.body >= old.body /\ new.fixes >= old.fixes /\ new.check.runs >= old.check.runs
PublicNeverGoesBack == [][\A e \in Entities :
    published[e] # None => published'[e] # None /\ Since(published'[e], published[e])]_vars
=============================================================================
