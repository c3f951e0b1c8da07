# Verification of the Climate Monitor wiki

TLA+ models of the parts of the Climate Monitor repository that decide what
becomes public, what a report holds, who may approve it and what is mailed, the
TLC configurations that check them, and machine-checked proofs of the
properties that matter most. Paths below are those of the repository.

To check a model: `tlc -workers 2 -config MCReportReview.cfg MCReportReview`.
To check proofs: `tlapm ReportReviewProofs.tla`. PROJECT.json lists every run,
the source lines each definition stands for, the hazards, and for every checked
property a mutation of the code that violates it.

## 1. The system

A monitor collects articles, PDFs and meetings about climate risk in
insurance, keeps them in a SQLite Registry, has independent agent sessions
check and review each of them, publishes what was approved to a website and a
chat, freezes a biweekly report from the public knowledge, has its PDF reviewed
by another agent session and mails it. The processes are cron jobs (T1 to T11)
and native agent sessions ("Hermes" cron sessions); they share the Registry and
directories of JSON files, each replaced atomically, under file locks of two kinds:

- `transaction_lock` (`climate_delivery/io.py`) is a `flock`: the kernel drops
  it when its process dies. A process that finds it taken fails at once.
- `exclusive_lock` creates a lock file with `O_EXCL`: a killed process leaves
  it behind and an operator removes it.

| Component | State | Operations | Interacts with |
|---|---|---|---|
| Collection (`climate_registry/acquisition.py`, `scripts/run_agent_acquisition.py`, `capture.py`) | batches, content versions, run directories | collect, reconcile, freeze for a report | request budget, source board |
| Request budget (`climate_monitor/request_budget.py`) | one ledger file per task | claim before dispatch, complete, candidate stages | collection agents |
| Rotation (`acquisition_review.py`) | `rotation.json` | reserve the next sources for an occurrence | collection |
| T1 checks (`climate_registry/information_checks.py`, `verification.py`, `scripts/check_information.py`) | check runs and checks in the Registry, a result file | start, resume, retry, finish a run | staging, final board |
| Staging and approval (`climate_registry/publication.py`) | `registry_candidates`, `registry_publication`, `registry_reviews` | stage, approve, prepare and submit the final board | both boards, reports, chat |
| Boards (`acquisition_review.py`, `publication.py`) | `packet.json`, `claim.json`, `state.json`, receipts | prepare, claim, submit, correct | staging, disputes |
| Disputes (`climate_registry/item_lifecycle.py`) | disputes and decisions, board receipts | hold, import a decision, require no disputes | approval |
| Report selection (`climate_delivery/report_review.py`) | `knowledge_versions`, `snapshot.json`, `state.json` | record knowledge, freeze an occurrence | Registry, report review |
| Report review (`climate_delivery/report_review.py`, `pipeline.py`) | revisions, claims, reviews, archive, approval | render, claim, submit, regenerate, send | reviewers, delivery |
| Mail delivery (`climate_delivery/delivery.py`) | one state file and one lock file per report digest | deliver | SMTP |
| Activation (`climate_registry/pdf_pipeline.py`, `web_ingest_pipeline.py`, `api_server.py`) | batch status, `pending.json`, `active.json`, `public-refresh.json` | import, build a generation, reload chat | intake, chat, T1 |
| Seen URLs and report commit (`climate_monitor/orchestrator.py`, `semantic_bundle.py`, `seen_state.py`) | four files of a report, their `.pending` siblings and manifest, pending delta, seen URLs | stage, replace, recover, discard, accept | candidate aggregation |
| Publisher (`scripts/publish_weekly_reports.py`, T11) | candidate ref, rolling branch, pull request, `public-snapshot.json` | publish a public snapshot, skip, record | Registry's public revision, git, people who merge |
| Run ledger (`climate_monitor/run_ledger.py`, `ledger_repair.py`) | attempts and their identities | append, repair | publisher of legacy reports |
| Management (`climate_monitor/management.py`) and host bridge (`host_exec.py`) | task versions, run directories, invocation ledger | start, attach, resume; submit, read back, cancel | acquisition runs |
| Weekly build (`climate_registry/weekly.py`, `persistent.py`) | the database file | validate, replace, back up | everything in the Registry |
| Meetings, range reports, read API and chat, rendering, schedulers' status, Hermes runtime identity | mostly derived files | see PROJECT.json | |

### What is hard, and what makes each part correct

- **Mail delivery.** The provider's answer may be lost; a process may die
  between persisting `sending` and learning the outcome; two senders may
  overlap; artifacts may be rendered again between a partial delivery and its
  retry. Correct: nobody is mailed twice, all get one payload, the state file
  says what happened, doubt stops everything, and otherwise retries end.
- **Report review.** `review.json`, `claim.json`, `archive.json` and `state.json`
  are separate writes; reviewers vanish, are late, and correct what others
  review. Correct: an approval is backed by every file, a session does not
  approve its own correction, nothing numbered is overwritten, mail is aged and
  approved, no pending review is orphaned.
- **Report selection.** Knowledge is approved late, reports may be frozen late
  and out of order, a freeze may die half-way. Correct: nothing in two reports,
  nothing due left out, unchanged text is no news.
- **Staging and the boards.** Two boards, T1, collection, corrections, owners'
  disputes and crashes interleave, each board's files trailing the Registry's
  transactions. Correct: what is public was checked and is the latest, no author
  passes their own text, no rejected or disputed candidate is published, a
  submission is by the owner of the packet it submits.
- **Activation.** Chat and writer switch generations through files and an HTTP
  call whose answer may be lost; a request that was given up on may still be
  running. Correct: chat answers from the generation `active.json` names, an
  article never goes back to an older version, what is recorded as ready is in
  chat, the current revision arrives there, no batch is left half-way.
- **Request budget.** Sessions of several attempts stage candidates of the same
  URL through one ledger, claim before they dispatch, and outlive their
  coordinator. Correct: no limit exceeded, nothing read twice that is held, no
  decision weakened by a late answer.
- **Report commit.** Four files, a manifest, a delta and the list of URLs cannot
  be replaced at once. Correct: a report is published whole, an article is in the
  report of one day, and no leftover blocks later runs.
- **Publisher.** git answers may be lost, main moves while a commit is promoted,
  and scheduled runs trust a receipt. Correct: a run that skips had nothing to do,
  no candidate or superseded tree stays behind, the public revision is offered.
- **Run ledger, host bridge.** Two-phase writes around a crash. Correct: no
  attempt half recorded for good, no invocation run twice.

## 2. The models

Every process is a value of a constant set; its program counter and local
variables are functions of it, and a JSON file is a variable holding a record.
An atomic step is one atomic write or one transaction of the Registry. Where a
whole operation holds a flock that excludes everything which could see it
half-done, its reads are part of the step that takes the lock. `Crash` makes a
process forget what it held in memory, at any step; flocks go, lock files stay.

### MailPromise, MailDelivery

`MailPromise` is the abstract specification: recipients are accepted once, in
order, with one payload, until the delivery is closed. `MailDelivery` is
`deliver()`: `Acquire` (the lock file), `Load` (`_read_state` with its
refusals and the ambiguity check, or the initial state), `StartRecipient`
(persist `sending`), `SmtpSend` (accepted, refused, or lost with or without
acceptance), `Record` (persist the outcome, where the write itself may fail
before or after the file is replaced), `Finish`, `Unlock`, `Crash` and, external
to the code, `ClearStaleLock` of the operator. `inbox` is what the provider
really accepted, which the code cannot see. The refinement maps `closed` to
"the file on disk is ambiguous and nobody is in flight".

### ReportReview

One report after its freeze. The operations all run under one flock, so `op` is
the one in progress and its step: `Mkdir`, `Render`, `CommitRevision`
(`_new_revision`); `ClaimReport` (`claim_report`, `claim_review`); `Submit`,
`Release`, `Archive`, `Decide` (`submit_review`); `Regenerate`; `BeginSend`,
`Mail`, `EndSend` (`send_report`, which calls `deliver`: at this level `Mail`
may happen more than once or not at all; how often, MailDelivery tells).
`Wake`, `End` and `Lose` are the native session's life, which the code reads
from the agent's session database. `editor` remembers who edited
`report-source.json`; the code keeps no such field, which is the point of the
run `report_editor`.

### ReportSelection

The ledger `knowledge_versions` in row order, what was public at the last
approval, and the snapshots. `Collect`, `Check`, `Import` and `Verify` are the
four callers of `record_knowledge`, distinguished by the reference and the shape
of fields they write; `NextVersion` is its dating rule. `BeginFreeze` reads the
public Registry, `ReadAppeared` the snapshots on disk, `WriteSnapshot`,
`WriteState` and `NewRevision` write. A report's day is a multiple of
`PeriodLength`.

### RegistryReview

One acquisition run's articles from collection to the public. `Collect`,
`StartRun`/`FinishRun` (T1), `Hold` and `ImportDecision` (owner) change the live
Registry; `Staged` is what `stage_snapshot` makes of it. `Prepare` and
`WritePacket` prepare the final board, outside its lock when T1 or an intake
asks; `BeginClaimSource`, `Refresh` and `Queue` prepare the source board;
`ClaimFinal` and `ClaimSource` take a claim; `BeginFinal`, `CommitFinal`,
`ReleaseFinal` submit the final board in one transaction; `BeginSource`,
`SubmitItem`, `WriteReceipt`, `SaveState`, `ReleaseSource` submit the source
board item by item; `Correct`, `CloseCorrected`, `SaveCorrected` are
`correct_candidate`; `Refuse` and `Raise` are the errors. A candidate is told
apart by its body, corrections, check and authors.

Abstractions to know of: the final board's `packet.json` is taken to exist before
a claim; `Queue`'s file is written with its transaction, as nobody who could tell
reads it without the lock; `Negative` asks for some negative review where the
code asks for the last one, which agrees because a candidate that stops being
the latest does not return; a session does not end while its command runs; claim
deadlines are left to ReportReview, whose claims are the same function's. The
native tool-event evidence a submission must show is not modelled.

### GenerationActivation

The intake writer and the reload handler of the API process, with the Registry's
approvals as the environment. The writer (`pc`, `job`) is one process that takes
the oldest PDF or web batch or refreshes the public revision: import, build a
generation, name it in `pending.json`, call the API, verify, write status and
`public-refresh.json`. `thread` are requests under way in the API process:
`_RELOAD_LOCK`, the two comparisons with `pending.json`, loading, the switch of the
knowledge base, the commit of `active.json`, the roll-back of the memory when
the commit fails. A request outlives a writer that gave up on it (`LoseAnswer`),
either process may die, an operator may retry. Left out:
databases of an older schema (where a generation is the union of PDF and web
items), and the content of the wiki pages.

### RequestBudget

The ledger of one run. A coordinator opens and finishes attempts or dies;
sessions belong to the attempt they were launched in and go on after its end.
`RegisterSite` and `Found` register rows, `Open`, `Begin`, `BeginReused` and
`BeginRefused` are `begin_candidate_stage`, `Size` reads the usage and `Claim`
claims what was sized by it, `Answered` is the end of a request, `Complete` and `Fail` settle a stage,
`Finalize` adds the agent's words. Each is one critical section of the ledger's
file lock; a tool call is several of them. `sent` is what really went out.
Left out: search claims and search limits, systemic read failures and the
assembly of the batch from the receipts.

### ReportCommit

A weekly run from recovery to the accepted delta, one file operation per step.
`RecoverDay` chooses the day (the one of a leftover delta, or today),
`RecoverManifest` and `RecoverPair` are the two recovery protocols of
`semantic_bundle.py`, `Drop` and `Apply` their file operations; `Committed` and
`Abandoned` are the verification of a leftover delta, `AcceptDelta` and
`DiscardDelta` its two ends. `Prepare` chooses what the report holds and writes the
delta; `WriteManifest`, `Stage`, `Replace`, `RemoveManifest` are
`commit_report_with_semantics`. Its own call of `recover_pending_commit` does
nothing there, because nothing is staged when it is made (part of `RunInv`, so
proved). `write_empty_report` is false in `monitoring/run_config.yaml`, so reports
are not empty. A crash may tear the file that is being written. `cuts` counts
crashes inside a discard, for the reason given in section 3.

### SnapshotPublisher

A run of T11 command by command: `CheckStale`, `Freeze`, `Clone`, `Look`,
`RecheckMain`, `RecheckBranch` are `publish` and `_publish_attempt`; `PushCandidate`
to `DeleteCandidate` are `_promote_via_candidate` with `_rollback_rolling`; `Delete`
and `Deleted` remove an obsolete branch; `EnsurePr` and `Record` end the run.
Every push has a lease (`Leased`, `Refused`), and every command may fail
with or without its effect (`Lost`, `CommandFails`). `Again` is the loop over
`MAX_BASE_ATTEMPTS`. People merge the pull request or others at any time,
and the public revision changes at any time, also back to an earlier one. A
commit is told apart by the main it is based on and the revision it shows; two
have one tree when main's other files and the revision are the same. That
deleting a branch closes its pull request is GitHub's. Left out: the legacy mode
that imports reports, the path allowlist, and two runs at once: T11 takes no lock
around `publish`, so a manual run beside a scheduled one is outside the model.

### How they compose

RequestBudget's finalized candidates are what RegistryReview's `Collect` brings
in. RegistryReview's approvals are the `Approve` of ReportSelection, of
GenerationActivation and of SnapshotPublisher: the report, chat and the public
wiki are three readers of one public revision. ReportSelection's `NewRevision` is
ReportReview's initial state; ReportReview's `Mail` is a call of MailDelivery for
the digest of the approved revision, which therefore has one payload unless
artifacts change under it. The modules share no variables:
what they share in the code is a Registry row, a snapshot or a PDF that is
immutable once handed over, and that immutability is what they establish
(`PublicNeverGoesBack`, `FrozenStays`, `RevisionsAreImmutable`, `ApprovalIsFinal`).
The public revision is the exception, as `set_visibility` may take it back to an
earlier value; both of its readers are checked against that.

## 3. The runs

| Run | Question | Bounds |
|---|---|---|
| `mail` | Do two overlapping senders keep the promise and settle? | 2 senders, 3 recipients, 2 payloads, 2 crashes, 2 failures |
| `report` | Are approvals backed by their files, is mail approved, is nothing numbered rewritten, is a pending review owned again? | 2 sessions, 3 revisions, clock 3, delay 2, timeout 2, 1 crash, 1 lost session |
| `report_editor` (violated) | May an editor approve their edit? | 2 sessions, 3 revisions, no crash |
| `selection` | Is everything due reported exactly once? | a website and a PDF article, 2 places, 2 texts, 2 report days, 3 versions, 1 crash |
| `selection_unchanged` (violated) | Is an unchanged body reported again? | 1 website article, 3 report days |
| `registry_review` | Two boards, corrections, a new body and T1 on one article | 1 article, 2 bodies, 2 sessions, 1 T1 run, 1 correction, 1 crash |
| `registry_pair` | A board of two articles is submitted in part, beside T1 and an owner | 2 articles, 1 session, 1 preparer, 1 T1 run, 1 dispute |
| `activation` | Does chat follow the Registry, through lost answers and deaths? | 1 PDF batch of two articles, 1 web job, 2 request threads, 2 versions, 2 edits, 1 mishap, 1 retry |
| `budget` | Do limits, decisions and bodies survive attempts that overlap? | 2 sessions, 2 rows, 2 articles, 2 days, 2 attempts, 1 fetch, 1 tick |
| `budget_alias` (violated) | Does a reused receipt keep its target's evidence? | 1 session, 3 rows of 1 article, 2 stages each |
| `report_commit` | Is a report published whole and an article reported once, wherever runs die? | 2 days, 2 articles, 2 wordings, 2 crashes, 1 inside a discard |
| `publisher` | Is the public revision offered, and is a skipped run right? | 2 revisions, 2 changes of it, 2 merges, 2 attempts, 2 failed commands, 1 crash |

Why these are enough to be of use: three recipients give one before, one at and
one after an ambiguous outcome. Three revisions allow a failed, an edited and a
final one, two sessions a vanished reviewer and another. The delay
of two ticks makes "too early" and "on time" differ by more than one step. Two
report days and a clock of five allow a freeze that is late and out of order; three
versions a text, another and the first again. One article suffices for the
boards' rules about a single item, two for a submission that stops half-way. Two
bodies and one correction make three candidates, each able to be on either board.
Two request threads are the request the writer gave up on and the one it made
after it. Two rows are one that overtakes another or, of two articles, one that
competes with it for the budget; the third row of `budget_alias` is the one
that supersedes. Two days make a report that leaves a delta and one that finds it;
two crashes a death and a death in its recovery. Two failed commands are a push
whose answer was lost and a roll-back that fails; two merges let main move
in both attempts, after which the run gives up (the code has three attempts; the
second is the first that is neither the first nor without a successor).
The bounds cap counters only (`MaxClock`, `MaxVersions`, `MaxVersion`,
`MaxRevision`, `MaxBody`, `MaxRuns`, `MaxFixes`, `MaxDisputes`, `MaxCrashes`,
`MaxCuts`, `MaxFailures`, `MaxLost`, `MaxEdits`, `MaxMishaps`, `MaxRetries`,
`MaxApprovals`, `MaxAttempts`, `MaxStages`, `LastDay`); the theorems of
section 5 hold for every value of them.

Sessions, articles, rows and texts are interchangeable and declared symmetric where
a run checks no liveness. `CHECK_DEADLOCK FALSE` stands in the report, selection,
registry and budget runs, where the models stop when every session or attempt has
ended and the clock and the other counters are at their bounds; `mail`,
`activation`, `report_commit` and `publisher` are checked for deadlock.

### What the violated runs show

- `report_editor`: `regenerate_report` takes the context to exclude from the
  current revision's `review.json`. When the rendering of a correction fails,
  that revision has none, and the session that wrote the correction may approve
  it once the report is regenerated.
- `selection_unchanged`: a T1 check writes a row of another shape than a
  collection does, so the next collection of the same body looks like a change
  and is reported again.
- `budget_alias`: a receipt reuses a staged one, a third supersedes that, and
  `begin_candidate_stage` lets the superseded handle be staged again. Its new
  evidence is not what the reusing receipt holds, and the assembly of the whole
  batch is refused (`_reused_candidate_alias_item`).

### What else the models show

These are consequences of the code that a property states as its limit, or that
the models reach without breaking one.

- ReportSelection: a freeze that died after `snapshot.json` takes its own
  snapshot, on retry, for information that has already appeared, and overwrites it
  with what is left, commonly nothing; `FrozenStays` holds until the first crash.
  Two occurrences frozen at once hold the same information, since the lock is of
  one occurrence and what has appeared is read from all: `NoRepetition` assumes
  one freezer. A freeze that died after `state.json` and before its first
  revision is final.
- RegistryReview: a packet prepared before a claim may replace the claimed one
  after it. The owner's submission is then refused (its claim is not of
  that packet), so nothing is published wrongly: `SubmitterOwns` holds.
- GenerationActivation: `_process_unlocked` reads the public revision before the
  pending entities (`climate_registry/pdf_pipeline.py:659-662`). An article approved
  in between counts as approved for its batch, and when the refresh then fails, the
  batch is recorded `chat_ready` although the generation that holds this article is
  still to be built. What `ReceiptHolds` says of a PDF batch is therefore what the
  code knows: Chat serves the revision the batch was judged by. `ChatCatchesUp` has
  the article in Chat in the end.
- RequestBudget: a site handle superseded by another of the same URL is
  later reported as "controlled site candidate was not staged", which is not
  what happened.
- ReportCommit: `_discard` removes the manifest before the staged files. A run that
  dies in between leaves files that the next recovery takes for the older two-file
  protocol: it publishes report and sidecar without their candidates, and later
  runs of that day raise `SeenStateError`. The comment at
  `climate_monitor/semantic_bundle.py:555` and
  `test_staging_interruption_never_publishes_only_part_of_a_multi_artifact_bundle`
  (`tests/test_climate_monitor_semantic_bundle.py:940`) say it does not happen (`NeverPartial`);
  `WholeBundle` and `Resolves` hold while no run dies there (`cuts = 0`), and
  `ReportedOnce` holds all the same.
- SnapshotPublisher: a run that dies after it moved the rolling branch writes no
  receipt. When the public revision then returns to the last one recorded,
  scheduled runs skip for ever while the pull request offers the other, although
  failed attempts are to remain retryable (`PIPELINE_CONFIG.md:469`). A manual run
  repairs it. `SkipIsSafe` and `Converges` hold for runs that end with a
  receipt, failed ones included (`unrecorded = 0`).

## 4. Fairness

- `MailDelivery!FairSpec`: a running call takes its next step (the processor
  schedules it and SMTP has a timeout), and calls for each payload come back
  until the lock is free: the sender runs every fifteen minutes
  (`climate_monitor/schedule.py`) and an attempt that found the lock only ended
  itself, so this is strong fairness of `Acquire` for some sender. Crashes are
  not fair and a lock file left by one is an outcome (`StaleLock`): removal is
  the operator's.
- `ReportReview!FairSpec`: an operation that began proceeds, cron wakes
  sessions every fifteen minutes, a session that was woken claims what is free and
  ends when it has nothing left to do. Nothing is assumed of `Submit`,
  `Regenerate`, time or `Lose`. A session that vanishes without an end record
  keeps its claim for ever by the code's design, so `NotOrphaned` promises a
  new owner while cron has more sessions to wake than may still vanish.
- `GenerationActivation!Spec`: the writer's loop polls for ever (weak
  fairness of `WriterStep`), a request thread runs to its answer, and the sixty
  seconds a failed refresh waits pass (`CoolDown`). Nothing is assumed of
  approvals, operators, lost answers or deaths.
- `ReportCommit!FairSpec`: the scheduler keeps starting runs (`Start`) and a run
  goes on (`Proceed`). What a run publishes, and whether it publishes anything,
  is not assumed.
- `SnapshotPublisher!FairSpec`: T11 starts every hour (`StartScheduled`) and a run
  goes on (`Proceed`: git has a timeout or ends). Nobody is assumed to merge.

ReportSelection, RegistryReview and RequestBudget make no liveness claim:
what they wait for is a person or a language model.

## 5. Proofs

All theorems are of the specifications TLC checks, for arbitrary constants under
the named assumptions of each module (bounds are naturals, periods and delays
positive, null values differ from real ones). No fact is assumed beyond these
and the library's theorems. A theorem whose property no run checks has been
dropped from the runs because it follows from the theorem or from another checked
property.

**MailDeliveryProofs.** `IInv` is `TypeOK` with `Exclusion` (who is not idle is
alone and the lock file exists), `DiskInv` (what the state file says, also of a
delivery in flight or abandoned in it) and `SenderInv` (what a sender at each
step knows of disk and inbox). The properties speak of the disk and the inbox,
and the sender's memory is what connects them across `SmtpSend`. Proved:
`TypeCorrect`, `SingleOwner`, `NoDuplicateMail`, `SamePayload`, `TruthfulState`,
`FailingClosed` and `Refinement` (deliver implements MailPromise: every step is
a step of it or a stutter).

**ReportReviewProofs.** `IInv` is `TypeOK`, `Numbering` (which revision
directories exist, and that the next operation cannot reuse one), `ClaimsSound`
(a released claim has its owner's review and a claimed directory its packet),
`StateInv` (what an approval, a pending state or a sent report implies of the
files) and `OpInv` (what the operation in progress has written so far). Proved:
`TypeCorrect`, `BackedApproval`, `IndependentApproval`, `ClosedAfterReview`,
`ApprovedMail`, `ImmutableRevisions`, `FinalApproval`, `AgedMail`, `NoTakeover`.

**ReportSelectionProofs.** `IInv` is `TypeOK`, `OneHolder` (one freezer per
occurrence), `Fresh` (no occurrence a freeze is to write has been decided) and
`UnderWay` (what a freeze has read is still so); `Disjoint` joins it for
`NoRepetition` only. Proved: `TypeCorrect`; `NothingLeftOut`, for
any number of freezers; `FrozenForGood`, until the first freeze dies; and
`NoRepetition`, under the assumption of one freezer at a time (section 3 tells why
both limits are needed).

`History` is the invariant of what the ledger tells of an article: `Past` (no version
is dated in the future), `Chronicle` (versions are dated in the order they were
written, those of one date say the same, and between two dates that say the same lies
a version that said another, `Follows`), `Mentions` (PDF articles are known by
mentions only) and `Sourced` (what is chosen or frozen is a version of the ledger).
`record_knowledge` compares a new version with the last one only; `Chronicle` is what
that comparison amounts to over all of them, and an appended version keeps it because it
either repeats the last one's date and material or is dated now. Proved from
it: `ReportedAgainOnlyWhenOther`, that nothing (article, website or PDF) is
reported again with a later date unless it was different in between, and `PdfNews`,
that of PDF articles the text was. For core articles the text need
not have changed, which is the violated `CoreReportedAnew`.

**RegistryReviewProofs.** `IInv` is `TypeOK`, `Indexed` (the latest candidate of
an entity is of that entity), `IndependentApproval`, `Ordered` (neither the
latest nor any published candidate is ahead of the live Registry or goes back)
and `Board`: `Working` (whoever is in the midst of a call has a live session), `OneSubmitter`,
`Judged` (verdicts are about offered candidates) and `SubmitterOwns`. That a
submitter owns its packet needs all of `Board`, as no lock spans the final
submission: what protects it is that nobody may claim from a live owner and that
the owner is busy. Proved: `TypeCorrect`, `Independence`, `SubmissionsOwn`,
`NegativeStays`, `DisputesHold`, `NoWayBack`.

On top of that `IInv`, `ItemsInv` adds that a packet
lists an article once (`OneEach`, also of the packet a correction is about to
write, `Correcting`), that an item review is of a candidate offered for its own
article (`ItemsFit`), and that what a submission under way has passed so far has
its pass in the Registry (`PassedSoFar`). The last is what carries
`ItemPassIsPublic` from the transactions of the single items to the write of
state.json after all of them. Proved: `PublicChecked`, `ReviewsFit`,
`PassedIsPublic`.

**GenerationActivationProofs.** `TypeInv` is `TypeOK` with `LocalsKnown` and
`RequestsKnown` (which of its local variables the writer has set at a step, and
that a request names a generation). `ChatInv` is `LockHeld` (who is past
`_RELOAD_LOCK` holds it), `Agreement` (memory and `active.json` agree, or the
thread between its switch and its commit knows how they differ) and `Order`
(what is active was public, and what a request has checked against the Registry
is no older than it and no newer than the Registry). Proved: `TypeCorrect`, `MemoryAndDiskAgree`, `NeverAnOlderVersion`.

`Records` is about what is recorded of an activation: `OneOfEach` (all generations that
the pointer files, the receipt, the writer and the requests name differ by id),
`Confirmed` (an answer counts only behind a reload, and all articles of a web job were
public when its generation was built) and `ReceiptNames`. The
writer takes for an activation that `active.json` has the id it asked for, also after a
lost answer; `OneOfEach` makes that the generation it built. A PDF batch is
recorded ready by the revision its processing began with (`RevRead`), which the
receipt or the confirmed generation has put in Chat; `Order` keeps
anything older from replacing it. Proved: `RecordedIsServed` and `IdsIdentify`.

**RequestBudgetProofs.** `LedgerInv` is `TypeInv` (`TypeOK`, `CallsKnown`,
`LaunchedPast`, `ReceiptsKnown`), `OneLive`, `OneReader`, `ReservationHolds` (a
call that has yet to claim has its reservation, unless a later attempt began) and
`StillUnread` (what it found unread is so while its attempt is active). The last two
carry a check made before a read to the claim made after it. Proved:
`TypeCorrect`, `OneLiveCandidate`, `OneStage`, `DecisionsStay`, `AnnotationsStay`,
`NothingIsResent`.

`Provenance` is about what candidates carry: a body in a receipt was read for the
receipt's own URL and source, and an alias names a row of the same article and date.
Evidence moves from receipt to receipt and is held by calls that outlive their
reservation (`Carries`); it stays true since a row never changes its article and
reads are never taken back (`BackedHolds`). Proved: `BodiesWereRead`. That an alias
has the evidence its target has *now* is more, and false: `AliasHolds` (section 3).

`Budgeted` is for the budget. What is spent is a sum over the reads in flight,
and instead of that sum the invariant gives each of them an interval of the units
between `sent` and `spent` that no other overlaps (`Shares`). A claim takes the interval
behind all others (`ShareTaken`), and a measured read gives back what it did not use
while the others close the gap (`ShareReturned`); a read that dies leaves its interval
spent. Proved: `StaysWithinBudget`.

`Timed` is for the runtime: only the last attempt may be without an end, and its
deadline is what the attempts before it left. The sum over the
attempts is a recursive function; that it exists and is unique is proved by a least
counterexample (`SumsExist`, `SumsAgree`, from the library's theorem that `<` on the
naturals is well founded), from which follow the two facts needed: a new attempt adds
what it took (`RuntimeAppended`), and runs that differ in the last attempt differ by
it (`LastDiffers`). Proved: `StaysWithinRuntime`.

**ReportCommitProofs.** `Inv` is `TypeOK`, `StagedForDelta` (whatever is staged
belongs to the pending delta), `StepInv` (per step of a run, which files are already
what), `FutureInv` (nothing exists of days to come), `Accounted` (what is reported
is on the list of URLs or in the pending delta) and `Apart` (what earlier days
reported is no candidate later). `ReportedOnce` needs all of them: the
list is read when a report is prepared, and only `Accounted` says that it is
complete then. `WholeInv` adds, while no run died inside a discard, which mixtures of
old and new files each step may leave. Proved: `TypeCorrect`,
`ReportedOnceAlways`, `NothingUnaccounted`, `WholeBundles`.

**SnapshotPublisherProofs.** `TypeInv` is `TypeOK` with the fact that a run that
builds a commit knows its revision. `RunInv` is what a run knows of the remote at
each step, whatever people merge meanwhile (a branch it found absent stays absent;
one it moved shows its revision while it exists). From it follows `RecordInv`: what
is about to be written as a success, and what the receipt says was one, is offered,
as merges only carry to main what the branch showed (`OfferedStays`).
`ResidueInv` says where the candidate and the branch are while nothing failed.
Proved: `TypeCorrect`, `SkipsAreSafe`, `LeavesNoResidue`.

Only model-checked: `Settles`, `NotOrphaned`, `ChatCatchesUp`, `BatchesSettle`,
`Resolves` and `Converges` (liveness under fairness is beyond the prover, as is
ENABLED), and the violated properties. Every invariant and every action property of
a passing run is a theorem. No module declares a RECURSIVE operator.

## 6. What is not modelled

PROJECT.json lists every component with its reason. In short: fetching, the
language models, SMTP, git and the agent runtime are external and appear as
choices; formatting, parsing, scoring, taxonomies and page rendering are data
without state of their own; digests are taken to be injective (two files have the
same digest only if they are equal), and JSON files to be replaced atomically.
A session that dies without an end record blocks its board until an operator
acts; the code says that elapsed time alone never releases a claim, so
no liveness is claimed there.

Of modelled components: the PDF and web union of older schemas
(GenerationActivation), search claims and systemic read failures (RequestBudget),
the legacy report mode, the allowlist and overlapping runs (SnapshotPublisher), owner and
identity scopes, dates and visibility in reviews (RegistryReview), meetings and
calendar rows (ReportSelection).

## 7. Plan

Done, in order of importance: MailPromise and MailDelivery, ReportReview,
ReportSelection, RegistryReview, GenerationActivation, RequestBudget,
ReportCommit and SnapshotPublisher, each with its proofs.

What is left, one module each, with the property each is for:

1. **CheckRuns**: frozen input, resume, retry and result file of T1; a run that
   dies after its checks are committed is resumed, not repeated or skipped.
   Composes with RegistryReview's `StartRun` and `FinishRun`.
2. **RunLedger** and **HostExec**: append-once under crashes, answers only
   after a persisted record; refinement to a write-once register.
3. **Rotation**: every configured source is visited again within a bounded number
   of occurrences, also when the inventory changes.
4. **ManagedRuns**: at most one live run per seen state.
5. **AcquisitionBatch**: store, reconcile and freeze of a batch.
