------------------------ MODULE GenerationActivation ------------------------
(***************************************************************************)
(* How an approved Registry reaches Chat.  The intake writer               *)
(* (climate_registry/pdf_pipeline.py, web_ingest_pipeline.py) polls PDF and *)
(* web batches and the public revision, freezes a generation, names it in  *)
(* pending.json and asks the Chat process to reload it; the reload handler *)
(* of api_server.py checks it twice, switches its knowledge base and       *)
(* commits active.json.  Meanwhile reviewers approve, supplement and hide  *)
(* articles, answers get lost, and either process may die.  Registries of  *)
(* schema 21 and later are modelled: a generation renders the whole public *)
(* revision of its frozen snapshot.                                        *)
(***************************************************************************)
EXTENDS Naturals, FiniteSets

CONSTANTS
    Pdfs, Webs,         \* PDF batches and web activation jobs of the queue
    ArticlesOf,         \* the articles of each batch
    Created,            \* created_at of each batch: the older one goes first
    ApprovedFirst,      \* web articles approved before the queue is looked at
    Threads,            \* request threads of the Chat process
    None,               \* no generation, no revision, no thread, no batch
    MaxVersion,         \* bound on candidate versions of an article
    MaxEdits,           \* bound on approvals, supplements and visibility changes
    MaxMishaps,         \* bound on lost answers, timeouts, failed steps and process deaths
    MaxRetries          \* bound on operator retries

Batches == Pdfs \cup Webs
Articles == UNION {ArticlesOf[b] : b \in Batches}
PdfArticles == UNION {ArticlesOf[b] : b \in Pdfs}

ASSUME BatchesAssumption == /\ Pdfs \cap Webs = {}
                            /\ None \notin Threads \cup Batches
                            /\ ApprovedFirst \subseteq Articles \ PdfArticles
                            /\ Created \in [Batches -> Nat]
                            /\ \A b, c \in Batches : Created[b] = Created[c] => b = c
ASSUME BoundsAssumption == /\ MaxVersion \in Nat \ {0} /\ MaxEdits \in Nat
                           /\ MaxMishaps \in Nat /\ MaxRetries \in Nat

VARIABLES
    registry,   \* per article: newest candidate, published candidate, visibility
    pdf,        \* status.json of the PDF batches
    web,        \* status.json and retry.json of the web jobs
    receipt,    \* public-refresh.json
    pending,    \* the generation named in pending.json, or None
    active,     \* the generation named in active.json, or None
    kb,         \* the generation the Chat process answers from, or None
    lock,       \* _RELOAD_LOCK: the thread that holds it, or None
    thread,     \* the reload requests being handled
    pc, job,    \* the intake writer: where it is, and its local variables
    built,      \* generations built so far: the next generation id
    edits, mishaps, retries

chatVars == <<kb, lock, thread>>
writerVars == <<pc, job, built>>
bounds == <<edits, mishaps, retries>>
vars == <<registry, pdf, web, receipt, pending, active, chatVars, writerVars, bounds>>

Mishap == mishaps < MaxMishaps /\ mishaps' = mishaps + 1

(* ------------------------- the Registry ------------------------------- *)

\* registry_publication rows: an article has a public version once one is approved.
Published(reg, a) == reg[a].published > 0
Unpublished == [version |-> 0, visible |-> TRUE]
Revision(reg) == [a \in Articles |->
    IF Published(reg, a) THEN [version |-> reg[a].published, visible |-> reg[a].visible]
    ELSE Unpublished]

EmptyRevision == [a \in Articles |-> Unpublished]
\* The version of an article in a generation, 0 when it has none.
VersionIn(gen, a) == IF gen = None THEN 0 ELSE gen.rev[a].version
ShownIn(rev) == {a \in Articles : rev[a].version > 0 /\ rev[a].visible}
\* _pending_pdf_entities; the web pipeline's test of its items is the same query.
Pending(reg, b) == {a \in ArticlesOf[b] : ~Published(reg, a) \/ reg[a].published # reg[a].latest}

IdOf(gen) == IF gen = None THEN 0 ELSE gen.id
RevOf(gen) == IF gen = None THEN None ELSE gen.rev

PdfStages == {"queued", "processing", "imported", "pending_review", "chat_ready", "failed"}
WebStages == {"queued", "processing", "indexed", "activating", "pending_review", "chat_ready", "failed"}
Resumable == {"queued", "processing", "imported", "indexed", "activating"}

NoJob == [batch |-> None, rev |-> None, pend |-> {}, retry |-> FALSE,
          seen |-> None, gen |-> None, call |-> None, answer |-> None, ok |-> FALSE]

NoRequest == [at |-> "idle", gen |-> 0, meta |-> None, before |-> None]

Init ==
    /\ registry = [a \in Articles |->
          [latest |-> IF a \in PdfArticles THEN 0 ELSE 1,
           published |-> IF a \in ApprovedFirst THEN 1 ELSE 0, visible |-> TRUE]]
    /\ pdf = [b \in Pdfs |-> [stage |-> "queued", imported |-> FALSE, ready |-> FALSE,
                              target |-> None, synced |-> None]]
    /\ web = [b \in Webs |-> [stage |-> "queued", ready |-> FALSE, retry |-> FALSE]]
    /\ receipt = [ready |-> FALSE, rev |-> None, prepared |-> None, cooling |-> FALSE]
    /\ pending = None /\ active = None /\ kb = None
    /\ lock = None /\ thread = [t \in Threads |-> NoRequest]
    /\ pc = "idle" /\ job = NoJob /\ built = 0
    /\ edits = 0 /\ mishaps = 0 /\ retries = 0

Edit(reg) == /\ edits < MaxEdits
             /\ edits' = edits + 1
             /\ registry' = reg
             /\ UNCHANGED <<pdf, web, receipt, pending, active, chatVars, writerVars,
                            mishaps, retries>>

\* Mutant of Approve: a candidate nobody has built is published.
ApproveAhead(a) ==
    /\ registry[a].latest # registry[a].published
    /\ Edit([registry EXCEPT ![a].published = registry[a].latest + 1])

\* Automatic approval publishes the newest candidate.
Approve(a) == /\ registry[a].latest # registry[a].published
              /\ Edit([registry EXCEPT ![a].published = registry[a].latest])

\* An enrichment or a correction stages a newer candidate of a published article.
Supplement(a) == /\ Published(registry, a) /\ registry[a].latest < MaxVersion
                 /\ Edit([registry EXCEPT ![a].latest = @ + 1])

\* set_visibility, of any article the Registry keeps.
SetVisibility(a) == /\ registry[a].latest > 0
                    /\ Edit([registry EXCEPT ![a].visible = ~@])

(* ------------------------- the intake writer -------------------------- *)

Goto(label) == pc' = label
Finish == /\ pc' = "idle" /\ job' = NoJob
UnchangedByWriter == UNCHANGED <<chatVars, bounds>>

\* Mutant of PdfCandidate: a batch that died after its import is not picked up again.
PdfCandidateNotImported(b) ==
    \/ pdf[b].stage \in {"queued", "processing"}
    \/ /\ pdf[b].stage = "pending_review"
       /\ \/ Pending(registry, b) = {}
          \/ Revision(registry) # pdf[b].target
          \/ RevOf(active) = Revision(registry) /\ pdf[b].synced # Revision(registry)

\* process_next: a batch of pending_review is looked at again when nothing of it is
\* pending, when the revision moved, or when Chat caught up with the revision.
PdfCandidate(b) ==
    \/ pdf[b].stage \in Resumable
    \/ /\ pdf[b].stage = "pending_review"
       /\ \/ Pending(registry, b) = {}
          \/ Revision(registry) # pdf[b].target
          \/ RevOf(active) = Revision(registry) /\ pdf[b].synced # Revision(registry)

WebCandidate(b) ==
    \/ web[b].stage \in Resumable
    \/ web[b].stage = "pending_review" /\ Pending(registry, b) = {}
    \/ web[b].stage = "failed" /\ web[b].retry

Candidates == {b \in Pdfs : PdfCandidate(b)} \cup {b \in Webs : WebCandidate(b)}

Poll ==
    /\ pc = "idle"
    /\ \/ Candidates = {} /\ Goto("refresh") /\ job' = NoJob
       \/ \E b \in Candidates :
             /\ \A c \in Candidates : Created[b] <= Created[c]
             /\ Goto(IF b \in Pdfs THEN "pdf_begin" ELSE "web_begin")
             /\ job' = [NoJob EXCEPT !.batch = b]
    /\ UNCHANGED <<registry, pdf, web, receipt, pending, active, built>>
    /\ UnchangedByWriter

\* PdfIntakePipeline._process_unlocked, up to the public-revision branch.
PdfBegin ==
    LET b == job.batch IN
    /\ pc = "pdf_begin"
    /\ pdf' = [pdf EXCEPT ![b].stage = "processing", ![b].ready = FALSE]
    /\ job' = [job EXCEPT !.retry = pdf[b].stage \in {"queued", "failed"} /\ pdf[b].imported]
    /\ Goto("pdf_import")
    /\ UNCHANGED <<registry, web, receipt, pending, active, built>>
    /\ UnchangedByWriter

\* persist_pdf_intake, repeated after a crash, finds its own rows.
Persisted(reg, b) == [a \in Articles |-> IF a \in ArticlesOf[b] /\ reg[a].latest = 0
                                         THEN [reg[a] EXCEPT !.latest = 1] ELSE reg[a]]

PdfImport ==
    /\ pc = "pdf_import"
    /\ registry' = IF pdf[job.batch].imported THEN registry ELSE Persisted(registry, job.batch)
    /\ Goto("pdf_imported")
    /\ UNCHANGED <<pdf, web, receipt, pending, active, job, built>>
    /\ UnchangedByWriter

PdfImportFails ==
    /\ pc = "pdf_import" /\ ~pdf[job.batch].imported /\ Mishap
    /\ pdf' = [pdf EXCEPT ![job.batch].stage = "failed"]
    /\ Finish
    /\ UNCHANGED <<registry, web, receipt, pending, active, chatVars, built, edits, retries>>

PdfImported ==
    /\ pc = "pdf_imported"
    /\ pdf' = [pdf EXCEPT ![job.batch].stage = "imported", ![job.batch].imported = TRUE]
    /\ Goto("pdf_revision")
    /\ UNCHANGED <<registry, web, receipt, pending, active, job, built>>
    /\ UnchangedByWriter

\* The revision is read first, what is still pending in a second connection.
PdfRevision ==
    /\ pc = "pdf_revision"
    /\ job' = [job EXCEPT !.rev = Revision(registry)]
    /\ Goto("pdf_pending")
    /\ UNCHANGED <<registry, pdf, web, receipt, pending, active, built>>
    /\ UnchangedByWriter

PdfPending ==
    /\ pc = "pdf_pending"
    /\ job' = [job EXCEPT !.pend = Pending(registry, job.batch)]
    /\ Goto("refresh")
    /\ UNCHANGED <<registry, pdf, web, receipt, pending, active, built>>
    /\ UnchangedByWriter

Return == IF job.batch = None THEN Finish
          ELSE /\ Goto("pdf_finish")
               /\ job' = [NoJob EXCEPT !.batch = job.batch, !.rev = job.rev, !.pend = job.pend]

\* Mutant of Waiting: a revision that failed once is never tried again.
WaitingForever(rev) == ~job.retry /\ receipt.rev = rev /\ ~receipt.ready

\* A failed revision waits for its retry_after, unless an operator asked for it.
Waiting(rev) == ~job.retry /\ receipt.rev = rev /\ receipt.cooling

\* _refresh_publication_unlocked up to the call of _refresh_checks_unlocked.
Refresh ==
    LET rev == Revision(registry)
        current == RevOf(active) = rev
        \* Chat switched, but the receipt of this very generation was lost.
        lostReceipt == /\ ~receipt.ready
                       /\ IdOf(receipt.prepared) = IdOf(active)
                       /\ receipt.rev = rev
    IN  /\ pc = "refresh"
        /\ \/ /\ \/ current /\ ~lostReceipt
                 \/ ~current /\ active = None /\ rev = EmptyRevision
                 \/ ~current /\ Waiting(rev)
              /\ Return
           \/ /\ current /\ lostReceipt
              /\ Goto("receipt") /\ job' = [job EXCEPT !.seen = rev, !.ok = TRUE]
           \/ /\ ~current /\ ~(active = None /\ rev = EmptyRevision) /\ ~Waiting(rev)
              /\ Goto("prepare") /\ job' = [job EXCEPT !.seen = rev]
        /\ UNCHANGED <<registry, pdf, web, receipt, pending, active, built>>
        /\ UnchangedByWriter

\* _refresh_checks_unlocked reads the revision again: a prepared generation of
\* this revision is reused, else the Registry is frozen into a new one.
Prepare ==
    /\ pc = "prepare"
    /\ IF receipt.prepared # None /\ RevOf(receipt.prepared) = Revision(registry)
       THEN Goto("activate") /\ job' = [job EXCEPT !.gen = receipt.prepared]
       ELSE Goto("build") /\ UNCHANGED job
    /\ UNCHANGED <<registry, pdf, web, receipt, pending, active, built>>
    /\ UnchangedByWriter

\* The snapshot fixes the revision; the receipt names the prepared generation
\* before any reload is asked for.
Build ==
    LET gen == [id |-> built + 1, rev |-> Revision(registry),
                pdf |-> ShownIn(Revision(registry)) \cap PdfArticles]
    IN  /\ pc = "build"
        /\ built' = built + 1
        /\ receipt' = [ready |-> FALSE, rev |-> gen.rev, prepared |-> gen, cooling |-> FALSE]
        /\ job' = [job EXCEPT !.gen = gen]
        /\ Goto("activate")
        /\ UNCHANGED <<registry, pdf, web, pending, active>>
        /\ UnchangedByWriter

BuildFails ==
    /\ pc = "build" /\ Mishap
    /\ Goto("receipt")
    /\ UNCHANGED <<registry, pdf, web, receipt, pending, active, chatVars, job, built,
                   edits, retries>>

\* The reload request of a generation reaches a free thread of the Chat process.
Call(gen) ==
    LET idle == {t \in Threads : thread[t].at = "idle"}
        t == CHOOSE u \in idle : TRUE IN
    /\ idle # {}
    /\ thread' = [thread EXCEPT ![t] = [NoRequest EXCEPT !.at = "called", !.gen = gen.id]]
    /\ job' = [job EXCEPT !.call = t, !.answer = None]
    /\ pending' = gen
    /\ Goto("wait")
    /\ UNCHANGED <<kb, lock>>

\* _activate: refuse a generation whose revision is not the current one.
Activate ==
    /\ pc = "activate"
    /\ \/ job.gen.rev = Revision(registry) /\ Call(job.gen)
       \/ /\ job.gen.rev # Revision(registry)
          /\ Goto("receipt")
          /\ UNCHANGED <<pending, chatVars, job>>
    /\ UNCHANGED <<registry, pdf, web, receipt, active, built, bounds>>

\* An error is forgiven when active.json names the generation after all.
Answered ==
    /\ pc = "wait" /\ job.answer # None
    /\ job' = [job EXCEPT !.call = None,
                          !.answer = None, !.ok = job.answer = "ok" \/ IdOf(active) = job.gen.id]
    /\ Goto("withdraw")
    /\ UNCHANGED <<registry, pdf, web, receipt, pending, active, built>>
    /\ UnchangedByWriter

\* The writer stops waiting, or the connection breaks; the handler goes on.
LoseAnswer ==
    /\ pc = "wait" /\ Mishap
    /\ job' = [job EXCEPT !.call = None, !.answer = None, !.ok = IdOf(active) = job.gen.id]
    /\ Goto("withdraw")
    /\ UNCHANGED <<registry, pdf, web, receipt, pending, active, chatVars, built,
                   edits, retries>>

Withdraw ==
    /\ pc = "withdraw"
    /\ pending' = IF IdOf(pending) = job.gen.id THEN None ELSE pending
    /\ Goto("verify")
    /\ UNCHANGED <<registry, pdf, web, receipt, active, job, built>>
    /\ UnchangedByWriter

Verify ==
    /\ pc = "verify"
    /\ job' = [job EXCEPT !.ok = job.ok /\ IdOf(active) = job.gen.id]
    /\ Goto(IF job.batch \in Webs THEN "web_finish" ELSE "receipt")
    /\ UNCHANGED <<registry, pdf, web, receipt, pending, active, built>>
    /\ UnchangedByWriter

\* Mutant of Switched: the prepared generation is compared instead of the active one.
SwitchedAsPrepared == receipt.prepared # None /\ receipt.prepared.rev = job.seen

\* The failed reload did switch Chat to the prepared generation.
Switched == /\ receipt.prepared # None
            /\ RevOf(active) = job.seen
            /\ IdOf(active) = receipt.prepared.id

\* The end of _refresh_publication_unlocked: a failure waits sixty seconds, unless
\* active.json turns out to name the prepared generation.
WriteReceipt ==
    LET confirmed == job.ok \/ Switched IN
    /\ pc = "receipt"
    /\ receipt' = [ready |-> confirmed, rev |-> IF job.ok THEN RevOf(active) ELSE job.seen,
                   prepared |-> receipt.prepared, cooling |-> ~confirmed]
    /\ Return
    /\ UNCHANGED <<registry, pdf, web, pending, active, built>>
    /\ UnchangedByWriter

\* The batch is ready when Chat serves the revision read at the start and shows
\* something of the batch, or nothing of it was still pending.
PdfFinish ==
    LET b == job.batch
        synced == RevOf(active) = job.rev
        scope == IF active = None THEN {} ELSE ArticlesOf[b] \cap active.pdf
        ready == synced /\ (scope # {} \/ job.pend = {})
    IN  /\ pc = "pdf_finish"
        /\ pdf' = [pdf EXCEPT ![b] = [@ EXCEPT
               !.stage = IF job.pend # {} THEN "pending_review"
                         ELSE IF ready THEN "chat_ready" ELSE "failed",
               !.ready = ready,
               !.target = job.rev,
               !.synced = IF synced THEN job.rev ELSE None]]
        /\ Finish
        /\ UNCHANGED <<registry, web, receipt, pending, active, built>>
        /\ UnchangedByWriter

\* WebIngestPipeline._process_unlocked.
WebBegin ==
    /\ pc = "web_begin"
    /\ web' = [web EXCEPT ![job.batch].stage = "processing"]
    /\ Goto("web_retry")
    /\ UNCHANGED <<registry, pdf, receipt, pending, active, job, built>>
    /\ UnchangedByWriter

WebClearRetry ==
    /\ pc = "web_retry"
    /\ web' = [web EXCEPT ![job.batch].retry = FALSE]
    /\ Goto("web_check")
    /\ UNCHANGED <<registry, pdf, receipt, pending, active, job, built>>
    /\ UnchangedByWriter

WebCheck ==
    /\ pc = "web_check"
    /\ IF Pending(registry, job.batch) = {}
       THEN Goto("web_build") /\ UNCHANGED <<web, job>>
       ELSE Finish /\ web' = [web EXCEPT ![job.batch].stage = "pending_review",
                                         ![job.batch].ready = FALSE]
    /\ UNCHANGED <<registry, pdf, receipt, pending, active, built>>
    /\ UnchangedByWriter

\* A web generation keeps the PDF list of the generation it replaces.
WebBuild ==
    LET gen == [id |-> built + 1, rev |-> Revision(registry),
                pdf |-> IF active = None THEN {} ELSE active.pdf]
    IN  /\ pc = "web_build"
        /\ built' = built + 1
        /\ job' = [job EXCEPT !.gen = gen]
        /\ web' = [web EXCEPT ![job.batch].stage = "indexed"]
        /\ Goto("web_activate")
        /\ UNCHANGED <<registry, pdf, receipt, pending, active>>
        /\ UnchangedByWriter

WebBuildFails ==
    /\ pc = "web_build" /\ Mishap
    /\ web' = [web EXCEPT ![job.batch].stage = "failed", ![job.batch].ready = FALSE]
    /\ Finish
    /\ UNCHANGED <<registry, pdf, receipt, pending, active, chatVars, built, edits, retries>>

WebActivate ==
    /\ pc = "web_activate"
    /\ web' = [web EXCEPT ![job.batch].stage = "activating"]
    /\ Call(job.gen)
    /\ UNCHANGED <<registry, pdf, receipt, active, built, bounds>>

WebFinish ==
    /\ pc = "web_finish"
    /\ web' = [web EXCEPT ![job.batch].stage = IF job.ok THEN "chat_ready" ELSE "failed",
                          ![job.batch].ready = job.ok]
    /\ Finish
    /\ UNCHANGED <<registry, pdf, receipt, pending, active, built>>
    /\ UnchangedByWriter

\* retry_after passes.
CoolDown ==
    /\ receipt.cooling
    /\ receipt' = [receipt EXCEPT !.cooling = FALSE]
    /\ UNCHANGED <<registry, pdf, web, pending, active, chatVars, writerVars, bounds>>

\* retry_pdf_batch, under the same intake-writer lock.
RetryPdf(b) ==
    /\ pc = "idle" /\ pdf[b].stage = "failed" /\ ~pdf[b].ready /\ retries < MaxRetries
    /\ retries' = retries + 1
    /\ pdf' = [pdf EXCEPT ![b].stage = "queued"]
    /\ UNCHANGED <<registry, web, receipt, pending, active, chatVars, writerVars,
                   edits, mishaps>>

\* enqueue_web_activation of a failed job leaves a request for the writer.
RetryWeb(b) ==
    /\ web[b].stage = "failed" /\ ~web[b].retry /\ retries < MaxRetries
    /\ retries' = retries + 1
    /\ web' = [web EXCEPT ![b].retry = TRUE]
    /\ UNCHANGED <<registry, pdf, receipt, pending, active, chatVars, writerVars,
                   edits, mishaps>>

(* ------------------------- the Chat process --------------------------- *)

\* The answer of thread t, if its writer is still waiting for it.
Reply(t, answer) ==
    /\ thread' = [thread EXCEPT ![t] = NoRequest]
    /\ lock' = None
    /\ job' = IF job.call = t THEN [job EXCEPT !.answer = answer] ELSE job

UnchangedByChat == UNCHANGED <<registry, pdf, web, receipt, pc, built>>

\* Mutant of Enter: reloads are not serialised.
EnterUnlocked(t) ==
    /\ thread[t].at = "called"
    /\ IF IdOf(pending) = thread[t].gen
       THEN /\ lock' = t
            /\ thread' = [thread EXCEPT ![t].at = "loading", ![t].meta = pending]
            /\ UNCHANGED job
       ELSE Reply(t, "error")
    /\ UNCHANGED <<pending, active, kb, bounds>> /\ UnchangedByChat

\* reload_wiki, under _RELOAD_LOCK: pending.json must name this generation.
Enter(t) ==
    /\ thread[t].at = "called" /\ lock = None
    /\ IF IdOf(pending) = thread[t].gen
       THEN /\ lock' = t
            /\ thread' = [thread EXCEPT ![t].at = "loading", ![t].meta = pending]
            /\ UNCHANGED job
       ELSE Reply(t, "error")
    /\ UNCHANGED <<pending, active, kb, bounds>> /\ UnchangedByChat

\* After the new knowledge base is built: pending.json must still say the same,
Recheck(t) ==
    /\ thread[t].at = "loading"
    /\ IF pending = thread[t].meta
       THEN thread' = [thread EXCEPT ![t].at = "revision"] /\ UNCHANGED <<lock, job>>
       ELSE Reply(t, "error")
    /\ UNCHANGED <<pending, active, kb, bounds>> /\ UnchangedByChat

\* and the public revision must still be the generation's.
RecheckRevision(t) ==
    /\ thread[t].at = "revision"
    /\ IF Revision(registry) = thread[t].meta.rev
       THEN thread' = [thread EXCEPT ![t].at = "switch"] /\ UNCHANGED <<lock, job>>
       ELSE Reply(t, "error")
    /\ UNCHANGED <<pending, active, kb, bounds>> /\ UnchangedByChat

Switch(t) ==
    /\ thread[t].at = "switch"
    /\ thread' = [thread EXCEPT ![t].at = "commit", ![t].before = kb]
    /\ kb' = thread[t].meta
    /\ UNCHANGED <<pending, active, lock, job, bounds>> /\ UnchangedByChat

Commit(t) ==
    /\ thread[t].at = "commit"
    /\ active' = thread[t].meta
    /\ thread' = [thread EXCEPT ![t].at = "unlink"]
    /\ UNCHANGED <<pending, kb, lock, job, bounds>> /\ UnchangedByChat

\* Mutant of CommitFails: the old knowledge base is not restored.
CommitFailsUnrestored(t) ==
    /\ thread[t].at = "commit" /\ Mishap
    /\ active' \in {active, thread[t].meta}
    /\ Reply(t, "error")
    /\ UNCHANGED <<pending, kb, edits, retries>> /\ UnchangedByChat

\* atomic_write_json fails before or after the replacement.  The old knowledge
\* base comes back unless active.json does name the new generation.
CommitFails(t) ==
    /\ thread[t].at = "commit" /\ Mishap
    /\ active' \in {active, thread[t].meta}
    /\ kb' = IF active' = thread[t].meta THEN kb ELSE thread[t].before
    /\ Reply(t, "error")
    /\ UNCHANGED <<pending, edits, retries>> /\ UnchangedByChat

\* pending.unlink(missing_ok=True), whichever generation it names by now.
Unlink(t) ==
    /\ thread[t].at = "unlink"
    /\ pending' = None
    /\ Reply(t, "ok")
    /\ UNCHANGED <<active, kb, bounds>> /\ UnchangedByChat

(* ------------------------- process deaths ----------------------------- *)

WriterDies ==
    /\ pc # "idle" /\ Mishap
    /\ Finish
    /\ UNCHANGED <<registry, pdf, web, receipt, pending, active, chatVars, built,
                   edits, retries>>

\* A restarted Chat process loads what active.json names.
ChatDies ==
    /\ Mishap
    /\ kb' = active /\ lock' = None /\ thread' = [t \in Threads |-> NoRequest]
    /\ job' = IF job.call # None /\ job.answer = None THEN [job EXCEPT !.answer = "error"] ELSE job
    /\ UNCHANGED <<registry, pdf, web, receipt, pending, active, pc, built,
                   edits, retries>>

(* ------------------------- the specification -------------------------- *)

WriterStep ==
    \/ Poll
    \/ PdfBegin \/ PdfImport \/ PdfImported \/ PdfRevision \/ PdfPending \/ PdfFinish
    \/ Refresh \/ Prepare \/ Build \/ Activate \/ Answered \/ Withdraw \/ Verify \/ WriteReceipt
    \/ WebBegin \/ WebClearRetry \/ WebCheck \/ WebBuild \/ WebActivate \/ WebFinish

WriterFault == PdfImportFails \/ BuildFails \/ WebBuildFails \/ LoseAnswer
HandlerStep(t) == Enter(t) \/ Recheck(t) \/ RecheckRevision(t) \/ Switch(t) \/ Commit(t) \/ Unlink(t)
Reviewer == \E a \in Articles : Approve(a) \/ Supplement(a) \/ SetVisibility(a)
Operator == (\E b \in Pdfs : RetryPdf(b)) \/ (\E b \in Webs : RetryWeb(b))

Next ==
    \/ WriterStep \/ WriterFault \/ CoolDown
    \/ \E t \in Threads : HandlerStep(t) \/ CommitFails(t)
    \/ Reviewer \/ Operator
    \/ WriterDies \/ ChatDies

\* The writer's loop never stops polling, a request thread runs to its answer,
\* and sixty seconds pass.
Fairness == /\ WF_vars(WriterStep)
            /\ \A t \in Threads : WF_vars(HandlerStep(t))
            /\ WF_vars(CoolDown)

Spec == Init /\ [][Next]_vars /\ Fairness

(* ------------------------- properties --------------------------------- *)

WriterLabels == {"idle", "pdf_begin", "pdf_import", "pdf_imported", "pdf_revision", "pdf_pending",
    "pdf_finish", "refresh", "prepare", "build", "activate", "wait", "withdraw", "verify", "receipt",
    "web_begin", "web_retry", "web_check", "web_build", "web_activate", "web_finish"}

ThreadLabels == {"idle", "called", "loading", "revision", "switch", "commit", "unlink"}
PublicRevisions == [Articles -> [version : 0..MaxVersion, visible : BOOLEAN]]
Revisions == PublicRevisions \cup {None}
Generations == [id : Nat \ {0}, rev : PublicRevisions, pdf : SUBSET PdfArticles]
\* No revision and no generation is the absent one.
ASSUME NoneAssumption == None \notin PublicRevisions \cup Generations
Pointers == Generations \cup {None}
Registries == [Articles -> [latest : 0..MaxVersion, published : 0..MaxVersion, visible : BOOLEAN]]
PdfStatuses == [Pdfs -> [stage : PdfStages, imported : BOOLEAN, ready : BOOLEAN,
                         target : Revisions, synced : Revisions]]

WebStatuses == [Webs -> [stage : WebStages, ready : BOOLEAN, retry : BOOLEAN]]
Receipts == [ready : BOOLEAN, rev : Revisions, prepared : Pointers, cooling : BOOLEAN]
Jobs == [batch : Batches \cup {None}, rev : Revisions, pend : SUBSET Articles, retry : BOOLEAN,
         seen : Revisions, gen : Pointers, call : Threads \cup {None},
         answer : {"ok", "error", None}, ok : BOOLEAN]

Requests == [at : ThreadLabels, gen : Nat, meta : Pointers, before : Pointers]

\* Types of the queue files, of the writer's locals and of the Chat process.
TypeOK ==
    /\ registry \in Registries
    /\ pdf \in PdfStatuses /\ web \in WebStatuses /\ receipt \in Receipts
    /\ pending \in Pointers /\ active \in Pointers /\ kb \in Pointers
    /\ lock \in Threads \cup {None} /\ thread \in [Threads -> Requests]
    /\ pc \in WriterLabels /\ job \in Jobs
    /\ built \in Nat /\ edits \in Nat /\ mishaps \in Nat /\ retries \in Nat

\* Outside a reload, Chat answers from exactly the generation active.json names:
\* a commit that fails before or after the file was replaced, and a restart of
\* the Chat process, leave memory and disk in agreement.
ChatServesActive == lock = None => kb = active

\* No article goes back to an older approved version in Chat: a request the writer
\* gave up on cannot overtake the activation of a later revision.
NeverOlder ==
    [][\A a \in Articles : VersionIn(active, a) <= VersionIn(active', a)]_vars

\* What public-refresh.json, a PDF batch or a web job records as chat_ready is in
\* Chat for good: a forgiven error, a lost receipt or a restart never records an
\* activation that did not happen.
ReceiptHolds ==
    /\ receipt.ready => \A a \in Articles : receipt.rev[a].version <= VersionIn(active, a)
    /\ \A b \in Pdfs : pdf[b].ready =>
          \A a \in Articles : pdf[b].target[a].version <= VersionIn(active, a)
    /\ \A b \in Webs : web[b].ready =>
          \A a \in ArticlesOf[b] : VersionIn(active, a) > 0

\* Once something is approved, Chat comes to serve the current public revision,
\* whatever was lost on the way.
ChatCatchesUp == (Revision(registry) # EmptyRevision) ~> (kb # None /\ RevOf(kb) = Revision(registry))

\* No batch is left half way: what a death interrupted is resumed to a decision, a
\* batch whose articles are all approved leaves pending_review, and an operator's
\* retry is taken up.
Unsettled(b) ==
    \/ b \in Pdfs /\ \/ pdf[b].stage \in Resumable
                     \/ pdf[b].stage = "pending_review" /\ Pending(registry, b) = {}
    \/ b \in Webs /\ \/ web[b].stage \in Resumable
                     \/ web[b].stage = "pending_review" /\ Pending(registry, b) = {}
                     \/ web[b].stage = "failed" /\ web[b].retry

BatchesSettle == \A b \in Batches : Unsettled(b) ~> ~Unsettled(b)
=============================================================================
