--------------------- MODULE GenerationActivationProofs ---------------------
(***************************************************************************)
(* The agreement of Chat and active.json, the order in which Chat is given *)
(* generations and what is recorded of it, for any number of batches,      *)
(* articles, reload threads, edits, lost answers, failures and deaths.     *)
(***************************************************************************)
EXTENDS GenerationActivation, TLAPS

\* What the writer's local variables hold at each of its places.
LocalsKnown ==
    /\ pc \in {"pdf_begin", "pdf_import", "pdf_imported", "pdf_revision", "pdf_pending", "pdf_finish"}
          => job.batch \in Pdfs
    /\ pc \in {"web_begin", "web_retry", "web_check", "web_build", "web_activate", "web_finish"}
          => job.batch \in Webs
    /\ pc \in {"refresh", "prepare", "build", "activate", "receipt"} => job.batch \in Pdfs \cup {None}
    /\ pc \in {"activate", "wait", "withdraw", "verify", "web_activate", "web_finish"}
          => job.gen \in Generations

RequestsKnown == \A t \in Threads : thread[t].at = "called" => thread[t].gen # 0

TypeInv == TypeOK /\ LocalsKnown /\ RequestsKnown

(* ------------------------- types -------------------------------------- *)

LEMMA RevisionType ==
    ASSUME NEW reg \in Registries
    PROVE  Revision(reg) \in PublicRevisions
BY BoundsAssumption DEF Registries, Revision, PublicRevisions, Published, Unpublished

LEMMA RevOfType == ASSUME NEW gen \in Pointers PROVE RevOf(gen) \in Revisions
BY DEF RevOf, Pointers, Generations, Revisions

LEMMA NoneTypes == /\ None \in Revisions /\ None \in Pointers
                   /\ NoJob \in Jobs /\ NoJob.batch = None
                   /\ NoRequest \in Requests /\ NoRequest.at = "idle"
BY DEF Revisions, Pointers, NoJob, Jobs, NoRequest, Requests, ThreadLabels

LEMMA InitTypeInv == Init => TypeInv
<1> SUFFICES ASSUME Init PROVE TypeInv
    OBVIOUS
<1>1. registry \in Registries
  BY BoundsAssumption DEF Init, Registries
<1>2. pdf \in PdfStatuses /\ web \in WebStatuses /\ receipt \in Receipts
  BY NoneTypes DEF Init, PdfStatuses, PdfStages, WebStatuses, WebStages, Receipts
<1>3. job \in Jobs /\ thread \in [Threads -> Requests]
  BY NoneTypes DEF Init
<1> QED
  BY <1>1, <1>2, <1>3, NoneTypes
  DEF TypeInv, TypeOK, LocalsKnown, RequestsKnown, Init, WriterLabels

LEMMA ReturnType ==
    ASSUME TypeOK, job.batch \in Pdfs \cup {None}, Return
    PROVE  job' \in Jobs /\ pc' \in WriterLabels /\ LocalsKnown'
<1>1. CASE job.batch = None
  BY <1>1, NoneTypes DEF Return, Finish, WriterLabels, LocalsKnown
<1>2. CASE job.batch # None
  <2>1. /\ pc' = "pdf_finish" /\ job.batch \in Pdfs
        /\ job' = [NoJob EXCEPT !.batch = job.batch, !.rev = job.rev, !.pend = job.pend]
    BY <1>2 DEF Return, Goto
  <2>2. job' \in Jobs /\ job'.batch = job.batch
    BY <2>1, NoneTypes DEF TypeOK, Jobs, NoJob, Batches
  <2> QED
    BY <2>1, <2>2 DEF LocalsKnown, WriterLabels
<1> QED
  BY <1>1, <1>2

LEMMA CallType ==
    ASSUME TypeInv, NEW gen \in Generations, Call(gen), job.gen \in Generations
    PROVE  /\ pending' \in Pointers /\ lock' \in Threads \cup {None} /\ kb' \in Pointers
           /\ thread' \in [Threads -> Requests] /\ job' \in Jobs /\ pc' \in WriterLabels
           /\ LocalsKnown' /\ RequestsKnown'
<1> DEFINE idle == {u \in Threads : thread[u].at = "idle"}
           t == CHOOSE u \in idle : TRUE
           r == [NoRequest EXCEPT !.at = "called", !.gen = gen.id]
<1>1. t \in Threads
  BY DEF Call
<1>2. /\ thread' = [thread EXCEPT ![t] = r] /\ job' = [job EXCEPT !.call = t, !.answer = None]
      /\ pending' = gen /\ pc' = "wait" /\ kb' = kb /\ lock' = lock
  BY DEF Call, Goto
<1>3. r \in Requests /\ r.gen # 0
  BY NoneTypes DEF NoRequest, Requests, ThreadLabels, Generations
<1> HIDE DEF t, r
<1>4. job' \in Jobs /\ job'.gen = job.gen
  BY <1>1, <1>2 DEF TypeInv, TypeOK, Jobs
<1>5. thread' \in [Threads -> Requests] /\ RequestsKnown'
  BY <1>1, <1>2, <1>3 DEF TypeInv, TypeOK, RequestsKnown
<1>6. /\ pending' \in Pointers /\ lock' \in Threads \cup {None} /\ kb' \in Pointers /\ pc' \in WriterLabels
  BY <1>2 DEF TypeInv, TypeOK, Pointers, WriterLabels
<1>7. LocalsKnown'
  BY <1>2, <1>4 DEF LocalsKnown
<1> QED
  BY <1>4, <1>5, <1>6, <1>7

\* Every step keeps the types and what is known of the writer's locals.
LEMMA TypeStep == ASSUME TypeInv, Next PROVE TypeInv'
<1>1. TypeOK /\ LocalsKnown /\ RequestsKnown
  BY DEF TypeInv
<1>2. ASSUME Poll PROVE TypeInv'
  <2>1. \/ pc' = "refresh" /\ job' = NoJob
        \/ \E b \in Pdfs : pc' = "pdf_begin" /\ job' = [NoJob EXCEPT !.batch = b]
        \/ \E b \in Webs : pc' = "web_begin" /\ job' = [NoJob EXCEPT !.batch = b]
    BY <1>2, BatchesAssumption DEF Poll, Candidates, Goto
  <2>2. \A b \in Batches : /\ [NoJob EXCEPT !.batch = b] \in Jobs
                          /\ [NoJob EXCEPT !.batch = b].batch = b
    BY NoneTypes DEF Jobs
  <2>3. job' \in Jobs /\ pc' \in WriterLabels /\ LocalsKnown'
    BY <2>1, <2>2, NoneTypes DEF Batches, WriterLabels, LocalsKnown
  <2>4. TypeOK'
    BY <1>1, <1>2, <2>3 DEF Poll, TypeOK, UnchangedByWriter, chatVars, bounds
  <2> QED
    BY <1>1, <1>2, <2>3, <2>4 DEF TypeInv, Poll, RequestsKnown, UnchangedByWriter, chatVars
<1>3. ASSUME PdfBegin PROVE TypeInv'
  <2>1. pdf' \in PdfStatuses
    BY <1>1, <1>3, RevisionType, RevOfType, NoneTypes, BoundsAssumption
    DEF PdfBegin, TypeOK, LocalsKnown, PdfStatuses, PdfStages, Goto, UnchangedByWriter,
        chatVars, bounds
  <2>2. job' \in Jobs
    BY <1>1, <1>3, RevisionType, RevOfType, NoneTypes, BoundsAssumption
    DEF PdfBegin, TypeOK, LocalsKnown, Jobs, NoJob, Batches, Revisions, Receipts,
        PdfStatuses, Goto, UnchangedByWriter, chatVars, bounds
  <2>3. TypeOK'
    BY <1>1, <1>3, <2>1, <2>2, NoneTypes
    DEF PdfBegin, TypeOK, WriterLabels, Goto, UnchangedByWriter, chatVars, bounds
  <2>4. LocalsKnown' /\ RequestsKnown'
    BY <1>1, <1>3, NoneTypes, BatchesAssumption
    DEF PdfBegin, TypeOK, LocalsKnown, RequestsKnown, Jobs, NoJob, Batches, Requests, Goto,
        UnchangedByWriter, chatVars, bounds
  <2> QED
    BY <2>3, <2>4 DEF TypeInv
<1>4. ASSUME PdfImport PROVE TypeInv'
  <2>1. registry' \in Registries
    BY <1>1, <1>4, RevisionType, RevOfType, NoneTypes, BoundsAssumption
    DEF PdfImport, Persisted, TypeOK, LocalsKnown, Registries, Goto, UnchangedByWriter,
        chatVars, bounds
  <2>2. TypeOK'
    BY <1>1, <1>4, <2>1, NoneTypes
    DEF PdfImport, Persisted, TypeOK, WriterLabels, Goto, UnchangedByWriter, chatVars,
        bounds
  <2>3. LocalsKnown' /\ RequestsKnown'
    BY <1>1, <1>4, NoneTypes, BatchesAssumption
    DEF PdfImport, Persisted, TypeOK, LocalsKnown, RequestsKnown, Jobs, NoJob, Batches,
        Requests, Goto, UnchangedByWriter, chatVars, bounds
  <2> QED
    BY <2>2, <2>3 DEF TypeInv
<1>5. ASSUME PdfImported PROVE TypeInv'
  <2>1. pdf' \in PdfStatuses
    BY <1>1, <1>5, RevisionType, RevOfType, NoneTypes, BoundsAssumption
    DEF PdfImported, TypeOK, LocalsKnown, PdfStatuses, PdfStages, Goto, UnchangedByWriter,
        chatVars, bounds
  <2>2. TypeOK'
    BY <1>1, <1>5, <2>1, NoneTypes
    DEF PdfImported, TypeOK, WriterLabels, Goto, UnchangedByWriter, chatVars, bounds
  <2>3. LocalsKnown' /\ RequestsKnown'
    BY <1>1, <1>5, NoneTypes, BatchesAssumption
    DEF PdfImported, TypeOK, LocalsKnown, RequestsKnown, Jobs, NoJob, Batches, Requests,
        Goto, UnchangedByWriter, chatVars, bounds
  <2> QED
    BY <2>2, <2>3 DEF TypeInv
<1>6. ASSUME PdfRevision PROVE TypeInv'
  <2>1. job' \in Jobs
    BY <1>1, <1>6, RevisionType, RevOfType, NoneTypes, BoundsAssumption
    DEF PdfRevision, TypeOK, LocalsKnown, Jobs, NoJob, Batches, Revisions, Receipts, Goto,
        UnchangedByWriter, chatVars, bounds
  <2>2. TypeOK'
    BY <1>1, <1>6, <2>1, NoneTypes
    DEF PdfRevision, TypeOK, WriterLabels, Goto, UnchangedByWriter, chatVars, bounds
  <2>3. LocalsKnown' /\ RequestsKnown'
    BY <1>1, <1>6, NoneTypes, BatchesAssumption
    DEF PdfRevision, TypeOK, LocalsKnown, RequestsKnown, Jobs, NoJob, Batches, Requests,
        Goto, UnchangedByWriter, chatVars, bounds
  <2> QED
    BY <2>2, <2>3 DEF TypeInv
<1>7. ASSUME PdfPending PROVE TypeInv'
  <2>1. job' \in Jobs
    BY <1>1, <1>7, RevisionType, RevOfType, NoneTypes, BoundsAssumption
    DEF PdfPending, Pending, Articles, Batches, TypeOK, LocalsKnown, Jobs, NoJob, Batches,
        Revisions, Receipts, Goto, UnchangedByWriter, chatVars, bounds
  <2>2. TypeOK'
    BY <1>1, <1>7, <2>1, NoneTypes
    DEF PdfPending, Pending, Articles, Batches, TypeOK, WriterLabels, Goto,
        UnchangedByWriter, chatVars, bounds
  <2>3. LocalsKnown' /\ RequestsKnown'
    BY <1>1, <1>7, NoneTypes, BatchesAssumption
    DEF PdfPending, Pending, Articles, Batches, TypeOK, LocalsKnown, RequestsKnown, Jobs,
        NoJob, Batches, Requests, Goto, UnchangedByWriter, chatVars, bounds
  <2> QED
    BY <2>2, <2>3 DEF TypeInv
<1>8. ASSUME PdfFinish PROVE TypeInv'
  <2>1. PICK st \in PdfStages, r \in BOOLEAN, s \in Revisions :
          pdf' = [pdf EXCEPT ![job.batch] = [@ EXCEPT !.stage = st, !.ready = r, !.target = job.rev, !.synced = s]]
    BY <1>1, <1>8, NoneTypes DEF PdfFinish, TypeOK, Jobs, PdfStages
  <2>2. pdf' \in PdfStatuses
    BY <1>1, <2>1 DEF TypeOK, Jobs, PdfStatuses
  <2>3. TypeOK'
    BY <1>1, <1>8, <2>2, NoneTypes
    DEF PdfFinish, TypeOK, WriterLabels, Finish, UnchangedByWriter, chatVars, bounds
  <2>4. LocalsKnown' /\ RequestsKnown'
    BY <1>1, <1>8 DEF PdfFinish, LocalsKnown, RequestsKnown, Finish, UnchangedByWriter, chatVars
  <2> QED
    BY <2>3, <2>4 DEF TypeInv
<1>9. ASSUME Refresh PROVE TypeInv'
  <2>1. job.batch \in Pdfs \cup {None}
    BY <1>1, <1>9 DEF Refresh, LocalsKnown
  <2>2. \/ Return
        \/ /\ pc' \in {"receipt", "prepare"}
           /\ \/ job' = [job EXCEPT !.seen = Revision(registry), !.ok = TRUE]
              \/ job' = [job EXCEPT !.seen = Revision(registry)]
    BY <1>9 DEF Refresh, Goto
  <2>3. job' \in Jobs /\ pc' \in WriterLabels /\ LocalsKnown'
    <3>1. CASE Return
      BY <1>1, <2>1, <3>1, ReturnType
    <3>2. CASE /\ pc' \in {"receipt", "prepare"}
               /\ \/ job' = [job EXCEPT !.seen = Revision(registry), !.ok = TRUE]
                  \/ job' = [job EXCEPT !.seen = Revision(registry)]
      <4>1. job' \in Jobs /\ job'.batch = job.batch
        BY <1>1, <3>2, RevisionType DEF TypeOK, Jobs, Revisions
      <4> QED
        BY <2>1, <3>2, <4>1 DEF LocalsKnown, WriterLabels
    <3> QED
      BY <2>2, <3>1, <3>2
  <2>4. TypeOK'
    BY <1>1, <1>9, <2>3 DEF Refresh, TypeOK, UnchangedByWriter, chatVars, bounds
  <2> QED
    BY <1>1, <1>9, <2>3, <2>4 DEF TypeInv, Refresh, RequestsKnown, UnchangedByWriter, chatVars
<1>10. ASSUME Prepare PROVE TypeInv'
  <2>1. \/ job' = [job EXCEPT !.gen = receipt.prepared] /\ receipt.prepared \in Generations /\ pc' = "activate"
        \/ job' = job /\ pc' = "build"
    BY <1>1, <1>10 DEF Prepare, Goto, TypeOK, Receipts, Pointers
  <2>2. job' \in Jobs /\ LocalsKnown'
    BY <1>1, <1>10, <2>1 DEF Prepare, TypeOK, Jobs, Pointers, LocalsKnown
  <2> QED
    BY <1>1, <1>10, <2>1, <2>2
    DEF TypeInv, TypeOK, WriterLabels, Prepare, RequestsKnown, UnchangedByWriter, chatVars,
        bounds
<1>11. ASSUME Build PROVE TypeInv'
  <2>1. PICK gen \in Generations :
          /\ receipt' = [ready |-> FALSE, rev |-> gen.rev, prepared |-> gen, cooling |-> FALSE]
          /\ job' = [job EXCEPT !.gen = gen]
    <3> DEFINE gen == [id |-> built + 1, rev |-> Revision(registry),
                       pdf |-> ShownIn(Revision(registry)) \cap PdfArticles]
    <3>1. gen \in Generations
      BY <1>1, RevisionType DEF TypeOK, Generations
    <3> QED
      BY <1>11, <3>1 DEF Build
  <2>2. receipt' \in Receipts
    BY <2>1 DEF Receipts, Pointers, Generations, Revisions
  <2>3. job' \in Jobs /\ job'.gen \in Pointers /\ job'.batch = job.batch
    BY <1>1, <2>1 DEF TypeOK, Jobs, Pointers
  <2>4. job'.gen \in Generations
    BY <1>1, <2>1 DEF TypeOK, Jobs
  <2>5. TypeOK'
    BY <1>1, <1>11, <2>2, <2>3
    DEF Build, TypeOK, Goto, WriterLabels, UnchangedByWriter, chatVars, bounds
  <2> QED
    BY <1>1, <1>11, <2>3, <2>4, <2>5
    DEF TypeInv, Build, Goto, LocalsKnown, RequestsKnown, UnchangedByWriter, chatVars
<1>12. ASSUME Activate PROVE TypeInv'
  <2>1. job.gen \in Generations /\ job.batch \in Pdfs \cup {None}
    BY <1>1, <1>12 DEF Activate, TypeOK, LocalsKnown, Jobs, Pointers
  <2>2. CASE Call(job.gen)
    <3>1. /\ pending' \in Pointers /\ lock' \in Threads \cup {None} /\ kb' \in Pointers
          /\ thread' \in [Threads -> Requests] /\ job' \in Jobs /\ pc' \in WriterLabels
          /\ LocalsKnown' /\ RequestsKnown'
      BY <1>1, <2>1, <2>2, CallType DEF TypeInv
    <3> QED
      BY <1>1, <1>12, <3>1 DEF Activate, TypeInv, TypeOK, bounds
  <2>3. CASE pc' = "receipt" /\ UNCHANGED <<pending, chatVars, job>>
    BY <1>1, <1>12, <2>1, <2>3
    DEF Activate, TypeInv, TypeOK, LocalsKnown, RequestsKnown, WriterLabels, chatVars,
        bounds
  <2> QED
    BY <1>12, <2>2, <2>3 DEF Activate, Goto
<1>13. ASSUME Answered PROVE TypeInv'
  <2>1. job' \in Jobs
    BY <1>1, <1>13, RevisionType, RevOfType, NoneTypes, BoundsAssumption
    DEF Answered, TypeOK, LocalsKnown, Jobs, NoJob, Batches, Revisions, Receipts, Goto,
        UnchangedByWriter, chatVars, bounds
  <2>2. TypeOK'
    BY <1>1, <1>13, <2>1, NoneTypes
    DEF Answered, TypeOK, WriterLabels, Goto, UnchangedByWriter, chatVars, bounds
  <2>3. LocalsKnown' /\ RequestsKnown'
    BY <1>1, <1>13, NoneTypes, BatchesAssumption
    DEF Answered, TypeOK, LocalsKnown, RequestsKnown, Jobs, NoJob, Batches, Requests, Goto,
        UnchangedByWriter, chatVars, bounds
  <2> QED
    BY <2>2, <2>3 DEF TypeInv
<1>14. ASSUME Withdraw PROVE TypeInv'
  <2>1. pending' \in Pointers
    BY <1>1, <1>14, RevisionType, RevOfType, NoneTypes, BoundsAssumption
    DEF Withdraw, TypeOK, LocalsKnown, Goto, UnchangedByWriter, chatVars, bounds
  <2>2. TypeOK'
    BY <1>1, <1>14, <2>1, NoneTypes
    DEF Withdraw, TypeOK, WriterLabels, Goto, UnchangedByWriter, chatVars, bounds
  <2>3. LocalsKnown' /\ RequestsKnown'
    BY <1>1, <1>14, NoneTypes, BatchesAssumption
    DEF Withdraw, TypeOK, LocalsKnown, RequestsKnown, Jobs, NoJob, Batches, Requests, Goto,
        UnchangedByWriter, chatVars, bounds
  <2> QED
    BY <2>2, <2>3 DEF TypeInv
<1>15. ASSUME Verify PROVE TypeInv'
  <2>1. job' \in Jobs
    BY <1>1, <1>15, RevisionType, RevOfType, NoneTypes, BoundsAssumption
    DEF Verify, TypeOK, LocalsKnown, Jobs, NoJob, Batches, Revisions, Receipts, Goto,
        UnchangedByWriter, chatVars, bounds
  <2>2. TypeOK'
    BY <1>1, <1>15, <2>1, NoneTypes
    DEF Verify, TypeOK, WriterLabels, Goto, UnchangedByWriter, chatVars, bounds
  <2>3. LocalsKnown' /\ RequestsKnown'
    BY <1>1, <1>15, NoneTypes, BatchesAssumption
    DEF Verify, TypeOK, LocalsKnown, RequestsKnown, Jobs, NoJob, Batches, Requests, Goto,
        UnchangedByWriter, chatVars, bounds
  <2> QED
    BY <2>2, <2>3 DEF TypeInv
<1>16. ASSUME WriteReceipt PROVE TypeInv'
  <2>1. receipt' \in Receipts
    BY <1>1, <1>16, RevOfType DEF WriteReceipt, TypeOK, Receipts, Jobs, Switched
  <2>2. job' \in Jobs /\ pc' \in WriterLabels /\ LocalsKnown'
    BY <1>1, <1>16, ReturnType DEF WriteReceipt, LocalsKnown
  <2>3. TypeOK'
    BY <1>1, <1>16, <2>1, <2>2 DEF WriteReceipt, TypeOK, UnchangedByWriter, chatVars, bounds
  <2> QED
    BY <1>1, <1>16, <2>2, <2>3
    DEF TypeInv, WriteReceipt, RequestsKnown, UnchangedByWriter, chatVars
<1>17. ASSUME WebBegin PROVE TypeInv'
  <2>1. web' \in WebStatuses
    BY <1>1, <1>17, RevisionType, RevOfType, NoneTypes, BoundsAssumption
    DEF WebBegin, TypeOK, LocalsKnown, WebStatuses, WebStages, Goto, UnchangedByWriter,
        chatVars, bounds
  <2>2. TypeOK'
    BY <1>1, <1>17, <2>1, NoneTypes
    DEF WebBegin, TypeOK, WriterLabels, Goto, UnchangedByWriter, chatVars, bounds
  <2>3. LocalsKnown' /\ RequestsKnown'
    BY <1>1, <1>17, NoneTypes, BatchesAssumption
    DEF WebBegin, TypeOK, LocalsKnown, RequestsKnown, Jobs, NoJob, Batches, Requests, Goto,
        UnchangedByWriter, chatVars, bounds
  <2> QED
    BY <2>2, <2>3 DEF TypeInv
<1>18. ASSUME WebClearRetry PROVE TypeInv'
  <2>1. web' \in WebStatuses
    BY <1>1, <1>18, RevisionType, RevOfType, NoneTypes, BoundsAssumption
    DEF WebClearRetry, TypeOK, LocalsKnown, WebStatuses, WebStages, Goto, UnchangedByWriter,
        chatVars, bounds
  <2>2. TypeOK'
    BY <1>1, <1>18, <2>1, NoneTypes
    DEF WebClearRetry, TypeOK, WriterLabels, Goto, UnchangedByWriter, chatVars, bounds
  <2>3. LocalsKnown' /\ RequestsKnown'
    BY <1>1, <1>18, NoneTypes, BatchesAssumption
    DEF WebClearRetry, TypeOK, LocalsKnown, RequestsKnown, Jobs, NoJob, Batches, Requests,
        Goto, UnchangedByWriter, chatVars, bounds
  <2> QED
    BY <2>2, <2>3 DEF TypeInv
<1>19. ASSUME WebCheck PROVE TypeInv'
  <2>1. web' \in WebStatuses
    BY <1>1, <1>19, RevisionType, RevOfType, NoneTypes, BoundsAssumption
    DEF WebCheck, TypeOK, LocalsKnown, WebStatuses, WebStages, Goto, Finish,
        UnchangedByWriter, chatVars, bounds
  <2>2. job' \in Jobs
    BY <1>1, <1>19, RevisionType, RevOfType, NoneTypes, BoundsAssumption
    DEF WebCheck, TypeOK, LocalsKnown, Jobs, NoJob, Batches, Revisions, Receipts, Goto,
        Finish, UnchangedByWriter, chatVars, bounds
  <2>3. TypeOK'
    BY <1>1, <1>19, <2>1, <2>2, NoneTypes
    DEF WebCheck, TypeOK, WriterLabels, Goto, Finish, UnchangedByWriter, chatVars, bounds
  <2>4. LocalsKnown' /\ RequestsKnown'
    BY <1>1, <1>19, NoneTypes, BatchesAssumption
    DEF WebCheck, TypeOK, LocalsKnown, RequestsKnown, Jobs, NoJob, Batches, Requests, Goto,
        Finish, UnchangedByWriter, chatVars, bounds
  <2> QED
    BY <2>3, <2>4 DEF TypeInv
<1>20. ASSUME WebBuild PROVE TypeInv'
  <2>1. PICK gen \in Generations : job' = [job EXCEPT !.gen = gen]
    <3> DEFINE gen == [id |-> built + 1, rev |-> Revision(registry),
                       pdf |-> IF active = None THEN {} ELSE active.pdf]
    <3>1. gen \in Generations
      BY <1>1, RevisionType DEF TypeOK, Pointers, Generations
    <3> QED
      BY <1>20, <3>1 DEF WebBuild
  <2>2. web' \in WebStatuses
    BY <1>1, <1>20 DEF WebBuild, TypeOK, LocalsKnown, WebStatuses, WebStages
  <2>3. job' \in Jobs /\ job'.batch = job.batch /\ job'.gen \in Generations
    BY <1>1, <2>1 DEF TypeOK, Jobs, Pointers
  <2>4. TypeOK'
    BY <1>1, <1>20, <2>2, <2>3
    DEF WebBuild, TypeOK, Goto, WriterLabels, UnchangedByWriter, chatVars, bounds
  <2> QED
    BY <1>1, <1>20, <2>3, <2>4
    DEF TypeInv, WebBuild, Goto, LocalsKnown, RequestsKnown, UnchangedByWriter, chatVars
<1>21. ASSUME WebActivate PROVE TypeInv'
  <2>1. job.gen \in Generations /\ job.batch \in Webs
    BY <1>1, <1>21 DEF WebActivate, TypeOK, LocalsKnown, Jobs, Pointers
  <2>2. web' \in WebStatuses
    BY <1>1, <1>21, <2>1 DEF WebActivate, TypeOK, WebStatuses, WebStages
  <2>3. /\ pending' \in Pointers /\ lock' \in Threads \cup {None} /\ kb' \in Pointers
        /\ thread' \in [Threads -> Requests] /\ job' \in Jobs /\ pc' \in WriterLabels
        /\ LocalsKnown' /\ RequestsKnown'
    <3>1. Call(job.gen)
      BY <1>21 DEF WebActivate
    <3> QED
      BY <1>1, <2>1, <3>1, CallType DEF TypeInv
  <2> QED
    BY <1>1, <1>21, <2>2, <2>3 DEF WebActivate, TypeInv, TypeOK, bounds
<1>22. ASSUME WebFinish PROVE TypeInv'
  <2>1. web' \in WebStatuses
    BY <1>1, <1>22, RevisionType, RevOfType, NoneTypes, BoundsAssumption
    DEF WebFinish, TypeOK, LocalsKnown, WebStatuses, WebStages, Finish, UnchangedByWriter,
        chatVars, bounds
  <2>2. job' \in Jobs
    BY <1>1, <1>22, RevisionType, RevOfType, NoneTypes, BoundsAssumption
    DEF WebFinish, TypeOK, LocalsKnown, Jobs, NoJob, Batches, Revisions, Receipts, Finish,
        UnchangedByWriter, chatVars, bounds
  <2>3. TypeOK'
    BY <1>1, <1>22, <2>1, <2>2, NoneTypes
    DEF WebFinish, TypeOK, WriterLabels, Finish, UnchangedByWriter, chatVars, bounds
  <2>4. LocalsKnown' /\ RequestsKnown'
    BY <1>1, <1>22, NoneTypes, BatchesAssumption
    DEF WebFinish, TypeOK, LocalsKnown, RequestsKnown, Jobs, NoJob, Batches, Requests,
        Finish, UnchangedByWriter, chatVars, bounds
  <2> QED
    BY <2>3, <2>4 DEF TypeInv
<1>23. ASSUME PdfImportFails PROVE TypeInv'
  <2>1. pdf' \in PdfStatuses
    BY <1>1, <1>23, RevisionType, RevOfType, NoneTypes, BoundsAssumption
    DEF PdfImportFails, TypeOK, LocalsKnown, PdfStatuses, PdfStages, Finish, chatVars,
        Mishap
  <2>2. job' \in Jobs
    BY <1>1, <1>23, RevisionType, RevOfType, NoneTypes, BoundsAssumption
    DEF PdfImportFails, TypeOK, LocalsKnown, Jobs, NoJob, Batches, Revisions, Receipts,
        Finish, chatVars, Mishap
  <2>3. TypeOK'
    BY <1>1, <1>23, <2>1, <2>2, NoneTypes
    DEF PdfImportFails, TypeOK, WriterLabels, Finish, chatVars, Mishap
  <2>4. LocalsKnown' /\ RequestsKnown'
    BY <1>1, <1>23, NoneTypes, BatchesAssumption
    DEF PdfImportFails, TypeOK, LocalsKnown, RequestsKnown, Jobs, NoJob, Batches, Requests,
        Finish, chatVars, Mishap
  <2> QED
    BY <2>3, <2>4 DEF TypeInv
<1>24. ASSUME BuildFails PROVE TypeInv'
  <2>1. TypeOK'
    BY <1>1, <1>24, NoneTypes
    DEF BuildFails, TypeOK, WriterLabels, Goto, chatVars, Mishap
  <2>2. LocalsKnown' /\ RequestsKnown'
    BY <1>1, <1>24, NoneTypes, BatchesAssumption
    DEF BuildFails, TypeOK, LocalsKnown, RequestsKnown, Jobs, NoJob, Batches, Requests,
        Goto, chatVars, Mishap
  <2> QED
    BY <2>1, <2>2 DEF TypeInv
<1>25. ASSUME WebBuildFails PROVE TypeInv'
  <2>1. web' \in WebStatuses
    BY <1>1, <1>25, RevisionType, RevOfType, NoneTypes, BoundsAssumption
    DEF WebBuildFails, TypeOK, LocalsKnown, WebStatuses, WebStages, Finish, chatVars, Mishap
  <2>2. job' \in Jobs
    BY <1>1, <1>25, RevisionType, RevOfType, NoneTypes, BoundsAssumption
    DEF WebBuildFails, TypeOK, LocalsKnown, Jobs, NoJob, Batches, Revisions, Receipts,
        Finish, chatVars, Mishap
  <2>3. TypeOK'
    BY <1>1, <1>25, <2>1, <2>2, NoneTypes
    DEF WebBuildFails, TypeOK, WriterLabels, Finish, chatVars, Mishap
  <2>4. LocalsKnown' /\ RequestsKnown'
    BY <1>1, <1>25, NoneTypes, BatchesAssumption
    DEF WebBuildFails, TypeOK, LocalsKnown, RequestsKnown, Jobs, NoJob, Batches, Requests,
        Finish, chatVars, Mishap
  <2> QED
    BY <2>3, <2>4 DEF TypeInv
<1>26. ASSUME LoseAnswer PROVE TypeInv'
  <2>1. job' \in Jobs
    BY <1>1, <1>26, RevisionType, RevOfType, NoneTypes, BoundsAssumption
    DEF LoseAnswer, TypeOK, LocalsKnown, Jobs, NoJob, Batches, Revisions, Receipts, Goto,
        chatVars, Mishap
  <2>2. TypeOK'
    BY <1>1, <1>26, <2>1, NoneTypes
    DEF LoseAnswer, TypeOK, WriterLabels, Goto, chatVars, Mishap
  <2>3. LocalsKnown' /\ RequestsKnown'
    BY <1>1, <1>26, NoneTypes, BatchesAssumption
    DEF LoseAnswer, TypeOK, LocalsKnown, RequestsKnown, Jobs, NoJob, Batches, Requests,
        Goto, chatVars, Mishap
  <2> QED
    BY <2>2, <2>3 DEF TypeInv
<1>27. ASSUME CoolDown PROVE TypeInv'
  <2>1. receipt' \in Receipts
    BY <1>1, <1>27, RevisionType, RevOfType, NoneTypes, BoundsAssumption
    DEF CoolDown, TypeOK, LocalsKnown, Receipts, chatVars, bounds, writerVars
  <2>2. TypeOK'
    BY <1>1, <1>27, <2>1, NoneTypes
    DEF CoolDown, TypeOK, WriterLabels, chatVars, bounds, writerVars
  <2>3. LocalsKnown' /\ RequestsKnown'
    BY <1>1, <1>27, NoneTypes, BatchesAssumption
    DEF CoolDown, TypeOK, LocalsKnown, RequestsKnown, Jobs, NoJob, Batches, Requests,
        chatVars, bounds, writerVars
  <2> QED
    BY <2>2, <2>3 DEF TypeInv
<1>28. ASSUME WriterDies PROVE TypeInv'
  <2>1. job' \in Jobs
    BY <1>1, <1>28, RevisionType, RevOfType, NoneTypes, BoundsAssumption
    DEF WriterDies, TypeOK, LocalsKnown, Jobs, NoJob, Batches, Revisions, Receipts, Finish,
        chatVars, Mishap
  <2>2. TypeOK'
    BY <1>1, <1>28, <2>1, NoneTypes
    DEF WriterDies, TypeOK, WriterLabels, Finish, chatVars, Mishap
  <2>3. LocalsKnown' /\ RequestsKnown'
    BY <1>1, <1>28, NoneTypes, BatchesAssumption
    DEF WriterDies, TypeOK, LocalsKnown, RequestsKnown, Jobs, NoJob, Batches, Requests,
        Finish, chatVars, Mishap
  <2> QED
    BY <2>2, <2>3 DEF TypeInv
<1>29. ASSUME ChatDies PROVE TypeInv'
  <2>1. kb' \in Pointers
    BY <1>1, <1>29, RevisionType, RevOfType, NoneTypes, BoundsAssumption
    DEF ChatDies, TypeOK, LocalsKnown, Requests, Mishap
  <2>2. thread' \in [Threads -> Requests]
    BY <1>1, <1>29, RevisionType, RevOfType, NoneTypes, BoundsAssumption
    DEF ChatDies, TypeOK, LocalsKnown, Requests, ThreadLabels, Mishap
  <2>3. job' \in Jobs
    BY <1>1, <1>29, RevisionType, RevOfType, NoneTypes, BoundsAssumption
    DEF ChatDies, TypeOK, LocalsKnown, Jobs, NoJob, Batches, Revisions, Receipts, Mishap
  <2>4. TypeOK'
    BY <1>1, <1>29, <2>1, <2>2, <2>3, NoneTypes
    DEF ChatDies, TypeOK, WriterLabels, Mishap
  <2>5. LocalsKnown' /\ RequestsKnown'
    BY <1>1, <1>29, NoneTypes, BatchesAssumption
    DEF ChatDies, TypeOK, LocalsKnown, RequestsKnown, Jobs, NoJob, Batches, Requests, Mishap
  <2> QED
    BY <2>4, <2>5 DEF TypeInv
<1>30. ASSUME NEW a \in Articles, Approve(a) PROVE TypeInv'
  <2>1. registry' \in Registries
    BY <1>1, <1>30, RevisionType, RevOfType, NoneTypes, BoundsAssumption
    DEF Approve, TypeOK, LocalsKnown, Registries, chatVars, writerVars, Edit
  <2>2. TypeOK'
    BY <1>1, <1>30, <2>1, NoneTypes
    DEF Approve, TypeOK, WriterLabels, chatVars, writerVars, Edit
  <2>3. LocalsKnown' /\ RequestsKnown'
    BY <1>1, <1>30, NoneTypes, BatchesAssumption
    DEF Approve, TypeOK, LocalsKnown, RequestsKnown, Jobs, NoJob, Batches, Requests,
        chatVars, writerVars, Edit
  <2> QED
    BY <2>2, <2>3 DEF TypeInv
<1>31. ASSUME NEW a \in Articles, Supplement(a) PROVE TypeInv'
  <2>1. registry' \in Registries
    BY <1>1, <1>31, RevisionType, RevOfType, NoneTypes, BoundsAssumption
    DEF Supplement, TypeOK, LocalsKnown, Registries, chatVars, writerVars, Edit
  <2>2. TypeOK'
    BY <1>1, <1>31, <2>1, NoneTypes
    DEF Supplement, TypeOK, WriterLabels, chatVars, writerVars, Edit
  <2>3. LocalsKnown' /\ RequestsKnown'
    BY <1>1, <1>31, NoneTypes, BatchesAssumption
    DEF Supplement, TypeOK, LocalsKnown, RequestsKnown, Jobs, NoJob, Batches, Requests,
        chatVars, writerVars, Edit
  <2> QED
    BY <2>2, <2>3 DEF TypeInv
<1>32. ASSUME NEW a \in Articles, SetVisibility(a) PROVE TypeInv'
  <2>1. registry' \in Registries
    BY <1>1, <1>32, RevisionType, RevOfType, NoneTypes, BoundsAssumption
    DEF SetVisibility, TypeOK, LocalsKnown, Registries, chatVars, writerVars, Edit
  <2>2. TypeOK'
    BY <1>1, <1>32, <2>1, NoneTypes
    DEF SetVisibility, TypeOK, WriterLabels, chatVars, writerVars, Edit
  <2>3. LocalsKnown' /\ RequestsKnown'
    BY <1>1, <1>32, NoneTypes, BatchesAssumption
    DEF SetVisibility, TypeOK, LocalsKnown, RequestsKnown, Jobs, NoJob, Batches, Requests,
        chatVars, writerVars, Edit
  <2> QED
    BY <2>2, <2>3 DEF TypeInv
<1>33. ASSUME NEW b \in Pdfs, RetryPdf(b) PROVE TypeInv'
  <2>1. pdf' \in PdfStatuses
    BY <1>1, <1>33, RevisionType, RevOfType, NoneTypes, BoundsAssumption
    DEF RetryPdf, TypeOK, LocalsKnown, PdfStatuses, PdfStages, chatVars, writerVars
  <2>2. TypeOK'
    BY <1>1, <1>33, <2>1, NoneTypes
    DEF RetryPdf, TypeOK, WriterLabels, chatVars, writerVars
  <2>3. LocalsKnown' /\ RequestsKnown'
    BY <1>1, <1>33, NoneTypes, BatchesAssumption
    DEF RetryPdf, TypeOK, LocalsKnown, RequestsKnown, Jobs, NoJob, Batches, Requests,
        chatVars, writerVars
  <2> QED
    BY <2>2, <2>3 DEF TypeInv
<1>34. ASSUME NEW b \in Webs, RetryWeb(b) PROVE TypeInv'
  <2>1. web' \in WebStatuses
    BY <1>1, <1>34, RevisionType, RevOfType, NoneTypes, BoundsAssumption
    DEF RetryWeb, TypeOK, LocalsKnown, WebStatuses, WebStages, chatVars, writerVars
  <2>2. TypeOK'
    BY <1>1, <1>34, <2>1, NoneTypes
    DEF RetryWeb, TypeOK, WriterLabels, chatVars, writerVars
  <2>3. LocalsKnown' /\ RequestsKnown'
    BY <1>1, <1>34, NoneTypes, BatchesAssumption
    DEF RetryWeb, TypeOK, LocalsKnown, RequestsKnown, Jobs, NoJob, Batches, Requests,
        chatVars, writerVars
  <2> QED
    BY <2>2, <2>3 DEF TypeInv
<1>35. ASSUME NEW t \in Threads, Enter(t) PROVE TypeInv'
  <2>1. thread' \in [Threads -> Requests]
    BY <1>1, <1>35, RevisionType, RevOfType, NoneTypes, BoundsAssumption
    DEF Enter, TypeOK, LocalsKnown, Requests, ThreadLabels, UnchangedByChat, bounds, Reply
  <2>2. job' \in Jobs
    BY <1>1, <1>35, RevisionType, RevOfType, NoneTypes, BoundsAssumption
    DEF Enter, TypeOK, LocalsKnown, Jobs, NoJob, Batches, Revisions, Receipts,
        UnchangedByChat, bounds, Reply
  <2>3. TypeOK'
    BY <1>1, <1>35, <2>1, <2>2, NoneTypes
    DEF Enter, TypeOK, WriterLabels, UnchangedByChat, bounds, Reply
  <2>4. LocalsKnown' /\ RequestsKnown'
    BY <1>1, <1>35, NoneTypes, BatchesAssumption
    DEF Enter, TypeOK, LocalsKnown, RequestsKnown, Jobs, NoJob, Batches, Requests,
        UnchangedByChat, bounds, Reply
  <2> QED
    BY <2>3, <2>4 DEF TypeInv
<1>36. ASSUME NEW t \in Threads, Recheck(t) PROVE TypeInv'
  <2>1. thread' \in [Threads -> Requests]
    BY <1>1, <1>36, RevisionType, RevOfType, NoneTypes, BoundsAssumption
    DEF Recheck, TypeOK, LocalsKnown, Requests, ThreadLabels, UnchangedByChat, bounds, Reply
  <2>2. job' \in Jobs
    BY <1>1, <1>36, RevisionType, RevOfType, NoneTypes, BoundsAssumption
    DEF Recheck, TypeOK, LocalsKnown, Jobs, NoJob, Batches, Revisions, Receipts,
        UnchangedByChat, bounds, Reply
  <2>3. TypeOK'
    BY <1>1, <1>36, <2>1, <2>2, NoneTypes
    DEF Recheck, TypeOK, WriterLabels, UnchangedByChat, bounds, Reply
  <2>4. LocalsKnown' /\ RequestsKnown'
    BY <1>1, <1>36, NoneTypes, BatchesAssumption
    DEF Recheck, TypeOK, LocalsKnown, RequestsKnown, Jobs, NoJob, Batches, Requests,
        UnchangedByChat, bounds, Reply
  <2> QED
    BY <2>3, <2>4 DEF TypeInv
<1>37. ASSUME NEW t \in Threads, RecheckRevision(t) PROVE TypeInv'
  <2>1. thread' \in [Threads -> Requests]
    BY <1>1, <1>37, RevisionType, RevOfType, NoneTypes, BoundsAssumption
    DEF RecheckRevision, TypeOK, LocalsKnown, Requests, ThreadLabels, UnchangedByChat,
        bounds, Reply
  <2>2. job' \in Jobs
    BY <1>1, <1>37, RevisionType, RevOfType, NoneTypes, BoundsAssumption
    DEF RecheckRevision, TypeOK, LocalsKnown, Jobs, NoJob, Batches, Revisions, Receipts,
        UnchangedByChat, bounds, Reply
  <2>3. TypeOK'
    BY <1>1, <1>37, <2>1, <2>2, NoneTypes
    DEF RecheckRevision, TypeOK, WriterLabels, UnchangedByChat, bounds, Reply
  <2>4. LocalsKnown' /\ RequestsKnown'
    BY <1>1, <1>37, NoneTypes, BatchesAssumption
    DEF RecheckRevision, TypeOK, LocalsKnown, RequestsKnown, Jobs, NoJob, Batches, Requests,
        UnchangedByChat, bounds, Reply
  <2> QED
    BY <2>3, <2>4 DEF TypeInv
<1>38. ASSUME NEW t \in Threads, Switch(t) PROVE TypeInv'
  <2>1. kb' \in Pointers
    BY <1>1, <1>38, RevisionType, RevOfType, NoneTypes, BoundsAssumption
    DEF Switch, TypeOK, LocalsKnown, Requests, UnchangedByChat, bounds, Reply
  <2>2. thread' \in [Threads -> Requests]
    BY <1>1, <1>38, RevisionType, RevOfType, NoneTypes, BoundsAssumption
    DEF Switch, TypeOK, LocalsKnown, Requests, ThreadLabels, UnchangedByChat, bounds, Reply
  <2>3. TypeOK'
    BY <1>1, <1>38, <2>1, <2>2, NoneTypes
    DEF Switch, TypeOK, WriterLabels, UnchangedByChat, bounds, Reply
  <2>4. LocalsKnown' /\ RequestsKnown'
    BY <1>1, <1>38, NoneTypes, BatchesAssumption
    DEF Switch, TypeOK, LocalsKnown, RequestsKnown, Jobs, NoJob, Batches, Requests,
        UnchangedByChat, bounds, Reply
  <2> QED
    BY <2>3, <2>4 DEF TypeInv
<1>39. ASSUME NEW t \in Threads, Commit(t) PROVE TypeInv'
  <2>1. active' \in Pointers
    BY <1>1, <1>39, RevisionType, RevOfType, NoneTypes, BoundsAssumption
    DEF Commit, TypeOK, LocalsKnown, Requests, UnchangedByChat, bounds, Mishap, Reply
  <2>2. thread' \in [Threads -> Requests]
    BY <1>1, <1>39, RevisionType, RevOfType, NoneTypes, BoundsAssumption
    DEF Commit, TypeOK, LocalsKnown, Requests, ThreadLabels, UnchangedByChat, bounds,
        Mishap, Reply
  <2>3. TypeOK'
    BY <1>1, <1>39, <2>1, <2>2, NoneTypes
    DEF Commit, TypeOK, WriterLabels, UnchangedByChat, bounds, Mishap, Reply
  <2>4. LocalsKnown' /\ RequestsKnown'
    BY <1>1, <1>39, NoneTypes, BatchesAssumption
    DEF Commit, TypeOK, LocalsKnown, RequestsKnown, Jobs, NoJob, Batches, Requests,
        UnchangedByChat, bounds, Mishap, Reply
  <2> QED
    BY <2>3, <2>4 DEF TypeInv
<1>40. ASSUME NEW t \in Threads, Unlink(t) PROVE TypeInv'
  <2>1. pending' \in Pointers
    BY <1>1, <1>40, RevisionType, RevOfType, NoneTypes, BoundsAssumption
    DEF Unlink, TypeOK, LocalsKnown, UnchangedByChat, bounds, Reply
  <2>2. thread' \in [Threads -> Requests]
    BY <1>1, <1>40, RevisionType, RevOfType, NoneTypes, BoundsAssumption
    DEF Unlink, TypeOK, LocalsKnown, Requests, ThreadLabels, UnchangedByChat, bounds, Reply
  <2>3. job' \in Jobs
    BY <1>1, <1>40, RevisionType, RevOfType, NoneTypes, BoundsAssumption
    DEF Unlink, TypeOK, LocalsKnown, Jobs, NoJob, Batches, Revisions, Receipts,
        UnchangedByChat, bounds, Reply
  <2>4. TypeOK'
    BY <1>1, <1>40, <2>1, <2>2, <2>3, NoneTypes
    DEF Unlink, TypeOK, WriterLabels, UnchangedByChat, bounds, Reply
  <2>5. LocalsKnown' /\ RequestsKnown'
    BY <1>1, <1>40, NoneTypes, BatchesAssumption
    DEF Unlink, TypeOK, LocalsKnown, RequestsKnown, Jobs, NoJob, Batches, Requests,
        UnchangedByChat, bounds, Reply
  <2> QED
    BY <2>4, <2>5 DEF TypeInv
<1>41. ASSUME NEW t \in Threads, CommitFails(t) PROVE TypeInv'
  <2>1. active' \in Pointers
    BY <1>1, <1>41, RevisionType, RevOfType, NoneTypes, BoundsAssumption
    DEF CommitFails, TypeOK, LocalsKnown, Requests, UnchangedByChat, bounds, Mishap, Reply
  <2>2. kb' \in Pointers
    BY <1>1, <1>41, RevisionType, RevOfType, NoneTypes, BoundsAssumption
    DEF CommitFails, TypeOK, LocalsKnown, Requests, UnchangedByChat, bounds, Mishap, Reply
  <2>3. thread' \in [Threads -> Requests]
    BY <1>1, <1>41, RevisionType, RevOfType, NoneTypes, BoundsAssumption
    DEF CommitFails, TypeOK, LocalsKnown, Requests, ThreadLabels, UnchangedByChat, bounds,
        Mishap, Reply
  <2>4. job' \in Jobs
    BY <1>1, <1>41, RevisionType, RevOfType, NoneTypes, BoundsAssumption
    DEF CommitFails, TypeOK, LocalsKnown, Jobs, NoJob, Batches, Revisions, Receipts,
        UnchangedByChat, bounds, Mishap, Reply
  <2>5. TypeOK'
    BY <1>1, <1>41, <2>1, <2>2, <2>3, <2>4, NoneTypes
    DEF CommitFails, TypeOK, WriterLabels, UnchangedByChat, bounds, Mishap, Reply
  <2>6. LocalsKnown' /\ RequestsKnown'
    BY <1>1, <1>41, NoneTypes, BatchesAssumption
    DEF CommitFails, TypeOK, LocalsKnown, RequestsKnown, Jobs, NoJob, Batches, Requests,
        UnchangedByChat, bounds, Mishap, Reply
  <2> QED
    BY <2>5, <2>6 DEF TypeInv
<1>42. CASE WriterStep \/ WriterFault \/ CoolDown \/ WriterDies \/ ChatDies
  BY <1>42, <1>2, <1>3, <1>4, <1>5, <1>6, <1>7, <1>8, <1>9, <1>10, <1>11, <1>12, <1>13, <1>14, <1>15,
     <1>16, <1>17, <1>18, <1>19, <1>20, <1>21, <1>22, <1>23, <1>24, <1>25, <1>26, <1>27,
     <1>28, <1>29
  DEF WriterStep, WriterFault
<1>43. CASE Reviewer \/ Operator
  BY <1>43, <1>30, <1>31, <1>32, <1>33, <1>34 DEF Reviewer, Operator
<1>44. CASE \E t \in Threads : HandlerStep(t) \/ CommitFails(t)
  BY <1>44, <1>35, <1>36, <1>37, <1>38, <1>39, <1>40, <1>41 DEF HandlerStep
<1> QED
  BY <1>42, <1>43, <1>44 DEF Next

LEMMA TypeKept == TypeInv /\ [Next]_vars => TypeInv'
<1>1. CASE UNCHANGED vars
  BY <1>1 DEF TypeInv, TypeOK, LocalsKnown, RequestsKnown, vars, chatVars, writerVars, bounds
<1> QED
  BY <1>1, TypeStep

\* The queue files, the writer's locals and the Chat process keep their types.
THEOREM TypeCorrect == Spec => []TypeOK
<1>1. TypeInv => TypeOK
  BY DEF TypeInv
<1> QED
  BY InitTypeInv, TypeKept, <1>1, PTL DEF Spec

(* ------------------------- agreement and order ------------------------- *)

Locked == {"loading", "revision", "switch", "commit", "unlink"}

\* Only the thread that holds _RELOAD_LOCK is past the first check.
LockHeld == \A t \in Threads : thread[t].at \in Locked => lock = t

\* Memory and active.json differ in one place only, and the thread there knows both.
Agreement ==
    /\ lock = None => kb = active
    /\ \A t \in Threads :
          /\ thread[t].at \in Locked \ {"commit"} => kb = active
          /\ thread[t].at = "commit" => thread[t].before = active /\ kb = thread[t].meta

\* What is active was public, and what a thread has checked against the Registry is
\* between the two.
Order ==
    /\ \A a \in Articles : /\ VersionIn(active, a) <= registry[a].published
                           /\ registry[a].published <= registry[a].latest
    /\ \A t \in Threads :
          /\ thread[t].at \in {"loading", "revision", "switch", "commit"} => thread[t].meta # None
          /\ thread[t].at \in {"switch", "commit"} =>
                \A a \in Articles : /\ VersionIn(active, a) <= VersionIn(thread[t].meta, a)
                                    /\ VersionIn(thread[t].meta, a) <= registry[a].published

ChatInv == LockHeld /\ Agreement /\ Order

LEMMA VersionInType ==
    ASSUME NEW gen \in Pointers, NEW a \in Articles
    PROVE  VersionIn(gen, a) \in Nat
BY BoundsAssumption DEF VersionIn, Pointers, Generations, PublicRevisions

LEMMA InitChatInv == Init => ChatInv
<1> SUFFICES ASSUME Init PROVE ChatInv
    OBVIOUS
<1>1. \A t \in Threads : thread[t].at = "idle"
  BY NoneTypes DEF Init
<1>2. \A a \in Articles : /\ VersionIn(active, a) <= registry[a].published
                          /\ registry[a].published <= registry[a].latest
  BY BatchesAssumption DEF Init, VersionIn
<1> QED
  BY <1>1, <1>2 DEF ChatInv, LockHeld, Agreement, Order, Locked, Init

\* What a step outside the reload handler leaves alone.
Quiet ==
    /\ UNCHANGED <<active, kb, lock>>
    /\ \A t \in Threads : thread'[t] = thread[t] \/ thread'[t].at = "called"
    /\ \A a \in Articles : /\ registry[a].published <= registry'[a].published
                           /\ registry'[a].published <= registry'[a].latest

LEMMA QuietStep ==
    ASSUME TypeOK, TypeOK', ChatInv, Quiet
    PROVE  ChatInv' /\ \A a \in Articles : VersionIn(active, a) <= VersionIn(active', a)
<1>1. \A a \in Articles : /\ registry[a].published \in Nat /\ registry'[a].published \in Nat
                          /\ VersionIn(active, a) \in Nat
                          /\ \A t \in Threads : VersionIn(thread[t].meta, a) \in Nat
  BY VersionInType, BoundsAssumption DEF TypeOK, Registries, Requests
<1>2. LockHeld' /\ Agreement'
  BY DEF Quiet, ChatInv, LockHeld, Agreement, Locked
<1>3. active' = active
  BY DEF Quiet
<1>4. \A a \in Articles : /\ VersionIn(active', a) <= registry'[a].published
                          /\ registry'[a].published <= registry'[a].latest
  BY <1>1, <1>3 DEF Quiet, ChatInv, Order
<1>5. ASSUME NEW t \in Threads,
             thread'[t].at \in {"loading", "revision", "switch", "commit"}
      PROVE  /\ thread'[t].meta # None
             /\ thread'[t].at \in {"switch", "commit"} =>
                   \A a \in Articles : /\ VersionIn(active', a) <= VersionIn(thread'[t].meta, a)
                                       /\ VersionIn(thread'[t].meta, a) <= registry'[a].published
  <2>1. thread'[t] = thread[t]
    BY <1>5 DEF Quiet
  <2> QED
    BY <1>1, <1>3, <1>5, <2>1 DEF Quiet, ChatInv, Order
<1>6. Order'
  BY <1>4, <1>5 DEF Order
<1> QED
  BY <1>1, <1>2, <1>3, <1>6 DEF ChatInv

LEMMA CallIsQuiet ==
    ASSUME NEW gen, Call(gen), thread \in [Threads -> Requests]
    PROVE  \A t \in Threads : thread'[t] = thread[t] \/ thread'[t].at = "called"
<1> DEFINE idle == {u \in Threads : thread[u].at = "idle"}
           c == CHOOSE u \in idle : TRUE
           r == [NoRequest EXCEPT !.at = "called", !.gen = gen.id]
<1>1. thread' = [thread EXCEPT ![c] = r]
  BY DEF Call
<1>2. r.at = "called"
  BY DEF NoRequest
<1> HIDE DEF c, r
<1> QED
  BY <1>1, <1>2

LEMMA RegistryMoves ==
    ASSUME TypeOK, ChatInv, PdfImport \/ Reviewer
    PROVE  \A a \in Articles : /\ registry[a].published <= registry'[a].published
                               /\ registry'[a].published <= registry'[a].latest
<1>1. \A a \in Articles : /\ registry[a].published \in Nat /\ registry[a].latest \in Nat
                          /\ registry[a].published <= registry[a].latest
  BY BoundsAssumption DEF TypeOK, Registries, ChatInv, Order
<1>2. CASE PdfImport
  BY <1>1, <1>2 DEF PdfImport, Persisted, TypeOK, Registries
<1>3. ASSUME NEW b \in Articles, Approve(b) \/ Supplement(b) \/ SetVisibility(b)
      PROVE  \A a \in Articles : /\ registry[a].published <= registry'[a].published
                                 /\ registry'[a].published <= registry'[a].latest
  BY <1>1, <1>3 DEF Approve, Supplement, SetVisibility, Edit, TypeOK, Registries
<1> QED
  BY <1>2, <1>3 DEF Reviewer

LEMMA OthersAreQuiet ==
    ASSUME TypeOK, ChatInv,
           WriterStep \/ WriterFault \/ CoolDown \/ WriterDies \/ Reviewer \/ Operator
    PROVE  Quiet
<1>1. \A a \in Articles : registry[a].published \in Nat /\ registry[a].published <= registry[a].latest
  BY BoundsAssumption DEF TypeOK, Registries, ChatInv, Order
<1>2. CASE Activate \/ WebActivate
  <2>1. UNCHANGED <<active, kb, lock, registry>>
    BY <1>2 DEF Activate, WebActivate, Call, chatVars
  <2>2. \A t \in Threads : thread'[t] = thread[t] \/ thread'[t].at = "called"
    BY <1>2, CallIsQuiet DEF Activate, WebActivate, TypeOK, chatVars
  <2> QED
    BY <1>1, <2>1, <2>2 DEF Quiet
<1>3. CASE PdfImport \/ Reviewer
  <2>1. UNCHANGED <<active, kb, lock, thread>>
    BY <1>3 DEF PdfImport, UnchangedByWriter, chatVars, Reviewer, Approve, Supplement, SetVisibility, Edit
  <2> QED
    BY <1>3, <2>1, RegistryMoves DEF Quiet
<1>4. CASE \/ Poll \/ PdfBegin \/ PdfImported \/ PdfRevision \/ PdfPending \/ PdfFinish
           \/ Refresh \/ Prepare \/ Build \/ Answered \/ Withdraw \/ Verify \/ WriteReceipt
           \/ WebBegin \/ WebClearRetry \/ WebCheck \/ WebBuild \/ WebFinish
  <2>1. UNCHANGED <<active, chatVars, registry>>
    BY <1>4 DEF Poll, PdfBegin, PdfImported, PdfRevision, PdfPending, PdfFinish, Refresh, Prepare,
       Build, Answered, Withdraw, Verify, WriteReceipt, WebBegin, WebClearRetry, WebCheck, WebBuild,
       WebFinish, UnchangedByWriter
  <2> QED
    BY <1>1, <2>1 DEF Quiet, chatVars
<1>5. CASE WriterFault \/ CoolDown \/ WriterDies \/ Operator
  <2>1. UNCHANGED <<active, chatVars, registry>>
    BY <1>5 DEF WriterFault, PdfImportFails, BuildFails, WebBuildFails, LoseAnswer, CoolDown, WriterDies,
       Operator, RetryPdf, RetryWeb
  <2> QED
    BY <1>1, <2>1 DEF Quiet, chatVars
<1> QED
  BY <1>2, <1>3, <1>4, <1>5 DEF WriterStep

Safe == ChatInv' /\ \A a \in Articles : VersionIn(active, a) <= VersionIn(active', a)

\* A request that is answered leaves the lock, where Chat and active.json agree.
LEMMA ReplyIsSafe ==
    ASSUME TypeOK, TypeOK', ChatInv, NEW t \in Threads, NEW answer, Reply(t, answer),
           lock = None \/ lock = t, kb' = active', UNCHANGED registry,
           \A a \in Articles : /\ VersionIn(active, a) <= VersionIn(active', a)
                               /\ VersionIn(active', a) <= registry[a].published
    PROVE  Safe
<1>1. /\ lock' = None /\ thread'[t].at = "idle"
      /\ \A u \in Threads \ {t} : thread'[u] = thread[u] /\ thread[u].at \notin Locked
  BY NoneTypes, BatchesAssumption DEF Reply, TypeOK, ChatInv, LockHeld
<1>2. \A u \in Threads : thread'[u].at \notin Locked
  BY <1>1 DEF Locked
<1>3. LockHeld' /\ Agreement'
  BY <1>1, <1>2 DEF LockHeld, Agreement, Locked
<1>4. Order'
  BY <1>2 DEF Order, Locked, ChatInv
<1> QED
  BY <1>3, <1>4 DEF Safe, ChatInv

\* A step of the thread that holds the lock, or takes it, which stays inside.
LEMMA HolderIsSafe ==
    ASSUME TypeOK, TypeOK', ChatInv, NEW t \in Threads, lock = None \/ lock = t, lock' = t,
           UNCHANGED registry,
           thread'[t].at \in Locked,
           \A u \in Threads \ {t} : thread'[u] = thread[u],
           IF thread'[t].at = "commit"
           THEN thread'[t].before = active' /\ kb' = thread'[t].meta
           ELSE kb' = active',
           thread'[t].at \in {"loading", "revision", "switch", "commit"} => thread'[t].meta # None,
           thread'[t].at \in {"switch", "commit"} =>
                \A a \in Articles : /\ VersionIn(active', a) <= VersionIn(thread'[t].meta, a)
                                    /\ VersionIn(thread'[t].meta, a) <= registry[a].published,
           \A a \in Articles : /\ VersionIn(active, a) <= VersionIn(active', a)
                               /\ VersionIn(active', a) <= registry[a].published
    PROVE  Safe
<1>1. \A u \in Threads \ {t} : thread'[u].at \notin Locked
  BY BatchesAssumption DEF ChatInv, LockHeld
<1>2. LockHeld'
  BY <1>1 DEF LockHeld
<1>3. Agreement'
  BY <1>1, BatchesAssumption DEF Agreement, Locked
<1>4. Order'
  BY <1>1 DEF Order, Locked, ChatInv
<1> QED
  BY <1>2, <1>3, <1>4 DEF Safe, ChatInv

LEMMA HandlerIsSafe ==
    ASSUME TypeInv, TypeOK', ChatInv, NEW t \in Threads, HandlerStep(t) \/ CommitFails(t)
    PROVE  Safe
<1>1. /\ \A a \in Articles : /\ registry[a].published \in Nat
                             /\ VersionIn(active, a) \in Nat
                             /\ VersionIn(thread[t].meta, a) \in Nat
                             /\ VersionIn(active, a) <= registry[a].published
      /\ TypeOK /\ thread \in [Threads -> Requests] /\ UNCHANGED registry
  BY VersionInType, BoundsAssumption
  DEF TypeInv, TypeOK, Registries, Requests, ChatInv, Order, HandlerStep, Enter, Recheck,
      RecheckRevision, Switch, Commit, CommitFails, Unlink, UnchangedByChat
<1>2. thread[t].at \in Locked => lock = t
  BY DEF ChatInv, LockHeld
<1>3. ASSUME UNCHANGED <<active, kb>>, kb = active, lock = None \/ lock = t,
             \E answer : Reply(t, answer)
      PROVE  Safe
  BY <1>1, <1>3, ReplyIsSafe
<1>4. CASE Enter(t)
  <2>1. kb = active /\ lock = None /\ UNCHANGED <<active, kb>>
    BY <1>4 DEF Enter, ChatInv, Agreement
  <2>2. CASE \E answer : Reply(t, answer)
    BY <1>3, <2>1, <2>2
  <2>3. CASE /\ IdOf(pending) = thread[t].gen /\ lock' = t
             /\ thread' = [thread EXCEPT ![t].at = "loading", ![t].meta = pending]
    <3>1. pending # None
      BY <1>4, <2>3 DEF Enter, TypeInv, RequestsKnown, IdOf
    <3>2. /\ thread'[t].at = "loading" /\ thread'[t].meta = pending
          /\ \A u \in Threads \ {t} : thread'[u] = thread[u]
      BY <1>1, <2>3 DEF Requests
    <3> QED
      BY <1>1, <2>1, <2>3, <3>1, <3>2, HolderIsSafe DEF Locked
  <2> QED
    BY <1>4, <2>2, <2>3 DEF Enter
<1>5. CASE Recheck(t) \/ RecheckRevision(t)
  <2>1. /\ kb = active /\ lock = t /\ UNCHANGED <<active, kb>>
        /\ thread[t].at \in {"loading", "revision"} /\ thread[t].meta # None
    BY <1>2, <1>5 DEF Recheck, RecheckRevision, ChatInv, Agreement, Order, Locked
  <2>2. CASE \E answer : Reply(t, answer)
    BY <1>3, <2>1, <2>2
  <2>3. CASE thread' = [thread EXCEPT ![t].at = "revision"] /\ UNCHANGED lock
    <3>1. /\ thread'[t].at = "revision" /\ thread'[t].meta = thread[t].meta
          /\ \A u \in Threads \ {t} : thread'[u] = thread[u]
      BY <1>1, <2>3 DEF Requests
    <3> QED
      BY <1>1, <2>1, <2>3, <3>1, HolderIsSafe DEF Locked
  <2>4. CASE /\ thread' = [thread EXCEPT ![t].at = "switch"] /\ UNCHANGED lock
             /\ Revision(registry) = thread[t].meta.rev
    <3>1. /\ thread'[t].at = "switch" /\ thread'[t].meta = thread[t].meta
          /\ \A u \in Threads \ {t} : thread'[u] = thread[u]
      BY <1>1, <2>4 DEF Requests
    <3>2. \A a \in Articles : VersionIn(thread[t].meta, a) = registry[a].published
      BY <1>1, <2>1, <2>4 DEF VersionIn, Revision, Published, Unpublished
    <3> QED
      BY <1>1, <2>1, <2>4, <3>1, <3>2, HolderIsSafe DEF Locked
  <2> QED
    BY <1>5, <2>2, <2>3, <2>4 DEF Recheck, RecheckRevision
<1>6. CASE Switch(t)
  <2>1. kb = active /\ lock = t /\ thread[t].at = "switch" /\ thread[t].meta # None
    BY <1>2, <1>6 DEF Switch, ChatInv, Agreement, Order, Locked
  <2>2. /\ thread'[t].at = "commit" /\ thread'[t].meta = thread[t].meta /\ thread'[t].before = kb
        /\ \A u \in Threads \ {t} : thread'[u] = thread[u]
    BY <1>1, <1>6 DEF Switch, Requests
  <2>3. lock' = t /\ active' = active /\ kb' = thread[t].meta
    BY <1>6, <2>1 DEF Switch
  <2>4. \A a \in Articles : /\ VersionIn(active, a) <= VersionIn(thread[t].meta, a)
                            /\ VersionIn(thread[t].meta, a) <= registry[a].published
    BY <2>1 DEF ChatInv, Order
  <2> QED
    BY <1>1, <2>1, <2>2, <2>3, <2>4, HolderIsSafe DEF Locked
<1>7. ASSUME thread[t].at = "commit"
      PROVE  /\ lock = t /\ thread[t].before = active /\ kb = thread[t].meta
             /\ \A a \in Articles : /\ VersionIn(active, a) <= VersionIn(thread[t].meta, a)
                                    /\ VersionIn(thread[t].meta, a) <= registry[a].published
  BY <1>2, <1>7 DEF ChatInv, Agreement, Order, Locked
<1>8. CASE Commit(t)
  <2>1. thread[t].at = "commit" /\ lock' = lock /\ active' = thread[t].meta /\ kb' = kb
    BY <1>8 DEF Commit
  <2>2. thread'[t].at = "unlink" /\ \A u \in Threads \ {t} : thread'[u] = thread[u]
    BY <1>1, <1>8 DEF Commit, Requests
  <2> QED
    BY <1>1, <1>7, <2>1, <2>2, HolderIsSafe DEF Locked
<1>9. CASE CommitFails(t)
  <2>1. /\ thread[t].at = "commit" /\ active' \in {active, thread[t].meta}
        /\ kb' = IF active' = thread[t].meta THEN kb ELSE thread[t].before
        /\ Reply(t, "error")
    BY <1>9 DEF CommitFails
  <2>2. kb' = active'
    BY <1>7, <2>1
  <2> QED
    BY <1>1, <1>7, <2>1, <2>2, ReplyIsSafe
<1>10. CASE Unlink(t)
  BY <1>2, <1>3, <1>10 DEF Unlink, ChatInv, Agreement, Locked
<1> QED
  BY <1>4, <1>5, <1>6, <1>8, <1>9, <1>10 DEF HandlerStep

\* Every step keeps the invariant, and no step takes Chat back to an older version.
LEMMA StepIsSafe == ASSUME TypeInv, TypeOK', ChatInv, [Next]_vars PROVE Safe
<1>1. CASE WriterStep \/ WriterFault \/ CoolDown \/ WriterDies \/ Reviewer \/ Operator
  BY <1>1, OthersAreQuiet, QuietStep DEF TypeInv, Safe
<1>2. CASE \E t \in Threads : HandlerStep(t) \/ CommitFails(t)
  BY <1>2, HandlerIsSafe
<1>3. \A a \in Articles : /\ registry[a].published \in Nat /\ registry[a].latest \in Nat
                          /\ registry[a].published <= registry[a].latest
                          /\ VersionIn(active, a) \in Nat
  BY VersionInType, BoundsAssumption DEF TypeInv, TypeOK, Registries, ChatInv, Order
<1>4. CASE UNCHANGED vars
  BY <1>3, <1>4, QuietStep DEF TypeInv, Quiet, Safe, vars, chatVars
<1>5. CASE ChatDies
  <2>1. /\ UNCHANGED <<active, registry>> /\ kb' = active /\ lock' = None
        /\ \A t \in Threads : thread'[t].at = "idle"
    BY <1>5, NoneTypes DEF ChatDies
  <2>2. LockHeld' /\ Agreement' /\ Order'
    BY <1>3, <2>1 DEF LockHeld, Agreement, Order, Locked, ChatInv
  <2> QED
    BY <1>3, <2>1, <2>2 DEF Safe, ChatInv
<1> QED
  BY <1>1, <1>2, <1>4, <1>5 DEF Next

\* Outside a reload, Chat answers from exactly the generation active.json names,
\* whatever dies, fails or is given up on (reload_wiki).
THEOREM MemoryAndDiskAgree == Spec => []ChatServesActive
<1>1. TypeInv /\ ChatInv /\ [Next]_vars => TypeInv' /\ ChatInv'
  <2>1. TypeInv /\ [Next]_vars => TypeInv'
    BY TypeKept
  <2> QED
    BY <2>1, StepIsSafe DEF TypeInv, Safe
<1>2. ChatInv => ChatServesActive
  BY DEF ChatInv, Agreement, ChatServesActive
<1> QED
  BY InitTypeInv, InitChatInv, <1>1, <1>2, PTL DEF Spec

\* No article goes back to an older approved version in Chat, whichever reload request
\* arrives late.
THEOREM NeverAnOlderVersion == Spec => NeverOlder
<1>1. TypeInv /\ ChatInv /\ [Next]_vars => TypeInv' /\ ChatInv'
  <2>1. TypeInv /\ [Next]_vars => TypeInv'
    BY TypeKept
  <2> QED
    BY <2>1, StepIsSafe DEF TypeInv, Safe
<1>2. TypeInv /\ ChatInv /\ [Next]_vars
        => \A a \in Articles : VersionIn(active, a) <= VersionIn(active', a)
  <2>1. TypeInv /\ [Next]_vars => TypeInv'
    BY TypeKept
  <2> QED
    BY <2>1, StepIsSafe DEF TypeInv, Safe
<1> QED
  BY InitTypeInv, InitChatInv, <1>1, <1>2, PTL DEF Spec, NeverOlder

(* ------------------------- identity of generations --------------------- *)

\* The generations that a file, the writer or a request names.
Named == {active, pending, receipt.prepared, job.gen} \cup {thread[t].meta : t \in Threads}

\* An id names one generation, and the next one is new.
OneOfEach ==
    \A g \in Named : g # None =>
        /\ g.id <= built
        /\ \A h \in Named : h # None /\ h.id = g.id => h = g

(* ------------------------- what is recorded ---------------------------- *)

\* What the writer knows when it records an activation: an answer counts only
\* behind a reload, and everything of a web job was public when it was built.
Confirmed ==
    /\ job.ok => pc \in {"withdraw", "verify", "receipt", "web_finish"}
    /\ pc = "receipt" /\ job.ok => active # None
    /\ pc = "web_build" => \A a \in ArticlesOf[job.batch] : registry[a].published > 0
    /\ pc \in {"web_activate", "wait", "withdraw", "verify"} /\ job.batch \in Webs
          => \A a \in ArticlesOf[job.batch] : job.gen.rev[a].version > 0
    /\ pc = "web_finish" /\ job.ok
          => \A a \in ArticlesOf[job.batch] : VersionIn(active, a) > 0

\* While it works on a PDF batch the writer knows the revision it read at first.
InBatch ==
    \/ pc \in {"pdf_pending", "pdf_finish"}
    \/ /\ pc \in {"refresh", "prepare", "build", "activate", "wait", "withdraw", "verify", "receipt"}
       /\ job.batch \in Pdfs
RevRead == InBatch => job.rev \in PublicRevisions

\* What is recorded as ready names a revision.
ReceiptNames == /\ receipt.ready => receipt.rev # None
                /\ \A b \in Pdfs : pdf[b].ready => pdf[b].target # None

Records == OneOfEach /\ Confirmed /\ RevRead /\ ReceiptNames /\ ReceiptHolds

\* Where a step that builds nothing takes generations from.
MovesNames ==
    /\ active' = active \/ \E t \in Threads : active' = thread[t].meta
    /\ pending' \in {pending, job.gen, None}
    /\ receipt'.prepared = receipt.prepared
    /\ job'.gen \in {job.gen, receipt.prepared, None}
    /\ \A t \in Threads : thread'[t].meta \in {thread[t].meta, pending, None}
    /\ built' = built

LEMMA MovedNames == OneOfEach /\ MovesNames => OneOfEach'
<1> SUFFICES ASSUME OneOfEach, MovesNames PROVE OneOfEach'
  OBVIOUS
<1>1. Named' \subseteq Named \cup {None}
  BY DEF MovesNames, Named
<1>2. built' = built
  BY DEF MovesNames
<1> QED BY <1>1, <1>2 DEF OneOfEach

LEMMA NewName ==
    ASSUME TypeOK, OneOfEach, NEW gen \in Generations, gen.id = built + 1, built' = built + 1,
           Named' \subseteq Named \cup {gen}
    PROVE  OneOfEach'
<1>1. ASSUME NEW g \in Named, g # None PROVE g.id \in Nat /\ g.id <= built
  <2>1. g \in Generations
    BY <1>1 DEF Named, TypeOK, Receipts, Jobs, Requests, Pointers
  <2> QED BY <1>1, <2>1 DEF OneOfEach, Generations
<1>2. built \in Nat
  BY DEF TypeOK
<1>3. \A g \in Named : g # None => g.id # gen.id /\ g.id <= built'
  BY <1>1, <1>2
<1> QED BY <1>2, <1>3 DEF OneOfEach

LEMMA CallMovesNames ==
    ASSUME TypeOK, Call(job.gen)
    PROVE  /\ pending' = job.gen /\ job'.gen = job.gen
           /\ \A t \in Threads : thread'[t].meta \in {thread[t].meta, None}
           /\ job'.batch = job.batch /\ job'.ok = job.ok /\ pc' = "wait"
<1> DEFINE idle == {u \in Threads : thread[u].at = "idle"}
           c == CHOOSE u \in idle : TRUE
           r == [NoRequest EXCEPT !.at = "called", !.gen = job.gen.id]
<1>1. /\ thread' = [thread EXCEPT ![c] = r] /\ pending' = job.gen
      /\ job' = [job EXCEPT !.call = c, !.answer = None] /\ pc' = "wait"
  BY DEF Call, Goto
<1>2. r.meta = None
  BY DEF NoRequest
<1> HIDE DEF c, r
<1> QED BY <1>1, <1>2 DEF TypeOK, Jobs

LEMMA FinishForgets ==
    ASSUME Finish
    PROVE  job'.gen = None /\ job'.ok = FALSE /\ pc' = "idle"
BY DEF Finish, NoJob

LEMMA ReturnForgets ==
    ASSUME Return
    PROVE  job'.gen = None /\ job'.ok = FALSE /\ pc' \in {"idle", "pdf_finish"}
<1>1. CASE job.batch = None
  BY <1>1, FinishForgets DEF Return
<1>2. CASE job.batch # None
  <2>1. /\ pc' = "pdf_finish"
        /\ job' = [NoJob EXCEPT !.batch = job.batch, !.rev = job.rev, !.pend = job.pend]
    BY <1>2 DEF Return, Goto
  <2> QED BY <2>1 DEF NoJob
<1> QED BY <1>1, <1>2

LEMMA WriterMovesNames ==
    ASSUME TypeOK, LocalsKnown, WriterStep \/ WriterFault \/ WriterDies, ~Build, ~WebBuild
    PROVE  MovesNames
<1>1. job \in Jobs /\ receipt \in Receipts
  BY DEF TypeOK
<1>2. CASE Activate \/ WebActivate
  BY <1>2, CallMovesNames DEF Activate, WebActivate, MovesNames, bounds, chatVars
<1>3. CASE Poll \/ PdfBegin \/ PdfImport \/ PdfImported \/ PdfRevision \/ PdfPending \/ PdfFinish
  BY <1>1, <1>3 DEF Poll, PdfBegin, PdfImport, PdfImported, PdfRevision, PdfPending, PdfFinish,
     Jobs, NoJob, Finish, UnchangedByWriter, chatVars, MovesNames
<1>4. CASE Refresh
  <2>1. job'.gen \in {job.gen, None}
    <3>1. \/ Return
          \/ job' = [job EXCEPT !.seen = Revision(registry), !.ok = TRUE]
          \/ job' = [job EXCEPT !.seen = Revision(registry)]
      BY <1>4 DEF Refresh
    <3> QED BY <1>1, <3>1, ReturnForgets DEF Jobs
  <2>2. UNCHANGED <<active, pending, receipt, thread, built>>
    BY <1>4 DEF Refresh, UnchangedByWriter, chatVars
  <2> QED BY <2>1, <2>2 DEF MovesNames
<1>5. CASE WriteReceipt
  <2>1. receipt'.prepared = receipt.prepared /\ UNCHANGED <<active, pending, thread, built>> /\ Return
    BY <1>5 DEF WriteReceipt, UnchangedByWriter, chatVars
  <2> QED BY <2>1, ReturnForgets DEF MovesNames
<1>6. CASE Prepare \/ Answered \/ Withdraw \/ Verify
  BY <1>1, <1>6 DEF Prepare, Answered, Withdraw, Verify, Jobs, UnchangedByWriter, chatVars, MovesNames
<1>7. CASE WebBegin \/ WebClearRetry \/ WebCheck \/ WebFinish
  BY <1>7 DEF WebBegin, WebClearRetry, WebCheck, WebFinish, Finish, NoJob, UnchangedByWriter,
     chatVars, MovesNames
<1>8. CASE WriterFault \/ WriterDies
  <2>1. CASE PdfImportFails \/ WebBuildFails \/ WriterDies
    BY <2>1, FinishForgets DEF PdfImportFails, WebBuildFails, WriterDies, chatVars, MovesNames
  <2>2. CASE BuildFails \/ LoseAnswer
    BY <1>1, <2>2 DEF BuildFails, LoseAnswer, Jobs, chatVars, MovesNames
  <2> QED BY <1>8, <2>1, <2>2 DEF WriterFault
<1> QED BY <1>2, <1>3, <1>4, <1>5, <1>6, <1>7, <1>8 DEF WriterStep

LEMMA OthersMoveNames ==
    ASSUME TypeOK, \/ CoolDown \/ Reviewer \/ Operator \/ ChatDies \/ UNCHANGED vars
                   \/ \E t \in Threads : HandlerStep(t) \/ CommitFails(t)
    PROVE  MovesNames
<1>1. job \in Jobs /\ receipt \in Receipts /\ thread \in [Threads -> Requests]
  BY DEF TypeOK
<1>2. CASE CoolDown \/ UNCHANGED vars
  BY <1>1, <1>2 DEF CoolDown, vars, Receipts, chatVars, writerVars, MovesNames
<1>3. CASE Reviewer \/ Operator
  BY <1>3 DEF Reviewer, Approve, Supplement, SetVisibility, Edit, Operator, RetryPdf, RetryWeb,
     chatVars, writerVars, MovesNames
<1>4. CASE ChatDies
  BY <1>1, <1>4 DEF ChatDies, NoRequest, Jobs, MovesNames
<1>5. ASSUME NEW t \in Threads, HandlerStep(t) \/ CommitFails(t) PROVE MovesNames
  <2>1. ASSUME NEW answer, Reply(t, answer)
        PROVE  /\ job'.gen = job.gen
               /\ \A u \in Threads : thread'[u].meta \in {thread[u].meta, None}
    BY <1>1, <2>1 DEF Reply, NoRequest, Jobs
  <2>2. CASE Enter(t) \/ Recheck(t) \/ RecheckRevision(t)
    BY <1>1, <2>1, <2>2 DEF Enter, Recheck, RecheckRevision, Requests, UnchangedByChat, MovesNames
  <2>3. CASE Switch(t) \/ Commit(t)
    BY <1>1, <2>3 DEF Switch, Commit, Requests, UnchangedByChat, MovesNames
  <2>4. CASE CommitFails(t) \/ Unlink(t)
    BY <2>1, <2>4 DEF CommitFails, Unlink, UnchangedByChat, MovesNames
  <2> QED BY <1>5, <2>2, <2>3, <2>4 DEF HandlerStep
<1> QED BY <1>2, <1>3, <1>4, <1>5

LEMMA OneOfEachStep == TypeInv /\ OneOfEach /\ [Next]_vars => OneOfEach'
<1> SUFFICES ASSUME TypeInv, OneOfEach, [Next]_vars PROVE OneOfEach'
  OBVIOUS
<1>1. TypeOK /\ LocalsKnown
  BY DEF TypeInv
<1>2. CASE Build
  <2> DEFINE gen == [id |-> built + 1, rev |-> Revision(registry),
                     pdf |-> ShownIn(Revision(registry)) \cap PdfArticles]
  <2>1. gen \in Generations /\ gen.id = built + 1
    BY <1>1, RevisionType DEF TypeOK, Generations
  <2>2. /\ built' = built + 1 /\ active' = active /\ pending' = pending /\ thread' = thread
        /\ receipt'.prepared = gen /\ job' = [job EXCEPT !.gen = gen]
    BY <1>2 DEF Build, UnchangedByWriter, chatVars
  <2> HIDE DEF gen
  <2>3. job'.gen = gen
    BY <1>1, <2>2 DEF TypeOK, Jobs
  <2>4. Named' \subseteq Named \cup {gen}
    BY <2>2, <2>3 DEF Named
  <2> QED BY <1>1, <2>1, <2>2, <2>4, NewName
<1>3. CASE WebBuild
  <2> DEFINE gen == [id |-> built + 1, rev |-> Revision(registry),
                     pdf |-> IF active = None THEN {} ELSE active.pdf]
  <2>1. gen \in Generations /\ gen.id = built + 1
    BY <1>1, RevisionType DEF TypeOK, Generations, Pointers
  <2>2. /\ built' = built + 1 /\ active' = active /\ pending' = pending /\ thread' = thread
        /\ receipt' = receipt /\ job' = [job EXCEPT !.gen = gen]
    BY <1>3 DEF WebBuild, UnchangedByWriter, chatVars
  <2> HIDE DEF gen
  <2>3. job'.gen = gen
    BY <1>1, <2>2 DEF TypeOK, Jobs
  <2>4. Named' \subseteq Named \cup {gen}
    BY <2>2, <2>3 DEF Named
  <2> QED BY <1>1, <2>1, <2>2, <2>4, NewName
<1>4. CASE ~Build /\ ~WebBuild
  <2>1. MovesNames
    BY <1>1, <1>4, WriterMovesNames, OthersMoveNames DEF Next
  <2> QED BY <2>1, MovedNames
<1> QED BY <1>2, <1>3, <1>4

\* What a step outside the writer leaves of what the writer knows.
Beside ==
    /\ pc' = pc /\ job'.batch = job.batch /\ job'.gen = job.gen /\ job'.ok = job.ok
    /\ job'.rev = job.rev
    /\ receipt'.ready = receipt.ready /\ receipt'.rev = receipt.rev
    /\ \A b \in Pdfs : pdf'[b].ready = pdf[b].ready /\ pdf'[b].target = pdf[b].target
    /\ \A b \in Webs : web'[b].ready = web[b].ready
    /\ active # None => active' # None

LEMMA OthersAreBeside ==
    ASSUME TypeInv, ChatInv,
           \/ CoolDown \/ Reviewer \/ Operator \/ ChatDies \/ UNCHANGED vars
           \/ \E t \in Threads : HandlerStep(t) \/ CommitFails(t)
    PROVE  Beside
<1>1. job \in Jobs /\ receipt \in Receipts /\ web \in WebStatuses /\ pdf \in PdfStatuses
  BY DEF TypeInv, TypeOK
<1>2. CASE CoolDown \/ UNCHANGED vars
  BY <1>1, <1>2 DEF CoolDown, vars, Receipts, chatVars, writerVars, Beside
<1>3. CASE Reviewer \/ Operator
  <2>1. CASE Reviewer
    BY <2>1 DEF Reviewer, Approve, Supplement, SetVisibility, Edit, writerVars, Beside
  <2>2. ASSUME NEW b \in Pdfs, RetryPdf(b) PROVE Beside
    BY <1>1, <2>2 DEF RetryPdf, PdfStatuses, writerVars, Beside
  <2>3. ASSUME NEW b \in Webs, RetryWeb(b) PROVE Beside
    BY <1>1, <2>3 DEF RetryWeb, WebStatuses, writerVars, Beside
  <2> QED BY <1>3, <2>1, <2>2, <2>3 DEF Operator
<1>4. CASE ChatDies
  BY <1>1, <1>4 DEF ChatDies, Jobs, Beside
<1>5. ASSUME NEW t \in Threads, HandlerStep(t) \/ CommitFails(t) PROVE Beside
  <2>1. UNCHANGED <<pc, receipt, web, pdf>>
    BY <1>5 DEF HandlerStep, Enter, Recheck, RecheckRevision, Switch, Commit, CommitFails, Unlink, UnchangedByChat
  <2>2. active' = active \/ (active' = thread[t].meta /\ thread[t].at = "commit")
    BY <1>5 DEF HandlerStep, Enter, Recheck, RecheckRevision, Switch, Commit, CommitFails, Unlink
  <2>3. active # None => active' # None
    BY <2>2 DEF ChatInv, Order
  <2>4. UNCHANGED job \/ \E answer : Reply(t, answer)
    BY <1>5 DEF HandlerStep, Enter, Recheck, RecheckRevision, Switch, Commit, CommitFails, Unlink
  <2>5. job'.batch = job.batch /\ job'.gen = job.gen /\ job'.ok = job.ok /\ job'.rev = job.rev
    BY <1>1, <2>4 DEF Reply, Jobs
  <2> QED BY <2>1, <2>3, <2>5 DEF Beside
<1> QED BY <1>2, <1>3, <1>4, <1>5

\* What is in Chat stays, and what is published stays published.
Forward ==
    \A a \in Articles : /\ VersionIn(active, a) \in Nat /\ VersionIn(active', a) \in Nat
                        /\ VersionIn(active, a) <= VersionIn(active', a)
                        /\ registry[a].published \in Nat /\ registry'[a].published \in Nat
                        /\ registry[a].published <= registry'[a].published

LEMMA StepsForward == ASSUME TypeInv, TypeOK', ChatInv, [Next]_vars PROVE Forward
<1>1. \A a \in Articles : VersionIn(active, a) \in Nat /\ VersionIn(active', a) \in Nat
  BY VersionInType DEF TypeInv, TypeOK
<1>2. \A a \in Articles : registry[a].published \in Nat /\ registry'[a].published \in Nat
  BY BoundsAssumption DEF TypeInv, TypeOK, Registries
<1>3. \A a \in Articles : registry[a].published <= registry'[a].published
  <2>1. CASE WriterStep \/ WriterFault \/ CoolDown \/ WriterDies \/ Reviewer \/ Operator
    BY <2>1, OthersAreQuiet DEF TypeInv, Quiet
  <2>2. CASE ChatDies \/ UNCHANGED vars \/ \E t \in Threads : HandlerStep(t) \/ CommitFails(t)
    <3>1. registry' = registry
      BY <2>2 DEF ChatDies, vars, HandlerStep, Enter, Recheck, RecheckRevision, Switch, Commit,
         CommitFails, Unlink, UnchangedByChat
    <3> QED BY <1>2, <3>1
  <2> QED BY <2>1, <2>2 DEF Next
<1> QED BY <1>1, <1>2, <1>3, StepIsSafe DEF Safe, Forward

LEMMA BesideConfirmed ==
    ASSUME TypeInv, Confirmed, Beside, Forward
    PROVE  Confirmed'
<1>1. \A b \in Batches : ArticlesOf[b] \subseteq Articles
  BY DEF Articles
<1>2. pc = "web_build" \/ pc = "web_finish" => job.batch \in Batches
  BY DEF TypeInv, LocalsKnown, Batches
<1>3. pc = "web_build" => \A a \in ArticlesOf[job.batch] : registry'[a].published > 0
  BY <1>1, <1>2 DEF Confirmed, Forward
<1>4. pc = "web_finish" /\ job.ok => \A a \in ArticlesOf[job.batch] : VersionIn(active', a) > 0
  BY <1>1, <1>2 DEF Confirmed, Forward
<1> QED BY <1>3, <1>4 DEF Confirmed, Beside

\* The writer's steps that end neither at a receipt nor on a web job's way.
LEMMA IdleConfirmed ==
    ASSUME ~job'.ok,
           pc' \notin {"receipt", "web_build", "web_activate", "wait", "withdraw", "verify", "web_finish"}
    PROVE  Confirmed'
BY DEF Confirmed

LEMMA WriterConfirmed ==
    ASSUME TypeInv, TypeInv', OneOfEach, Confirmed, WriterStep \/ WriterFault \/ WriterDies
    PROVE  Confirmed'
<1>1. /\ TypeOK /\ LocalsKnown /\ job \in Jobs /\ receipt \in Receipts
      /\ registry \in Registries /\ active \in Pointers
  BY DEF TypeInv, TypeOK
<1>2. job.ok => pc \in {"withdraw", "verify", "receipt", "web_finish"}
  BY DEF Confirmed
<1>3. CASE Poll \/ PdfBegin \/ PdfImport \/ PdfImported \/ PdfRevision \/ PdfPending \/ PdfFinish
  <2>1. job'.ok = job.ok \/ job'.ok = FALSE
    BY <1>1, <1>3 DEF Poll, PdfBegin, PdfImport, PdfImported, PdfRevision, PdfPending, PdfFinish,
       Jobs, NoJob, Finish
  <2>2. pc' \in {"refresh", "pdf_begin", "web_begin", "pdf_import", "pdf_imported", "pdf_revision", "pdf_pending", "idle"}
    BY <1>3 DEF Poll, PdfBegin, PdfImport, PdfImported, PdfRevision, PdfPending, PdfFinish, Goto, Finish
  <2>3. ~job.ok
    BY <1>2, <1>3 DEF Poll, PdfBegin, PdfImport, PdfImported, PdfRevision, PdfPending, PdfFinish
  <2> QED BY <2>1, <2>2, <2>3, IdleConfirmed
<1>4. CASE WebBegin \/ WebClearRetry \/ WebFinish
  <2>1. ~job'.ok
    <3>1. CASE WebBegin \/ WebClearRetry
      BY <1>2, <3>1 DEF WebBegin, WebClearRetry
    <3>2. CASE WebFinish
      BY <3>2, FinishForgets DEF WebFinish
    <3> QED BY <1>4, <3>1, <3>2
  <2>2. pc' \in {"web_retry", "web_check", "idle"}
    BY <1>4 DEF WebBegin, WebClearRetry, WebFinish, Goto, Finish
  <2> QED BY <2>1, <2>2, IdleConfirmed
<1>5. CASE WriteReceipt \/ PdfImportFails \/ WebBuildFails \/ WriterDies
  <2>1. job'.ok = FALSE /\ pc' \in {"idle", "pdf_finish"}
    BY <1>5, FinishForgets, ReturnForgets DEF WriteReceipt, PdfImportFails, WebBuildFails, WriterDies
  <2> QED BY <2>1, IdleConfirmed
<1>6. CASE Prepare \/ Build
  <2>1. pc' \in {"activate", "build"}
    BY <1>6 DEF Prepare, Build, Goto
  <2>2. job'.ok = job.ok
    BY <1>1, <1>6 DEF Prepare, Build, Jobs
  <2>3. ~job.ok
    BY <1>2, <1>6 DEF Prepare, Build
  <2> QED BY <2>1, <2>2, <2>3, IdleConfirmed
<1>7. CASE Refresh
  <2>1. CASE Return
    BY <2>1, ReturnForgets, IdleConfirmed
  <2>2. CASE /\ RevOf(active) = Revision(registry) /\ pc' = "receipt"
             /\ job' = [job EXCEPT !.seen = Revision(registry), !.ok = TRUE]
    <3>1. active # None
      BY <1>1, <2>2, RevisionType, NoneAssumption DEF RevOf
    <3>2. active' = active
      BY <1>7 DEF Refresh
    <3> QED BY <2>2, <3>1, <3>2 DEF Confirmed
  <2>3. CASE pc' = "prepare" /\ job' = [job EXCEPT !.seen = Revision(registry)]
    <3>1. job'.ok = job.ok /\ ~job.ok
      BY <1>1, <1>2, <1>7, <2>3 DEF Refresh, Jobs
    <3> QED BY <2>3, <3>1, IdleConfirmed
  <2> QED BY <1>7, <2>1, <2>2, <2>3 DEF Refresh, Goto
<1>8. CASE BuildFails
  BY <1>2, <1>8 DEF BuildFails, Goto, Confirmed
<1>9. CASE Activate
  <2>1. job.batch \notin Webs /\ ~job.ok
    BY <1>1, <1>2, <1>9, BatchesAssumption DEF Activate, LocalsKnown, Batches
  <2>2. \/ pc' = "wait" /\ job'.ok = job.ok /\ job'.batch = job.batch
        \/ pc' = "receipt" /\ job' = job
    BY <1>1, <1>9, CallMovesNames DEF Activate, Goto
  <2> QED BY <2>1, <2>2 DEF Confirmed
<1>10. CASE Answered \/ LoseAnswer
  <2>1. pc = "wait" /\ pc' = "withdraw" /\ job'.batch = job.batch /\ job'.gen = job.gen
    BY <1>1, <1>10 DEF Answered, LoseAnswer, Goto, Jobs
  <2> QED BY <2>1 DEF Confirmed
<1>11. CASE Withdraw
  BY <1>11 DEF Withdraw, Goto, Confirmed
<1>12. CASE Verify
  <2>1. /\ pc = "verify" /\ job'.batch = job.batch /\ active' = active
        /\ job'.ok => IdOf(active) = job.gen.id
        /\ pc' = IF job.batch \in Webs THEN "web_finish" ELSE "receipt"
    BY <1>1, <1>12 DEF Verify, Goto, Jobs
  <2>2. job.gen \in Generations
    BY <1>1, <2>1 DEF LocalsKnown
  <2>3. job'.ok => active # None
    BY <2>1, <2>2 DEF IdOf, Generations
  <2>4. ASSUME job'.ok, job.batch \in Webs
        PROVE  \A a \in ArticlesOf[job.batch] : VersionIn(active, a) > 0
    <3>1. active # None /\ active.id = job.gen.id
      BY <2>1, <2>3, <2>4 DEF IdOf
    <3>2. job.gen # None
      BY <2>2, NoneAssumption
    <3>3. active = job.gen
      BY <3>1, <3>2 DEF OneOfEach, Named
    <3>4. \A a \in ArticlesOf[job.batch] : job.gen.rev[a].version > 0
      BY <2>1, <2>4 DEF Confirmed
    <3> QED BY <3>1, <3>3, <3>4 DEF VersionIn
  <2> QED BY <2>1, <2>3, <2>4 DEF Confirmed
<1>13. CASE WebCheck
  <2>1. CASE Finish
    BY <2>1, FinishForgets, IdleConfirmed
  <2>2. CASE Pending(registry, job.batch) = {} /\ pc' = "web_build" /\ job' = job
    <3>1. job.batch \in Batches /\ ArticlesOf[job.batch] \subseteq Articles /\ registry' = registry
      BY <1>1, <1>13 DEF WebCheck, LocalsKnown, Batches, Articles
    <3>2. \A a \in ArticlesOf[job.batch] : registry[a].published > 0
      BY <2>2 DEF Pending, Published
    <3>3. ~job.ok
      BY <1>2, <1>13 DEF WebCheck
    <3> QED BY <2>2, <3>1, <3>2, <3>3 DEF Confirmed
  <2> QED BY <1>13, <2>1, <2>2 DEF WebCheck, Goto
<1>14. CASE WebBuild
  <2> DEFINE gen == [id |-> built + 1, rev |-> Revision(registry),
                     pdf |-> IF active = None THEN {} ELSE active.pdf]
  <2>1. /\ pc = "web_build" /\ pc' = "web_activate" /\ job' = [job EXCEPT !.gen = gen]
    BY <1>14 DEF WebBuild, Goto
  <2>2. gen.rev = Revision(registry)
    OBVIOUS
  <2> HIDE DEF gen
  <2>3. job'.gen = gen /\ job'.batch = job.batch /\ job'.ok = job.ok
    BY <1>1, <2>1 DEF Jobs
  <2>4. ArticlesOf[job.batch] \subseteq Articles
    BY <1>1, <2>1 DEF LocalsKnown, Batches, Articles
  <2>5. \A a \in ArticlesOf[job.batch] : gen.rev[a].version > 0
    BY <2>1, <2>2, <2>4 DEF Confirmed, Revision, Published
  <2>6. ~job.ok
    BY <1>2, <2>1
  <2> QED BY <2>1, <2>3, <2>5, <2>6 DEF Confirmed
<1>15. CASE WebActivate
  <2>1. /\ pc = "web_activate" /\ pc' = "wait" /\ job'.batch = job.batch
        /\ job'.gen = job.gen /\ job'.ok = job.ok
    BY <1>1, <1>15, CallMovesNames DEF WebActivate
  <2> QED BY <1>2, <2>1 DEF Confirmed
<1> QED
  BY <1>3, <1>4, <1>5, <1>6, <1>7, <1>8, <1>9, <1>10, <1>11, <1>12, <1>13, <1>14, <1>15
  DEF WriterStep, WriterFault

\* The writer keeps the revision it read until it is done with the batch.
LEMMA RevKept ==
    ASSUME RevRead, job'.rev = job.rev, InBatch' => InBatch
    PROVE  RevRead'
BY DEF RevRead

LEMMA WriterRevRead ==
    ASSUME TypeInv, TypeInv', RevRead, WriterStep \/ WriterFault \/ WriterDies
    PROVE  RevRead'
<1>1. /\ TypeOK /\ LocalsKnown /\ LocalsKnown' /\ job \in Jobs /\ registry \in Registries
      /\ None \notin Pdfs
  BY BatchesAssumption DEF TypeInv, TypeOK, Batches
<1>2. CASE Poll \/ PdfBegin \/ PdfImport \/ PdfImported \/ PdfFinish \/ PdfImportFails \/ WebBuildFails
           \/ WriterDies \/ WebBegin \/ WebClearRetry \/ WebCheck \/ WebBuild \/ WebFinish
  <2>1. ~InBatch'
    <3>1. CASE Poll
      BY <1>1, <3>1, NoneTypes DEF Poll, Goto, InBatch
    <3>2. CASE PdfBegin \/ PdfImport \/ PdfImported \/ WebBegin \/ WebClearRetry \/ WebBuild
      BY <3>2 DEF PdfBegin, PdfImport, PdfImported, WebBegin, WebClearRetry, WebBuild, Goto, InBatch
    <3>3. CASE PdfFinish \/ PdfImportFails \/ WebBuildFails \/ WriterDies \/ WebCheck \/ WebFinish
      BY <3>3 DEF PdfFinish, PdfImportFails, WebBuildFails, WriterDies, WebCheck, WebFinish, Finish,
         Goto, InBatch
    <3> QED BY <1>2, <3>1, <3>2, <3>3
  <2> QED BY <2>1 DEF RevRead
<1>3. CASE PdfRevision
  <2>1. job'.rev = Revision(registry)
    BY <1>1, <1>3 DEF PdfRevision, Jobs
  <2> QED BY <1>1, <2>1, RevisionType DEF RevRead
<1>4. CASE PdfPending
  <2>1. pc = "pdf_pending" /\ job'.rev = job.rev
    BY <1>1, <1>4 DEF PdfPending, Jobs
  <2> QED BY <2>1, RevKept DEF InBatch
<1>5. CASE Return /\ pc \in {"refresh", "receipt"}
  <2>1. CASE job.batch = None
    BY <1>5, <2>1 DEF Return, Finish, InBatch, RevRead
  <2>2. CASE job.batch # None
    <3>1. job.batch \in Pdfs
      BY <1>1, <1>5, <2>2 DEF LocalsKnown
    <3>2. job' = [NoJob EXCEPT !.batch = job.batch, !.rev = job.rev, !.pend = job.pend]
      BY <1>5, <2>2 DEF Return
    <3>3. job'.rev = job.rev
      BY <3>2 DEF NoJob
    <3> QED BY <1>5, <3>1, <3>3, RevKept DEF InBatch
  <2> QED BY <2>1, <2>2
<1>6. CASE \/ Refresh /\ pc' \in {"receipt", "prepare"} /\ \E seen, ok : job' = [job EXCEPT !.seen = seen, !.ok = ok]
           \/ Prepare \/ Build \/ BuildFails \/ Answered \/ LoseAnswer \/ Withdraw \/ Verify
  <2>1. job'.rev = job.rev /\ job'.batch = job.batch
    BY <1>1, <1>6 DEF Prepare, Build, BuildFails, Answered, LoseAnswer, Withdraw, Verify, Jobs
  <2>2. /\ pc \in {"refresh", "prepare", "build", "activate", "wait", "withdraw", "verify", "receipt"}
        /\ pc' \notin {"pdf_pending", "pdf_finish"}
    BY <1>6 DEF Refresh, Prepare, Build, BuildFails, Answered, LoseAnswer, Withdraw, Verify, Goto
  <2> QED BY <2>1, <2>2, RevKept DEF InBatch
<1>7. CASE Activate
  <2>1. \/ job' = job /\ pc' = "receipt"
        \/ Call(job.gen)
    BY <1>7 DEF Activate, Goto
  <2>2. job'.rev = job.rev /\ job'.batch = job.batch /\ pc = "activate" /\ pc' \in {"receipt", "wait"}
    BY <1>1, <1>7, <2>1 DEF Activate, Call, Goto, Jobs
  <2> QED BY <2>2, RevKept DEF InBatch
<1>8. CASE WebActivate
  <2>1. pc = "web_activate" /\ pc' = "wait" /\ job'.batch = job.batch
    BY <1>1, <1>8, CallMovesNames DEF WebActivate
  <2>2. job.batch \in Webs
    BY <1>1, <2>1 DEF LocalsKnown
  <2>3. ~InBatch'
    BY <2>1, <2>2, BatchesAssumption DEF InBatch
  <2> QED BY <2>3 DEF RevRead
<1>9. CASE Refresh
  <2>1. pc = "refresh"
    BY <1>9 DEF Refresh
  <2>2. CASE Return
    BY <1>5, <2>1, <2>2
  <2>3. CASE ~Return
    <3>1. \/ pc' = "receipt" /\ job' = [job EXCEPT !.seen = Revision(registry), !.ok = TRUE]
          \/ pc' = "prepare" /\ job' = [job EXCEPT !.seen = Revision(registry)]
      BY <1>9, <2>3 DEF Refresh, Goto
    <3>2. [job EXCEPT !.seen = Revision(registry)] = [job EXCEPT !.seen = Revision(registry), !.ok = job.ok]
      BY <1>1 DEF Jobs
    <3> QED BY <1>6, <1>9, <3>1, <3>2
  <2> QED BY <2>2, <2>3
<1>10. CASE WriteReceipt
  BY <1>5, <1>10 DEF WriteReceipt
<1> QED
  BY <1>2, <1>3, <1>4, <1>6, <1>7, <1>8, <1>9, <1>10 DEF WriterStep, WriterFault

\* What was recorded stays true as long as nothing more is recorded.
LEMMA NothingRecorded ==
    ASSUME TypeOK, Forward, ReceiptNames, ReceiptHolds,
           receipt'.ready => receipt.ready /\ receipt'.rev = receipt.rev,
           \A b \in Pdfs : pdf'[b].ready => pdf[b].ready /\ pdf'[b].target = pdf[b].target,
           \A b \in Webs : web'[b].ready => web[b].ready
    PROVE  ReceiptNames' /\ ReceiptHolds'
<1>1. ASSUME receipt.ready, NEW a \in Articles
      PROVE  receipt.rev[a].version <= VersionIn(active', a)
  <2>1. receipt.rev \in PublicRevisions
    BY <1>1 DEF ReceiptNames, TypeOK, Receipts, Revisions
  <2>2. receipt.rev[a].version \in Nat
    BY <2>1, BoundsAssumption DEF PublicRevisions
  <2>3. receipt.rev[a].version <= VersionIn(active, a)
    BY <1>1 DEF ReceiptHolds
  <2> QED BY <2>2, <2>3 DEF Forward
<1>2. ASSUME NEW b \in Webs, web[b].ready, NEW a \in ArticlesOf[b]
      PROVE  VersionIn(active', a) > 0
  <2>1. a \in Articles
    BY DEF Articles, Batches
  <2>2. VersionIn(active, a) > 0
    BY <1>2 DEF ReceiptHolds
  <2> QED BY <2>1, <2>2 DEF Forward
<1>3. ASSUME NEW b \in Pdfs, pdf[b].ready, NEW a \in Articles
      PROVE  pdf[b].target[a].version <= VersionIn(active', a)
  <2>1. pdf[b].target \in PublicRevisions
    BY <1>3 DEF ReceiptNames, TypeOK, PdfStatuses, Revisions
  <2>2. pdf[b].target[a].version \in Nat
    BY <2>1, BoundsAssumption DEF PublicRevisions
  <2>3. pdf[b].target[a].version <= VersionIn(active, a)
    BY <1>3 DEF ReceiptHolds
  <2> QED BY <2>2, <2>3 DEF Forward
<1> QED BY <1>1, <1>2, <1>3 DEF ReceiptNames, ReceiptHolds

LEMMA RecordsStep == TypeInv /\ ChatInv /\ Records /\ [Next]_vars => Records'
<1> SUFFICES ASSUME TypeInv, ChatInv, Records, [Next]_vars PROVE Records'
  OBVIOUS
<1>1. TypeInv' /\ TypeOK /\ TypeOK'
  BY TypeKept DEF TypeInv
<1>2. Forward
  BY <1>1, StepsForward
<1>3. OneOfEach'
  BY OneOfEachStep DEF Records
<1>4. CASE \/ CoolDown \/ Reviewer \/ Operator \/ ChatDies \/ UNCHANGED vars
           \/ \E t \in Threads : HandlerStep(t) \/ CommitFails(t)
  <2>1. Beside
    BY <1>4, OthersAreBeside
  <2>2. ReceiptNames' /\ ReceiptHolds'
    BY <1>1, <1>2, <2>1, NothingRecorded DEF Records, Beside
  <2>3. RevRead'
    <3>1. pc' = pc /\ job'.batch = job.batch /\ job'.rev = job.rev
      BY <2>1 DEF Beside
    <3> QED BY <3>1 DEF Records, RevRead, InBatch
  <2> QED BY <1>2, <1>3, <2>1, <2>2, <2>3, BesideConfirmed DEF Records
<1>5. CASE WriterStep \/ WriterFault \/ WriterDies
  <2>1. Confirmed' /\ RevRead'
    BY <1>1, <1>5, WriterConfirmed, WriterRevRead DEF Records
  <2>2. active' = active
    BY <1>5 DEF WriterStep, WriterFault, WriterDies, Poll, PdfBegin, PdfImport, PdfImported, PdfRevision,
       PdfPending, PdfFinish, Refresh, Prepare, Build, Activate, Answered, Withdraw, Verify, WriteReceipt,
       WebBegin, WebClearRetry, WebCheck, WebBuild, WebActivate, WebFinish, PdfImportFails, BuildFails,
       WebBuildFails, LoseAnswer
  <2>3. CASE WriteReceipt
    <3>1. web' = web /\ pdf' = pdf
      BY <2>3 DEF WriteReceipt
    <3>5. \A b \in Pdfs : pdf[b].ready =>
             /\ pdf[b].target # None
             /\ \A a \in Articles : pdf[b].target[a].version <= VersionIn(active, a)
      BY DEF Records, ReceiptNames, ReceiptHolds
    <3>2. \A b \in Webs : web[b].ready => \A a \in ArticlesOf[b] : VersionIn(active, a) > 0
      BY DEF Records, ReceiptHolds
    <3>3. ASSUME receipt'.ready PROVE active # None /\ receipt'.rev = RevOf(active)
      <4>1. CASE job.ok
        BY <2>3, <4>1 DEF WriteReceipt, Records, Confirmed
      <4>2. CASE ~job.ok
        <5>1. /\ receipt.prepared # None /\ RevOf(active) = job.seen
              /\ IdOf(active) = receipt.prepared.id /\ receipt'.rev = job.seen
          BY <2>3, <3>3, <4>2 DEF WriteReceipt, Switched
        <5>2. receipt.prepared.id # 0
          BY <1>1, <5>1 DEF TypeOK, Receipts, Pointers, Generations
        <5> QED BY <5>1, <5>2 DEF IdOf
      <4> QED BY <4>1, <4>2
    <3>4. ASSUME receipt'.ready
          PROVE  /\ receipt'.rev # None
                 /\ \A a \in Articles : receipt'.rev[a].version <= VersionIn(active, a)
      <4>1. active # None /\ receipt'.rev = active.rev
        BY <3>3, <3>4 DEF RevOf
      <4>2. active.rev \in PublicRevisions
        BY <1>1, <4>1 DEF TypeOK, Pointers, Generations
      <4>3. \A a \in Articles : /\ receipt'.rev[a].version = VersionIn(active, a)
                                /\ VersionIn(active, a) \in Nat
        BY <1>2, <4>1 DEF VersionIn, Forward
      <4> QED BY <4>1, <4>2, <4>3, NoneAssumption
    <3> QED BY <1>3, <2>1, <2>2, <3>1, <3>2, <3>4, <3>5 DEF Records, ReceiptNames, ReceiptHolds
  <2>4. CASE WebFinish
    <3>1. /\ receipt' = receipt /\ pdf' = pdf /\ pc = "web_finish"
          /\ web' = [web EXCEPT ![job.batch].stage = IF job.ok THEN "chat_ready" ELSE "failed",
                                ![job.batch].ready = job.ok]
      BY <2>4 DEF WebFinish
    <3>2. ASSUME NEW b \in Webs, web'[b].ready PROVE web[b].ready \/ (b = job.batch /\ job.ok)
      BY <1>1, <3>1, <3>2 DEF TypeOK, WebStatuses
    <3>3. \A b \in Webs : web'[b].ready => \A a \in ArticlesOf[b] : VersionIn(active, a) > 0
      BY <3>1, <3>2 DEF Records, ReceiptHolds, Confirmed
    <3> QED BY <1>3, <2>1, <2>2, <3>1, <3>3 DEF Records, ReceiptNames, ReceiptHolds
  <2>5. CASE PdfFinish
    <3>1. /\ receipt' = receipt /\ web' = web /\ pc = "pdf_finish"
      BY <2>5 DEF PdfFinish
    <3>2. job.rev \in PublicRevisions
      BY <3>1 DEF Records, RevRead, InBatch
    <3>3. ASSUME NEW b \in Pdfs, pdf'[b].ready
          PROVE  \/ pdf'[b] = pdf[b] /\ b # job.batch
                 \/ pdf'[b].target = job.rev /\ RevOf(active) = job.rev
      <4>1. PICK stage, ready, synced :
                /\ pdf' = [pdf EXCEPT ![job.batch] = [@ EXCEPT !.stage = stage, !.ready = ready,
                                                       !.target = job.rev, !.synced = synced]]
                /\ ready => RevOf(active) = job.rev
        BY <2>5 DEF PdfFinish
      <4> QED BY <1>1, <3>3, <4>1 DEF TypeOK, PdfStatuses
    <3>4. ASSUME RevOf(active) = job.rev, NEW a \in Articles
          PROVE  job.rev[a].version <= VersionIn(active, a)
      <4>1. active # None /\ job.rev = active.rev
        BY <3>2, <3>4, NoneAssumption DEF RevOf
      <4>2. VersionIn(active, a) = job.rev[a].version /\ VersionIn(active, a) \in Nat
        BY <1>2, <4>1 DEF VersionIn, Forward
      <4> QED BY <4>2
    <3>5. \A b \in Pdfs : pdf'[b].ready =>
             /\ pdf'[b].target # None
             /\ \A a \in Articles : pdf'[b].target[a].version <= VersionIn(active, a)
      <4> SUFFICES ASSUME NEW b \in Pdfs, pdf'[b].ready
                   PROVE  /\ pdf'[b].target # None
                          /\ \A a \in Articles : pdf'[b].target[a].version <= VersionIn(active, a)
        OBVIOUS
      <4>1. CASE pdf'[b] = pdf[b]
        BY <4>1 DEF Records, ReceiptNames, ReceiptHolds
      <4>2. CASE pdf'[b].target = job.rev /\ RevOf(active) = job.rev
        BY <3>2, <3>4, <4>2, NoneAssumption
      <4> QED BY <3>3, <4>1, <4>2
    <3> QED BY <1>3, <2>1, <2>2, <3>1, <3>5 DEF Records, ReceiptNames, ReceiptHolds
  <2>6. CASE ~WriteReceipt /\ ~WebFinish /\ ~PdfFinish
    <3>1. receipt'.ready => receipt.ready /\ receipt'.rev = receipt.rev
      <4>1. receipt' = receipt \/ receipt'.ready = FALSE
        BY <1>5, <2>6 DEF WriterStep, WriterFault, WriterDies, Poll, PdfBegin, PdfImport, PdfImported,
           PdfRevision, PdfPending, Refresh, Prepare, Build, Activate, Answered, Withdraw,
           Verify, WebBegin, WebClearRetry, WebCheck, WebBuild, WebActivate, PdfImportFails, BuildFails,
           WebBuildFails, LoseAnswer
      <4> QED BY <4>1
    <3>2. \A b \in Webs : web'[b].ready => web[b].ready
      <4>1. CASE WebBegin \/ WebClearRetry \/ WebCheck \/ WebBuild \/ WebActivate \/ WebBuildFails
        BY <1>1, <4>1 DEF WebBegin, WebClearRetry, WebCheck, WebBuild, WebActivate, WebBuildFails,
           TypeOK, WebStatuses
      <4>2. CASE ~(WebBegin \/ WebClearRetry \/ WebCheck \/ WebBuild \/ WebActivate \/ WebBuildFails)
        <5>1. web' = web
          BY <1>5, <2>6, <4>2 DEF WriterStep, WriterFault, WriterDies, Poll, PdfBegin, PdfImport,
             PdfImported, PdfRevision, PdfPending, Refresh, Prepare, Build, Activate,
             Answered, Withdraw, Verify, PdfImportFails, BuildFails, LoseAnswer
        <5> QED BY <5>1
      <4> QED BY <4>1, <4>2
    <3>3. \A b \in Pdfs : pdf'[b].ready => pdf[b].ready /\ pdf'[b].target = pdf[b].target
      <4>1. CASE PdfBegin \/ PdfImported \/ PdfImportFails
        BY <1>1, <4>1 DEF PdfBegin, PdfImported, PdfImportFails, TypeOK, PdfStatuses
      <4>2. CASE ~(PdfBegin \/ PdfImported \/ PdfImportFails)
        <5>1. pdf' = pdf
          BY <1>5, <2>6, <4>2 DEF WriterStep, WriterFault, WriterDies, Poll, PdfImport, PdfRevision,
             PdfPending, Refresh, Prepare, Build, Activate, Answered, Withdraw, Verify, BuildFails,
             LoseAnswer, WebBegin, WebClearRetry, WebCheck, WebBuild, WebActivate, WebBuildFails
        <5> QED BY <5>1
      <4> QED BY <4>1, <4>2
    <3>4. ReceiptNames' /\ ReceiptHolds'
      BY <1>1, <1>2, <3>1, <3>2, <3>3, NothingRecorded DEF Records
    <3> QED BY <1>3, <2>1, <3>4 DEF Records
  <2> QED BY <2>3, <2>4, <2>5, <2>6
<1> QED BY <1>4, <1>5 DEF Next

LEMMA InitRecords == Init => Records
<1> SUFFICES ASSUME Init PROVE Records
  OBVIOUS
<1>1. Named \subseteq {None}
  BY DEF Init, Named, NoJob, NoRequest
<1>2. ~job.ok /\ pc = "idle" /\ ~receipt.ready
      /\ (\A b \in Pdfs : ~pdf[b].ready) /\ \A b \in Webs : ~web[b].ready
  BY DEF Init, NoJob
<1> QED BY <1>1, <1>2 DEF Records, OneOfEach, Confirmed, RevRead, InBatch, ReceiptNames, ReceiptHolds

LEMMA RecordsInvariant == Spec => [](TypeInv /\ ChatInv /\ Records)
<1>1. TypeInv /\ ChatInv /\ [Next]_vars => TypeInv' /\ ChatInv'
  <2>1. TypeInv /\ [Next]_vars => TypeInv'
    BY TypeKept
  <2> QED
    BY <2>1, StepIsSafe DEF TypeInv, Safe
<1> QED
  BY InitTypeInv, InitChatInv, InitRecords, <1>1, RecordsStep, PTL DEF Spec

\* What public-refresh.json, a PDF batch or a web job records as ready is in Chat for
\* good, whichever answer was lost or error forgiven (_refresh_publication_unlocked and
\* the _process_unlocked of both pipelines).
THEOREM RecordedIsServed == Spec => []ReceiptHolds
<1>1. Records => ReceiptHolds
  BY DEF Records
<1> QED
  BY RecordsInvariant, <1>1, PTL

\* The pointer files, the writer and the reload requests never mean two different
\* generations by one id (_activate, reload_wiki).
THEOREM IdsIdentify == Spec => []OneOfEach
<1>1. Records => OneOfEach
  BY DEF Records
<1> QED
  BY RecordsInvariant, <1>1, PTL
=============================================================================
