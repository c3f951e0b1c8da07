------------------------- MODULE RegistryReviewProofs -------------------------
(***************************************************************************)
(* Proofs about RegistryReview, for any number of articles, sessions,      *)
(* preparers, bodies, runs, corrections, disputes and crashes.             *)
(***************************************************************************)
EXTENDS RegistryReview, TLAPS

-----------------------------------------------------------------------------
\* Types of what the actions write

LEMMA StagedType ==
    ASSUME TypeOK, NEW e \in Entities
    PROVE  /\ Staged(e) \in Candidate
           /\ Staged(e).entity = e
  <1>1. /\ live[e] \in Live
        /\ latest[e] \in Candidate
    BY DEF TypeOK
  <1>2. latest[e].authors \in SUBSET Sessions
    BY <1>1 DEF Candidate
  <1>3. /\ live[e].body \in 1..MaxBody
        /\ live[e].fixes \in 0..MaxFixes
        /\ live[e].check \in CheckRun
    BY <1>1 DEF Live
  <1> QED
    BY <1>2, <1>3 DEF Staged, Candidate

LEMMA StagedAtType ==
    ASSUME TypeOK, NEW E
    PROVE  StagedAt(E) \in [Entities -> Candidate]
  <1>1. \A e \in Entities : latest[e] \in Candidate
    BY DEF TypeOK
  <1> QED
    BY <1>1, StagedType DEF StagedAt

LEMMA IdleType == Idle \in Operation
  BY DEF Idle, Operation, NoVerdict, Verdicts, Steps, Packet

LEMMA OfferedType ==
    ASSUME NEW p \in Packet
    PROVE  Offered(p) \subseteq Candidate
  BY DEF Packet, Offered

LEMMA EntryType ==
    ASSUME NEW c \in Candidate, NEW b \in BOOLEAN
    PROVE  [cand |-> c, ready |-> b] \in [cand : Candidate, ready : BOOLEAN]
  OBVIOUS

LEMMA ReadyOnlyType ==
    ASSUME NEW S \in SUBSET Candidate
    PROVE  {[cand |-> c, ready |-> TRUE] : c \in S} \in Packet
  <1>1. \A c \in S : [cand |-> c, ready |-> TRUE] \in [cand : Candidate, ready : BOOLEAN]
    BY EntryType
  <1> QED
    BY <1>1 DEF Packet

LEMMA ReadyPacketType ==
    ASSUME NEW f \in [Entities -> Candidate]
    PROVE  /\ {[cand |-> c, ready |-> TRUE] : c \in {y \in ReadyOf(f) : ~Approved(y)}} \in Packet
           /\ {[cand |-> f[e], ready |-> f[e] \in ReadyOf(f)] : e \in Entities} \in Packet
  <1>1. {y \in ReadyOf(f) : ~Approved(y)} \in SUBSET Candidate
    BY DEF ReadyOf
  <1>2. {[cand |-> c, ready |-> TRUE] : c \in {y \in ReadyOf(f) : ~Approved(y)}} \in Packet
    BY <1>1, ReadyOnlyType, Zenon
  <1>3. \A e \in Entities : [cand |-> f[e], ready |-> f[e] \in ReadyOf(f)] \in [cand : Candidate, ready : BOOLEAN]
    <2> TAKE e \in Entities
    <2>1. (f[e] \in ReadyOf(f)) \in BOOLEAN
      OBVIOUS
    <2>2. f[e] \in Candidate
      OBVIOUS
    <2> QED
      BY <2>1, <2>2, EntryType, Zenon
  <1>4. {[cand |-> f[e], ready |-> f[e] \in ReadyOf(f)] : e \in Entities} \in SUBSET [cand : Candidate, ready : BOOLEAN]
    BY <1>3, Zenon
  <1> QED
    BY <1>2, <1>4 DEF Packet

-----------------------------------------------------------------------------
\* The inductive invariant

Indexed == \A e \in Entities : latest[e].entity = e

Working == \A s \in Sessions : op[s] # Idle => session[s] = "live"

OneSubmitter == \A x, y \in Processes :
    op[x].at \in Submitting /\ op[y].at \in Submitting => x = y

Judged == \A s \in Sessions : op[s].at \in {"item", "state"} =>
    \A e \in Entities : op[s].verdict[e] # "none" =>
        \E c \in Offered(packet["source"]) : c.entity = e

\* Every action, by itself.
LEMMA StepCases ==
    ASSUME Next
    PROVE  \/ \E e \in Entities : Collect(e)
           \/ \E E \in SUBSET Entities : StartRun(E)
           \/ FinishRun
           \/ \E c \in Seen : Hold(c)
           \/ \E d \in disputes : ImportDecision(d)
           \/ \E s \in Sessions : Wake(s)
           \/ \E s \in Sessions : End(s)
           \/ \E x \in Processes : Prepare(x, "none")
           \/ \E x \in Processes : Prepare(x, "final")
           \/ \E s \in Sessions : BeginClaimSource(s)
           \/ \E s \in Sessions : ClaimFinal(s)
           \/ \E s \in Sessions : ClaimSource(s)
           \/ \E x \in Processes : WritePacket(x)
           \/ \E x \in Processes : Refresh(x)
           \/ \E x \in Processes : Queue(x)
           \/ \E x \in Processes : Raise(x)
           \/ \E x \in Processes : Crash(x)
           \/ \E s \in Sessions : \E v \in Judgements(packet["final"]) : BeginFinal(s, v)
           \/ \E s \in Sessions : \E v \in Judgements(packet["source"]) : BeginSource(s, v)
           \/ \E s \in Sessions : \E c \in Offered(packet["source"]) : SubmitItem(s, c)
           \/ \E s \in Sessions : CommitFinal(s)
           \/ \E s \in Sessions : ReleaseFinal(s)
           \/ \E s \in Sessions : WriteReceipt(s)
           \/ \E s \in Sessions : SaveState(s)
           \/ \E s \in Sessions : ReleaseSource(s)
           \/ \E s \in Sessions : Refuse(s)
           \/ \E s \in Sessions : \E y \in packet["source"] : \E kept \in {{}, y.cand.authors} :
                  Correct(s, y.cand, kept)
           \/ \E s \in Sessions : CloseCorrected(s)
           \/ \E s \in Sessions : SaveCorrected(s)
  <1>1. CASE Environment
    BY <1>1 DEF Environment
  <1>2. CASE Preparation
    BY <1>2 DEF Preparation, Processes
  <1>3. CASE Submission
    BY <1>3 DEF Submission
  <1>4. CASE Correction
    BY <1>4 DEF Correction
  <1> QED
    BY <1>1, <1>2, <1>3, <1>4 DEF Next

LEMMA OpType ==
    ASSUME TypeOK, NEW x \in Processes
    PROVE  /\ op[x] \in Operation
           /\ op[x].packet \in Packet
           /\ op[x].verdict \in [Entities -> Verdicts]
           /\ op[x].left \in SUBSET Entities
           /\ op[x].goal \in {"none"} \cup Boards
  BY DEF TypeOK, Operation

\* An operation that moves on, or another one of its fields.
LEMMA MovedType ==
    ASSUME NEW o \in Operation, NEW a \in Steps
    PROVE  [o EXCEPT !.at = a] \in Operation
  BY DEF Operation

LEMMA ClaimType ==
    ASSUME NEW s \in Sessions, NEW p \in Packet, NEW b \in BOOLEAN
    PROVE  [by |-> s, packet |-> p, open |-> b] \in Claim
  BY DEF Claim

LEMMA CloseType ==
    ASSUME TypeOK, NEW b \in Boards
    PROVE  Close(b) \in [Boards -> Claim \cup {None}]
  <1>1. claim \in [Boards -> Claim \cup {None}]
    BY DEF TypeOK
  <1>2. \A k \in Claim : [k EXCEPT !.open = FALSE] \in Claim
    BY DEF Claim
  <1> QED
    BY <1>1, <1>2 DEF Close

LEMMA ClosedRunType ==
    /\ \A r \in Live : [r EXCEPT !.check.open = FALSE] \in Live
    /\ \A c \in Candidate : [c EXCEPT !.check.open = FALSE] \in Candidate
  <1>1. \A k \in CheckRun : [k EXCEPT !.open = FALSE] \in CheckRun
    BY DEF CheckRun
  <1>2. ASSUME NEW r \in Live
        PROVE  [r EXCEPT !.check.open = FALSE] \in Live
    <2>1. [r.check EXCEPT !.open = FALSE] \in CheckRun
      BY <1>1 DEF Live
    <2>2. [r EXCEPT !.check.open = FALSE] = [r EXCEPT !.check = [r.check EXCEPT !.open = FALSE]]
      OBVIOUS
    <2> QED
      BY <2>1, <2>2 DEF Live
  <1>3. ASSUME NEW c \in Candidate
        PROVE  [c EXCEPT !.check.open = FALSE] \in Candidate
    <2>1. [c.check EXCEPT !.open = FALSE] \in CheckRun
      BY <1>1 DEF Candidate
    <2>2. [c EXCEPT !.check.open = FALSE] = [c EXCEPT !.check = [c.check EXCEPT !.open = FALSE]]
      OBVIOUS
    <2> QED
      BY <2>1, <2>2 DEF Candidate
  <1> QED
    BY <1>2, <1>3

LEMMA JudgedType ==
    ASSUME NEW o \in Operation, NEW e \in Entities, NEW v \in Verdicts
    PROVE  [o EXCEPT !.left = @ \ {e}, !.verdict[e] = v] \in Operation
  <1>1. [o.verdict EXCEPT ![e] = v] \in [Entities -> Verdicts]
    BY DEF Operation
  <1>2. [o EXCEPT !.left = @ \ {e}, !.verdict[e] = v]
          = [o EXCEPT !.left = o.left \ {e}, !.verdict = [o.verdict EXCEPT ![e] = v]]
    BY DEF Operation
  <1> QED
    BY <1>1, <1>2 DEF Operation

LEMMA TypeStep ==
    ASSUME TypeOK, Indexed, OneSubmitter, Judged, Next
    PROVE  TypeOK'
  <1>1. ASSUME NEW e \in Entities,
               Collect(e)
        PROVE  TypeOK'
    <2>1. live' \in [Entities -> Live]
      BY <1>1, BoundsAssumption DEF Collect, TypeOK, Live
    <2>2. [Staged(e) EXCEPT !.body = live[e].body + 1, !.authors = {}] \in Candidate
      <3>1. Staged(e) \in Candidate
        BY StagedType
      <3>2. live[e].body + 1 \in 1..MaxBody
        BY <1>1, BoundsAssumption DEF Collect, TypeOK, Live
      <3> QED
        BY <3>1, <3>2 DEF Candidate
    <2>3. latest' \in [Entities -> Candidate]
      BY <1>1, <2>2, StagedType DEF Collect
    <2> QED
      BY <1>1, <2>1, <2>3 DEF Collect, TypeOK, lifecycle, files
  <1>2. ASSUME NEW E \in SUBSET Entities,
               StartRun(E)
        PROVE  TypeOK'
    <2>1. \A e \in E : [runs |-> live[e].check.runs + 1, target |-> live[e].body, open |-> TRUE] \in CheckRun
      BY <1>2, BoundsAssumption DEF StartRun, TypeOK, Live, CheckRun
    <2>2. live' \in [Entities -> Live]
      BY <1>2, <2>1 DEF StartRun, TypeOK, Live
    <2> QED
      BY <1>2, <2>2 DEF StartRun, TypeOK, lifecycle, files
  <1>3. ASSUME FinishRun
        PROVE  TypeOK'
    <2>1. live' \in [Entities -> Live]
      BY <1>3, ClosedRunType DEF FinishRun, TypeOK
    <2>2. \A e \in Entities : [Staged(e) EXCEPT !.check.open = FALSE] \in Candidate
      BY StagedType, ClosedRunType
    <2>3. latest' \in [Entities -> Candidate]
      BY <1>3, <2>2 DEF FinishRun
    <2> QED
      BY <1>3, <2>1, <2>3 DEF FinishRun, TypeOK, lifecycle, files
  <1>4. ASSUME NEW c \in Seen,
               Hold(c)
        PROVE  TypeOK'
    <2>1. c \in Candidate
      <3>1. \A b \in Boards : Offered(packet[b]) \subseteq Candidate
        BY OfferedType DEF TypeOK
      <3>2. {latest[e] : e \in Entities} \subseteq Candidate
        BY DEF TypeOK
      <3> QED
        BY <3>1, <3>2 DEF Seen, Boards
    <2>2. [cand |-> c, answered |-> FALSE] \in Dispute
      BY <2>1 DEF Dispute
    <2> QED
      BY <1>4, <2>2 DEF Hold, TypeOK, registry, files
  <1>5. ASSUME NEW d \in disputes,
               ImportDecision(d)
        PROVE  TypeOK'
    <2>1. [d EXCEPT !.answered = TRUE] \in Dispute
      BY DEF TypeOK, Dispute
    <2> QED
      BY <1>5, <2>1 DEF ImportDecision, TypeOK, registry, files
  <1>6. ASSUME NEW s \in Sessions,
               Wake(s)
        PROVE  TypeOK'
    BY <1>6 DEF Wake, TypeOK, registry, lifecycle, files
  <1>7. ASSUME NEW s \in Sessions,
               End(s)
        PROVE  TypeOK'
    BY <1>7 DEF End, TypeOK, registry, lifecycle, files
  <1>8. ASSUME NEW x \in Processes,
               Prepare(x, "none")
        PROVE  TypeOK'
    <2>1. latest' \in [Entities -> Candidate]
      BY <1>8, StagedAtType DEF Prepare
    <2>2. {[cand |-> c, ready |-> TRUE] : c \in {y \in ReadyOf(latest') : ~Approved(y)}} \in Packet
      BY <2>1, ReadyPacketType
    <2>3. [Idle EXCEPT !.at = "packet", !.goal = "none", !.packet =
              {[cand |-> c, ready |-> TRUE] : c \in {y \in ReadyOf(latest') : ~Approved(y)}}] \in Operation
      BY <2>2, IdleType DEF Operation, Steps, Boards
    <2>4. op' \in [Processes -> Operation]
      BY <1>8, <2>3 DEF Prepare, TypeOK
    <2> QED
      BY <1>8, <2>1, <2>4 DEF Prepare, TypeOK, lifecycle, files
  <1>9. ASSUME NEW x \in Processes,
               Prepare(x, "final")
        PROVE  TypeOK'
    <2>1. latest' \in [Entities -> Candidate]
      BY <1>9, StagedAtType DEF Prepare
    <2>2. {[cand |-> c, ready |-> TRUE] : c \in {y \in ReadyOf(latest') : ~Approved(y)}} \in Packet
      BY <2>1, ReadyPacketType
    <2>3. [Idle EXCEPT !.at = "packet", !.goal = "final", !.packet =
              {[cand |-> c, ready |-> TRUE] : c \in {y \in ReadyOf(latest') : ~Approved(y)}}] \in Operation
      BY <2>2, IdleType DEF Operation, Steps, Boards
    <2>4. op' \in [Processes -> Operation]
      BY <1>9, <2>3 DEF Prepare, TypeOK
    <2> QED
      BY <1>9, <2>1, <2>4 DEF Prepare, TypeOK, lifecycle, files
  <1>10. ASSUME NEW s \in Sessions,
               BeginClaimSource(s)
        PROVE  TypeOK'
    <2>1. [Idle EXCEPT !.at = "refresh", !.goal = "source"] \in Operation
      BY IdleType DEF Operation, Steps, Boards
    <2> QED
      BY <1>10, <2>1 DEF BeginClaimSource, TypeOK, registry, lifecycle, files
  <1>11. ASSUME NEW s \in Sessions,
               ClaimFinal(s)
        PROVE  TypeOK'
    <2>1. claim' \in [Boards -> Claim \cup {None}]
      BY <1>11, OpType, ClaimType DEF ClaimFinal, Take, TypeOK, Processes
    <2> QED
      BY <1>11, <2>1, IdleType DEF ClaimFinal, Leave, TypeOK, registry, lifecycle
  <1>12. ASSUME NEW s \in Sessions,
               ClaimSource(s)
        PROVE  TypeOK'
    <2>1. claim' \in [Boards -> Claim \cup {None}]
      BY <1>12, ClaimType DEF ClaimSource, Take, TypeOK, Boards
    <2> QED
      BY <1>12, <2>1, IdleType DEF ClaimSource, Leave, TypeOK, registry, lifecycle
  <1>13. ASSUME NEW x \in Processes,
               WritePacket(x)
        PROVE  TypeOK'
    <2>1. [op[x] EXCEPT !.at = "refresh"] \in Operation
      BY OpType, MovedType DEF Steps
    <2>2. op' \in [Processes -> Operation]
      BY <1>13, <2>1 DEF WritePacket, TypeOK
    <2>3. packet' \in [Boards -> Packet]
      BY <1>13, OpType DEF WritePacket, TypeOK
    <2> QED
      BY <1>13, <2>2, <2>3 DEF WritePacket, TypeOK, registry, lifecycle
  <1>14. ASSUME NEW x \in Processes,
               Refresh(x)
        PROVE  TypeOK'
    <2>8. [op[x] EXCEPT !.at = "claim"] \in Operation
      BY OpType, MovedType DEF Steps
    <2>9. AfterRefresh(x) => op' \in [Processes -> Operation]
      BY <2>8, IdleType DEF AfterRefresh, TypeOK
    <2>1. [op[x] EXCEPT !.at = "queue"] \in Operation
      BY OpType, MovedType DEF Steps
    <2>2. op' \in [Processes -> Operation]
      BY <1>14, <2>1, <2>9 DEF Refresh, TypeOK
    <2> QED
      BY <1>14, <2>2 DEF Refresh, TypeOK, registry, lifecycle, files
  <1>15. ASSUME NEW x \in Processes,
               Queue(x)
        PROVE  TypeOK'
    <2>8. [op[x] EXCEPT !.at = "claim"] \in Operation
      BY OpType, MovedType DEF Steps
    <2>9. AfterRefresh(x) => op' \in [Processes -> Operation]
      BY <2>8, IdleType DEF AfterRefresh, TypeOK
    <2>1. latest' \in [Entities -> Candidate]
      BY <1>15, StagedAtType DEF Queue
    <2>2. {[cand |-> latest'[e], ready |-> latest'[e] \in ReadyOf(latest')] : e \in Entities} \in Packet
      BY <2>1, ReadyPacketType
    <2>3. packet' \in [Boards -> Packet]
      BY <1>15, <2>2 DEF Queue, TypeOK
    <2>4. items' \in [Entities -> ItemReview \cup {None}]
      BY <1>15 DEF Queue, TypeOK
    <2> QED
      BY <1>15, <2>1, <2>3, <2>4, <2>9 DEF Queue, TypeOK, lifecycle
  <1>16. ASSUME NEW x \in Processes,
               Raise(x)
        PROVE  TypeOK'
    BY <1>16, IdleType DEF Raise, Leave, TypeOK, registry, lifecycle, files
  <1>17. ASSUME NEW x \in Processes,
               Crash(x)
        PROVE  TypeOK'
    <2>1. crashes' \in 0..MaxCrashes
      BY <1>17, BoundsAssumption DEF Crash, TypeOK
    <2> QED
      BY <1>17, <2>1, IdleType DEF Crash, Leave, TypeOK, registry, lifecycle, files
  <1>18. ASSUME NEW s \in Sessions, NEW v \in Judgements(packet["final"]),
               BeginFinal(s, v)
        PROVE  TypeOK'
    <2>1. packet["final"] \in Packet /\ v \in [Entities -> Verdicts]
      BY DEF Judgements, Verdicts, TypeOK, Boards
    <2>2. [Idle EXCEPT !.at = "commit", !.packet = packet["final"], !.verdict = v] \in Operation
      BY <2>1, IdleType DEF Operation, Steps
    <2> QED
      BY <1>18, <2>2 DEF BeginFinal, TypeOK, registry, lifecycle, files
  <1>19. ASSUME NEW s \in Sessions, NEW v \in Judgements(packet["source"]),
               BeginSource(s, v)
        PROVE  TypeOK'
    <2>1. [Idle EXCEPT !.at = "item", !.verdict = v, !.left = {e \in Entities : v[e] = "pass"}] \in Operation
      BY IdleType DEF Operation, Steps, Judgements, Verdicts
    <2> QED
      BY <1>19, <2>1 DEF BeginSource, TypeOK, registry, lifecycle, files
  <1>20. ASSUME NEW s \in Sessions, NEW c \in Offered(packet["source"]),
               SubmitItem(s, c)
        PROVE  TypeOK'
    <2> DEFINE now == StagedAt({c.entity})
               passes == Publishable(now, c)
    <2>1. c \in Candidate
      BY OfferedType DEF TypeOK, Boards
    <2>2. c.entity \in Entities
      BY <2>1 DEF Candidate
    <2>3. passes \in BOOLEAN
      BY DEF Publishable, InfoReady
    <2>4. /\ latest' = now
          /\ reviews' = reviews \cup {[cand |-> c, by |-> s, pass |-> passes]}
          /\ published' = IF passes THEN [published EXCEPT ![c.entity] = c] ELSE published
          /\ op' = [op EXCEPT ![s].left = @ \ {c.entity},
                    ![s].verdict[c.entity] = IF passes THEN "pass" ELSE "failed"]
      BY <1>20 DEF SubmitItem
    <2> HIDE DEF passes
    <2>5. latest' \in [Entities -> Candidate]
      BY <2>4, StagedAtType
    <2>6. [cand |-> c, by |-> s, pass |-> passes] \in Review
      BY <2>1, <2>3 DEF Review
    <2>7. published' \in [Entities -> Candidate \cup {None}]
      BY <2>1, <2>2, <2>4 DEF TypeOK
    <2>8. op' \in [Processes -> Operation]
      <3>1. [op[s] EXCEPT !.left = @ \ {c.entity}, !.verdict[c.entity] = IF passes THEN "pass" ELSE "failed"]
              \in Operation
        BY <2>2, OpType, JudgedType DEF Verdicts, Processes
      <3>2. op' = [op EXCEPT ![s] = [op[s] EXCEPT !.left = @ \ {c.entity},
                       !.verdict[c.entity] = IF passes THEN "pass" ELSE "failed"]]
        BY <2>4 DEF TypeOK, Processes, Operation
      <3> QED
        BY <3>1, <3>2 DEF TypeOK
    <2> QED
      BY <1>20, <2>4, <2>5, <2>6, <2>7, <2>8 DEF SubmitItem, TypeOK, lifecycle, files
  <1>21. ASSUME NEW s \in Sessions,
               CommitFinal(s)
        PROVE  TypeOK'
    <2> DEFINE offered == Offered(op[s].packet)
               now == StagedAt({c.entity : c \in offered})
               judged == {c \in offered : op[s].verdict[c.entity] # "none"}
               passed == {c \in judged : op[s].verdict[c.entity] = "pass" /\ Publishable(now, c)}
    <2>1. judged \subseteq Candidate
      BY OpType, OfferedType DEF Processes
    <2>2. /\ latest' = now
          /\ reviews' = reviews \cup {[cand |-> c, by |-> s, pass |-> c \in passed] : c \in judged}
          /\ published' = [e \in Entities |->
                 IF \E c \in passed : c.entity = e THEN CHOOSE c \in passed : c.entity = e ELSE published[e]]
          /\ op' = [op EXCEPT ![s].at = "release"]
      BY <1>21 DEF CommitFinal
    <2>9. passed \subseteq judged
      OBVIOUS
    <2>3. now \in [Entities -> Candidate]
      BY StagedAtType
    <2> HIDE DEF now, passed, judged
    <2>4. \A c \in judged : (c \in passed) \in BOOLEAN
      OBVIOUS
    <2>5. \A c \in judged : [cand |-> c, by |-> s, pass |-> c \in passed] \in Review
      BY <2>1, <2>4 DEF Review
    <2>6. reviews' \subseteq Review
      BY <2>2, <2>5 DEF TypeOK
    <2>7. published' \in [Entities -> Candidate \cup {None}]
      <3>1. \A e \in Entities : (\E c \in passed : c.entity = e)
                => (CHOOSE c \in passed : c.entity = e) \in Candidate
        BY <2>1, <2>9
      <3>2. \A e \in Entities : published[e] \in Candidate \cup {None}
        BY DEF TypeOK
      <3> QED
        BY <2>2, <3>1, <3>2
    <2>8. op' \in [Processes -> Operation]
      BY <2>2, OpType, MovedType DEF TypeOK, Processes, Steps
    <2> QED
      BY <1>21, <2>2, <2>3, <2>6, <2>7, <2>8 DEF CommitFinal, TypeOK, lifecycle, files
  <1>22. ASSUME NEW s \in Sessions,
               ReleaseFinal(s)
        PROVE  TypeOK'
    <2>1. claim' \in [Boards -> Claim \cup {None}]
      BY <1>22, OpType, ClaimType DEF ReleaseFinal, TypeOK, Processes
    <2> QED
      BY <1>22, <2>1, IdleType DEF ReleaseFinal, Leave, TypeOK, registry, lifecycle
  <1>23. ASSUME NEW s \in Sessions,
               WriteReceipt(s)
        PROVE  TypeOK'
    <2>1. receipts' \subseteq Candidate
      BY <1>23, OfferedType DEF WriteReceipt, TypeOK, Boards
    <2>2. op' \in [Processes -> Operation]
      BY <1>23, OpType, MovedType DEF WriteReceipt, TypeOK, Processes, Steps
    <2> QED
      BY <1>23, <2>1, <2>2 DEF WriteReceipt, TypeOK, registry, files
  <1>24. ASSUME NEW s \in Sessions,
               SaveState(s)
        PROVE  TypeOK'
    <2>1. ASSUME NEW e \in Entities, op[s].verdict[e] # "none"
          PROVE  Recorded(s, CHOOSE c \in Offered(packet["source"]) : c.entity = e) \in ItemReview
      <3>1. \E c \in Offered(packet["source"]) : c.entity = e
        BY <1>24, <2>1 DEF SaveState, Judged
      <3>2. (CHOOSE c \in Offered(packet["source"]) : c.entity = e) \in Candidate
        BY <3>1, OfferedType DEF TypeOK, Boards
      <3> QED
        BY <3>2 DEF Recorded, ItemReview
    <2>2. items' \in [Entities -> ItemReview \cup {None}]
      BY <1>24, <2>1 DEF SaveState, TypeOK
    <2>3. op' \in [Processes -> Operation]
      BY <1>24, OpType, MovedType DEF SaveState, TypeOK, Processes, Steps
    <2> QED
      BY <1>24, <2>2, <2>3 DEF SaveState, TypeOK, registry, lifecycle
  <1>25. ASSUME NEW s \in Sessions,
               ReleaseSource(s)
        PROVE  TypeOK'
    <2>1. claim' \in [Boards -> Claim \cup {None}]
      BY <1>25, CloseType DEF ReleaseSource, Boards
    <2> QED
      BY <1>25, <2>1, IdleType DEF ReleaseSource, Leave, TypeOK, registry, lifecycle
  <1>26. ASSUME NEW s \in Sessions,
               Refuse(s)
        PROVE  TypeOK'
    BY <1>26, IdleType DEF Refuse, Leave, TypeOK, registry, lifecycle, files
  <1>27. ASSUME NEW s \in Sessions, NEW y \in packet["source"], NEW kept \in {{}, y.cand.authors},
               Correct(s, y.cand, kept)
        PROVE  TypeOK'
    <2> DEFINE e == y.cand.entity
               new == [Staged(e) EXCEPT !.fixes = live[e].fixes + 1, !.authors = {s} \cup kept]
               changed == {IF x.cand = y.cand THEN [x EXCEPT !.cand = new] ELSE x : x \in packet["source"]}
    <2>1. packet["source"] \subseteq [cand : Candidate, ready : BOOLEAN]
      BY DEF TypeOK, Boards, Packet
    <2>2. e \in Entities /\ kept \in SUBSET Sessions
      BY <2>1 DEF Candidate
    <2>3. live[e] \in Live /\ live[e].fixes + 1 \in 0..MaxFixes
      BY <1>27, <2>2, BoundsAssumption DEF Correct, TypeOK, Live
    <2>4. new \in Candidate
      <3>1. Staged(e) \in Candidate
        BY <2>2, StagedType
      <3> QED
        BY <2>2, <2>3, <3>1 DEF Candidate
    <2>5. /\ live' = [live EXCEPT ![e].fixes = @ + 1]
          /\ latest' = [latest EXCEPT ![e] = new]
          /\ op' = [op EXCEPT ![s] = [Idle EXCEPT !.at = "closing", !.packet = changed]]
      BY <1>27 DEF Correct
    <2> HIDE DEF new
    <2>6. changed \in Packet
      BY <2>1, <2>4 DEF Packet
    <2> HIDE DEF changed
    <2>7. op' \in [Processes -> Operation]
      BY <2>5, <2>6, IdleType DEF TypeOK, Operation, Steps
    <2>8. live' \in [Entities -> Live]
      BY <2>2, <2>3, <2>5 DEF TypeOK, Live
    <2>9. latest' \in [Entities -> Candidate]
      BY <2>2, <2>4, <2>5 DEF TypeOK
    <2> QED
      BY <1>27, <2>7, <2>8, <2>9 DEF Correct, TypeOK, lifecycle, files
  <1>28. ASSUME NEW s \in Sessions,
               CloseCorrected(s)
        PROVE  TypeOK'
    <2>1. claim' \in [Boards -> Claim \cup {None}]
      BY <1>28, CloseType DEF CloseCorrected, Boards
    <2>2. op' \in [Processes -> Operation]
      BY <1>28, OpType, MovedType DEF CloseCorrected, TypeOK, Processes, Steps
    <2> QED
      BY <1>28, <2>1, <2>2 DEF CloseCorrected, TypeOK, registry, lifecycle
  <1>29. ASSUME NEW s \in Sessions,
               SaveCorrected(s)
        PROVE  TypeOK'
    <2>1. packet' \in [Boards -> Packet]
      BY <1>29, OpType DEF SaveCorrected, TypeOK, Processes
    <2>2. items' \in [Entities -> ItemReview \cup {None}]
      BY <1>29 DEF SaveCorrected, TypeOK
    <2> QED
      BY <1>29, <2>1, <2>2, IdleType DEF SaveCorrected, Leave, TypeOK, registry, lifecycle
  <1> QED
    BY <1>1, <1>2, <1>3, <1>4, <1>5, <1>6, <1>7, <1>8, <1>9, <1>10, <1>11, <1>12, <1>13, <1>14, <1>15, <1>16, <1>17, <1>18, <1>19, <1>20, <1>21, <1>22, <1>23, <1>24, <1>25, <1>26, <1>27, <1>28, <1>29, StepCases

LEMMA TypeInit ==
    ASSUME Init
    PROVE  TypeOK
  <1>1. /\ 1 \in 1..MaxBody /\ 0 \in 0..MaxRuns /\ 0 \in 0..MaxBody
        /\ 0 \in 0..MaxFixes /\ 0 \in 0..MaxCrashes
    BY BoundsAssumption
  <1>2. Unchecked \in CheckRun
    BY <1>1 DEF Unchecked, CheckRun
  <1>3. \A e \in Entities : First(e) \in Candidate
    BY <1>1, <1>2 DEF First, Candidate
  <1>4. {[cand |-> First(e), ready |-> FALSE] : e \in Entities} \in Packet
    <2>1. \A e \in Entities : [cand |-> First(e), ready |-> FALSE] \in [cand : Candidate, ready : BOOLEAN]
      BY <1>3, EntryType
    <2> QED
      BY <2>1, Zenon DEF Packet
  <1>5. packet \in [Boards -> Packet]
    <2>1. {} \in Packet
      BY DEF Packet
    <2> QED
      BY <1>4, <2>1 DEF Init
  <1>6. live \in [Entities -> Live]
    BY <1>1, <1>2 DEF Init, Live
  <1> QED
    BY <1>1, <1>3, <1>5, <1>6, IdleType DEF Init, TypeOK

-----------------------------------------------------------------------------
\* The Registry: what its transactions do to latest and published

\* Every action leaves the Registry alone, or is one of these.
Restaged == \E E \in SUBSET Entities : latest' = StagedAt(E) /\ UNCHANGED <<live, published, reviews>>

LEMMA RegistryCases ==
    ASSUME Next
    PROVE  \/ UNCHANGED registry
           \/ \E e \in Entities : Collect(e)
           \/ \E E \in SUBSET Entities : StartRun(E)
           \/ FinishRun
           \/ Restaged
           \/ \E s \in Sessions : \E c \in Offered(packet["source"]) : SubmitItem(s, c)
           \/ \E s \in Sessions : CommitFinal(s)
           \/ \E s \in Sessions : \E y \in packet["source"] : \E kept \in {{}, y.cand.authors} :
                  Correct(s, y.cand, kept)
  <1>1. ASSUME NEW x \in Processes, Prepare(x, "none") \/ Prepare(x, "final") \/ Queue(x)
        PROVE  Restaged
    BY <1>1 DEF Prepare, Queue, Restaged
  <1>2. \A c \in Seen : Hold(c) => UNCHANGED registry
    BY DEF Hold
  <1>3. \A d \in disputes : ImportDecision(d) => UNCHANGED registry
    BY DEF ImportDecision
  <1>4. \A s \in Sessions : Wake(s) \/ End(s) \/ BeginClaimSource(s) \/ ClaimFinal(s) \/ ClaimSource(s)
            => UNCHANGED registry
    BY DEF Wake, End, BeginClaimSource, ClaimFinal, ClaimSource
  <1>5. \A x \in Processes : WritePacket(x) \/ Refresh(x) \/ Raise(x) \/ Crash(x) => UNCHANGED registry
    BY DEF WritePacket, Refresh, Raise, Crash
  <1>6. \A s \in Sessions : \A v : BeginFinal(s, v) \/ BeginSource(s, v) => UNCHANGED registry
    BY DEF BeginFinal, BeginSource
  <1>7. \A s \in Sessions : ReleaseFinal(s) \/ WriteReceipt(s) \/ SaveState(s) \/ ReleaseSource(s) \/ Refuse(s)
            => UNCHANGED registry
    BY DEF ReleaseFinal, WriteReceipt, SaveState, ReleaseSource, Refuse
  <1>8. \A s \in Sessions : CloseCorrected(s) \/ SaveCorrected(s) => UNCHANGED registry
    BY DEF CloseCorrected, SaveCorrected
  <1> HIDE DEF Restaged
  <1> QED
    BY <1>1, <1>2, <1>3, <1>4, <1>5, <1>6, <1>7, <1>8, StepCases

LEMMA StagedAtEntity ==
    ASSUME TypeOK, Indexed, NEW E, NEW e \in Entities
    PROVE  StagedAt(E)[e].entity = e
  BY StagedType DEF StagedAt, Indexed

\* The submissions, in the terms the properties need.
LEMMA SubmitItemFacts ==
    ASSUME TypeOK, Indexed, NEW s \in Sessions, NEW c \in Offered(packet["source"]), SubmitItem(s, c)
    PROVE  /\ c \in Candidate /\ c.entity \in Entities
           /\ s \notin c.authors
           /\ latest' = StagedAt({c.entity}) /\ live' = live
           /\ \/ published' = published
              \/ /\ published' = [published EXCEPT ![c.entity] = c]
                 /\ latest'[c.entity] = c
                 /\ ~Held(latest', c)
           /\ \E b \in BOOLEAN : reviews' = reviews \cup {[cand |-> c, by |-> s, pass |-> b]}
  <1>1. c \in Candidate /\ c.entity \in Entities
    BY OfferedType DEF TypeOK, Boards, Candidate
  <1> DEFINE now == StagedAt({c.entity})
             passes == Publishable(now, c)
  <1>2. /\ NothingHeld(s, now)
        /\ latest' = now
        /\ reviews' = reviews \cup {[cand |-> c, by |-> s, pass |-> passes]}
        /\ published' = IF passes THEN [published EXCEPT ![c.entity] = c] ELSE published
        /\ live' = live
    BY DEF SubmitItem
  <1>3. passes \in BOOLEAN /\ (passes => now[c.entity] = c)
    BY DEF Publishable, InfoReady
  <1> HIDE DEF passes
  <1>4. s \notin c.authors /\ ~Held(now, c)
    BY <1>2 DEF NothingHeld, Independent
  <1> QED
    BY <1>1, <1>2, <1>3, <1>4

LEMMA CommitFinalFacts ==
    ASSUME TypeOK, Indexed, NEW s \in Sessions, CommitFinal(s)
    PROVE  /\ \E E \in SUBSET Entities : latest' = StagedAt(E)
           /\ live' = live
           /\ \A r \in reviews' \ reviews : r.by = s /\ s \notin r.cand.authors
           /\ \A e \in Entities : published'[e] # published[e] =>
                  published'[e] = latest'[e] /\ ~Held(latest', latest'[e])
           /\ published' \in [Entities -> {latest'[e] : e \in Entities} \cup {published[e] : e \in Entities}]
  <1> DEFINE offered == Offered(op[s].packet)
             now == StagedAt({c.entity : c \in offered})
             judged == {c \in offered : op[s].verdict[c.entity] # "none"}
             passed == {c \in judged : op[s].verdict[c.entity] = "pass" /\ Publishable(now, c)}
  <1>1. /\ Independent(s, op[s].packet)
        /\ \A c \in offered : ~Held(now, c)
        /\ latest' = now
        /\ reviews' = reviews \cup {[cand |-> c, by |-> s, pass |-> c \in passed] : c \in judged}
        /\ published' = [e \in Entities |->
               IF \E c \in passed : c.entity = e THEN CHOOSE c \in passed : c.entity = e ELSE published[e]]
        /\ live' = live
    BY DEF CommitFinal
  <1>2. \A c \in judged : s \notin c.authors
    BY <1>1 DEF Independent
  <1>3. offered \subseteq Candidate
    BY OpType, OfferedType DEF Processes
  <1>4. {c.entity : c \in offered} \in SUBSET Entities
    BY <1>3 DEF Candidate
  <1>5. passed \subseteq offered /\ \A c \in passed : now[c.entity] = c
    BY DEF Publishable
  <1>6. \E E \in SUBSET Entities : latest' = StagedAt(E)
    BY <1>1, <1>4
  <1> HIDE DEF passed, judged, now, offered
  <1>7. \A r \in reviews' \ reviews : r.by = s /\ s \notin r.cand.authors
    BY <1>1, <1>2
  <1>8. \A e \in Entities : published'[e] # published[e] =>
            published'[e] = latest'[e] /\ ~Held(latest', latest'[e])
    <2> TAKE e \in Entities
    <2> HAVE published'[e] # published[e]
    <2>1. \E c \in passed : c.entity = e
      BY <1>1
    <2>2. PICK c \in passed : c.entity = e /\ published'[e] = c
      BY <1>1, <2>1
    <2>3. c \in offered /\ latest'[e] = c
      BY <1>1, <1>5, <2>2
    <2> QED
      BY <1>1, <2>2, <2>3
  <1>9. published' \in [Entities -> {latest'[e] : e \in Entities} \cup {published[e] : e \in Entities}]
    <2>1. \A e \in Entities : published'[e] = latest'[e] \/ published'[e] = published[e]
      BY <1>8
    <2> QED
      BY <1>1, <2>1
  <1> QED
    BY <1>1, <1>6, <1>7, <1>8, <1>9

LEMMA IndexedStep ==
    ASSUME TypeOK, Indexed, Next
    PROVE  Indexed'
  <1>1. CASE UNCHANGED registry
    BY <1>1 DEF registry, Indexed
  <1>2. ASSUME NEW e \in Entities, Collect(e)
        PROVE  Indexed'
    BY <1>2, StagedType DEF Collect, Indexed, Candidate
  <1>3. ASSUME NEW E \in SUBSET Entities, StartRun(E)
        PROVE  Indexed'
    BY <1>3 DEF StartRun, Indexed
  <1>4. CASE FinishRun
    BY <1>4, StagedType DEF FinishRun, Indexed, Candidate
  <1>5. CASE Restaged
    BY <1>5, StagedAtEntity DEF Restaged, Indexed
  <1>6. ASSUME NEW s \in Sessions, NEW c \in Offered(packet["source"]), SubmitItem(s, c)
        PROVE  Indexed'
    <2>1. latest' = StagedAt({c.entity})
      BY <1>6 DEF SubmitItem
    <2> QED
      BY <2>1, StagedAtEntity DEF Indexed
  <1>7. ASSUME NEW s \in Sessions, CommitFinal(s)
        PROVE  Indexed'
    BY <1>7, CommitFinalFacts, StagedAtEntity DEF Indexed
  <1>8. ASSUME NEW s \in Sessions, NEW y \in packet["source"], NEW kept \in {{}, y.cand.authors},
               Correct(s, y.cand, kept)
        PROVE  Indexed'
    <2>1. y.cand.entity \in Entities
      BY DEF TypeOK, Boards, Packet, Candidate
    <2> QED
      BY <1>8, <2>1, StagedType DEF Correct, Indexed, TypeOK, Candidate
  <1> QED
    BY <1>1, <1>2, <1>3, <1>4, <1>5, <1>6, <1>7, <1>8, RegistryCases

-----------------------------------------------------------------------------
\* Who approves, and what is published

LEMMA IndependentStep ==
    ASSUME TypeOK, Indexed, IndependentApproval, Next
    PROVE  IndependentApproval'
  <1> USE DEF IndependentApproval
  <1>1. CASE UNCHANGED registry
    BY <1>1 DEF registry
  <1>2. ASSUME NEW e \in Entities, Collect(e)
        PROVE  IndependentApproval'
    BY <1>2 DEF Collect
  <1>3. ASSUME NEW E \in SUBSET Entities, StartRun(E)
        PROVE  IndependentApproval'
    BY <1>3 DEF StartRun
  <1>4. CASE FinishRun
    BY <1>4 DEF FinishRun
  <1>5. CASE Restaged
    BY <1>5 DEF Restaged
  <1>6. ASSUME NEW s \in Sessions, NEW c \in Offered(packet["source"]), SubmitItem(s, c)
        PROVE  IndependentApproval'
    <2>1. PICK b \in BOOLEAN : reviews' = reviews \cup {[cand |-> c, by |-> s, pass |-> b]}
      BY <1>6, SubmitItemFacts
    <2>2. s \notin c.authors
      BY <1>6, SubmitItemFacts
    <2> QED
      BY <2>1, <2>2
  <1>7. ASSUME NEW s \in Sessions, CommitFinal(s)
        PROVE  IndependentApproval'
    <2>1. \A r \in reviews' \ reviews : r.by = s /\ s \notin r.cand.authors
      BY <1>7, CommitFinalFacts
    <2> QED
      BY <2>1
  <1>8. ASSUME NEW s \in Sessions, NEW y \in packet["source"], NEW kept \in {{}, y.cand.authors},
               Correct(s, y.cand, kept)
        PROVE  IndependentApproval'
    BY <1>8 DEF Correct
  <1> QED
    BY <1>1, <1>2, <1>3, <1>4, <1>5, <1>6, <1>7, <1>8, RegistryCases

\* Whatever is published anew is the latest candidate, and is not held.
LEMMA PublishedStep ==
    ASSUME TypeOK, Indexed, Next, NEW e \in Entities, published'[e] # published[e]
    PROVE  /\ published'[e] = latest'[e]
           /\ ~Negative(published'[e]) /\ ~Disputed(published'[e])
  <1>1. PICK c : /\ c = published'[e] /\ c.entity = e /\ latest'[e] = c /\ ~Held(latest', c)
    <2>1. CASE UNCHANGED registry
      BY <2>1 DEF registry
    <2>2. ASSUME NEW f \in Entities, Collect(f)
          PROVE  FALSE
      BY <2>2 DEF Collect
    <2>3. ASSUME NEW E \in SUBSET Entities, StartRun(E)
          PROVE  FALSE
      BY <2>3 DEF StartRun
    <2>4. CASE FinishRun
      BY <2>4 DEF FinishRun
    <2>5. CASE Restaged
      BY <2>5 DEF Restaged
    <2>6. ASSUME NEW s \in Sessions, NEW c \in Offered(packet["source"]), SubmitItem(s, c)
          PROVE  \E d : d = published'[e] /\ d.entity = e /\ latest'[e] = d /\ ~Held(latest', d)
      <3>1. /\ published' = [published EXCEPT ![c.entity] = c]
            /\ latest'[c.entity] = c
            /\ ~Held(latest', c)
        BY <2>6, SubmitItemFacts
      <3>2. c.entity = e /\ published'[e] = c
        BY <3>1 DEF TypeOK
      <3> QED
        BY <3>1, <3>2
    <2>7. ASSUME NEW s \in Sessions, CommitFinal(s)
          PROVE  \E d : d = published'[e] /\ d.entity = e /\ latest'[e] = d /\ ~Held(latest', d)
      <3>1. published'[e] = latest'[e] /\ ~Held(latest', latest'[e])
        BY <2>7, CommitFinalFacts
      <3>2. latest'[e].entity = e
        BY IndexedStep DEF Indexed
      <3> QED
        BY <3>1, <3>2
    <2>8. ASSUME NEW s \in Sessions, NEW y \in packet["source"], NEW kept \in {{}, y.cand.authors},
                 Correct(s, y.cand, kept)
          PROVE  FALSE
      BY <2>8 DEF Correct
    <2> QED
      BY <2>1, <2>2, <2>3, <2>4, <2>5, <2>6, <2>7, <2>8, RegistryCases
  <1>2. ~Approved(c)
    BY <1>1 DEF Approved
  <1> QED
    BY <1>1, <1>2 DEF Held

-----------------------------------------------------------------------------
\* Nothing goes back: live, latest and published in one order

Levelled(r) == r.body \in Nat /\ r.fixes \in Nat /\ r.check.runs \in Nat

LEMMA SinceFacts ==
    ASSUME NEW a, NEW b, NEW c, Levelled(a), Levelled(b), Levelled(c)
    PROVE  /\ Since(a, a)
           /\ Since(a, b) /\ Since(b, c) => Since(a, c)
  BY DEF Levelled, Since

Ordered == \A e \in Entities :
    /\ Since(live[e], latest[e])
    /\ published[e] # None => Since(latest[e], published[e])

LEMMA Levels ==
    /\ \A r \in Live : Levelled(r)
    /\ \A c \in Candidate : Levelled(c)
  BY BoundsAssumption DEF Live, Candidate, CheckRun, Levelled

\* The end of a run changes no level.
LEMMA ClosedRunLevels ==
    ASSUME NEW r \in Live \cup Candidate
    PROVE  /\ [r EXCEPT !.check.open = FALSE].body = r.body
           /\ [r EXCEPT !.check.open = FALSE].fixes = r.fixes
           /\ [r EXCEPT !.check.open = FALSE].check.runs = r.check.runs
  BY DEF Live, Candidate, CheckRun

\* Every transaction moves live and latest on.
LEMMA LatestStep ==
    ASSUME TypeOK, TypeOK', Indexed, Ordered, Next, NEW e \in Entities
    PROVE  Since(live'[e], latest'[e]) /\ Since(latest'[e], latest[e])
  <1>1. /\ Levelled(live[e]) /\ Levelled(latest[e])
        /\ Levelled(live'[e]) /\ Levelled(latest'[e])
    BY Levels DEF TypeOK
  <1>2. Since(live[e], latest[e]) /\ Since(latest[e], latest[e])
    BY <1>1, SinceFacts DEF Ordered
  <1>3. Since(live[e], Staged(e)) /\ Since(Staged(e), latest[e])
    BY <1>1, <1>2 DEF Staged, Since, Levelled
  <1>4. \A E : Since(live[e], StagedAt(E)[e]) /\ Since(StagedAt(E)[e], latest[e])
    BY <1>2, <1>3 DEF StagedAt
  <1>5. CASE UNCHANGED registry
    BY <1>2, <1>5 DEF registry
  <1>6. ASSUME NEW f \in Entities, Collect(f)
        PROVE  Since(live'[e], latest'[e]) /\ Since(latest'[e], latest[e])
    BY <1>1, <1>2, <1>6, StagedType DEF Collect, Staged, Since, Levelled, TypeOK, Live, Candidate
  <1>7. ASSUME NEW E \in SUBSET Entities, StartRun(E)
        PROVE  Since(live'[e], latest'[e]) /\ Since(latest'[e], latest[e])
    BY <1>1, <1>2, <1>7 DEF StartRun, Since, Levelled, TypeOK, Live
  <1>8. CASE FinishRun
    <2>1. /\ live'[e] = [live[e] EXCEPT !.check.open = FALSE]
          /\ latest'[e] = [Staged(e) EXCEPT !.check.open = FALSE]
          /\ live[e] \in Live /\ Staged(e) \in Candidate
      BY <1>8, StagedType DEF FinishRun, TypeOK
    <2>2. /\ live'[e].body = live[e].body /\ live'[e].fixes = live[e].fixes
          /\ live'[e].check.runs = live[e].check.runs
          /\ latest'[e].body = Staged(e).body /\ latest'[e].fixes = Staged(e).fixes
          /\ latest'[e].check.runs = Staged(e).check.runs
      BY <2>1, ClosedRunLevels
    <2> QED
      BY <1>3, <2>2 DEF Since
  <1>9. CASE Restaged
    BY <1>4, <1>9 DEF Restaged
  <1>10. ASSUME NEW s \in Sessions, NEW c \in Offered(packet["source"]), SubmitItem(s, c)
         PROVE  Since(live'[e], latest'[e]) /\ Since(latest'[e], latest[e])
    BY <1>4, <1>10 DEF SubmitItem
  <1>11. ASSUME NEW s \in Sessions, CommitFinal(s)
         PROVE  Since(live'[e], latest'[e]) /\ Since(latest'[e], latest[e])
    BY <1>4, <1>11 DEF CommitFinal
  <1>12. ASSUME NEW s \in Sessions, NEW y \in packet["source"], NEW kept \in {{}, y.cand.authors},
                Correct(s, y.cand, kept)
         PROVE  Since(live'[e], latest'[e]) /\ Since(latest'[e], latest[e])
    <2> DEFINE f == y.cand.entity
               new == [Staged(f) EXCEPT !.fixes = live[f].fixes + 1, !.authors = {s} \cup kept]
    <2>1. /\ live' = [live EXCEPT ![f].fixes = @ + 1]
          /\ latest' = [latest EXCEPT ![f] = new]
      BY <1>12 DEF Correct
    <2>2. CASE e = f
      <3>1. live[e] \in Live /\ Staged(e) \in Candidate
        BY StagedType DEF TypeOK
      <3>2. /\ latest'[e].body = Staged(e).body /\ latest'[e].fixes = live[e].fixes + 1
            /\ latest'[e].check = Staged(e).check
        BY <2>1, <2>2, <3>1 DEF TypeOK, Candidate
      <3>3. /\ live'[e].body = live[e].body /\ live'[e].fixes = live[e].fixes + 1
            /\ live'[e].check = live[e].check
        BY <2>1, <2>2, <3>1 DEF TypeOK, Live
      <3>4. Staged(e).fixes = live[e].fixes
        BY DEF Staged
      <3> QED
        BY <1>1, <1>3, <3>2, <3>3, <3>4 DEF Since, Levelled
    <2>3. CASE e # f
      BY <1>2, <2>1, <2>3 DEF TypeOK
    <2> QED
      BY <2>2, <2>3
  <1> QED
    BY <1>5, <1>6, <1>7, <1>8, <1>9, <1>10, <1>11, <1>12, RegistryCases

LEMMA OrderedStep ==
    ASSUME TypeOK, TypeOK', Indexed, Ordered, Next
    PROVE  /\ Ordered'
           /\ \A e \in Entities : published[e] # None =>
                  published'[e] # None /\ Since(published'[e], published[e])
  <1> SUFFICES ASSUME NEW e \in Entities
      PROVE  /\ Since(live'[e], latest'[e])
             /\ published'[e] # None => Since(latest'[e], published'[e])
             /\ published[e] # None => published'[e] # None /\ Since(published'[e], published[e])
    BY DEF Ordered
  <1>1. Since(live'[e], latest'[e]) /\ Since(latest'[e], latest[e])
    BY LatestStep
  <1>2. /\ Levelled(latest[e]) /\ Levelled(latest'[e])
        /\ published[e] # None => Levelled(published[e])
    BY Levels DEF TypeOK
  <1>3. published[e] # None => Since(latest'[e], published[e]) /\ Since(published[e], published[e])
    BY <1>1, <1>2, SinceFacts DEF Ordered
  <1>4. Since(latest'[e], latest'[e]) /\ latest'[e] # None
    BY <1>2, SinceFacts, NoneAssumption DEF TypeOK
  <1>5. published'[e] # published[e] => published'[e] = latest'[e]
    BY PublishedStep
  <1> QED
    BY <1>1, <1>3, <1>4, <1>5

-----------------------------------------------------------------------------
\* The boards: one submission at a time, of the packet its session owns

Board == Working /\ OneSubmitter /\ Judged /\ SubmitterOwns

LEMMA OpAfter ==
    ASSUME TypeOK, NEW x \in Processes, NEW o, op' = [op EXCEPT ![x] = o]
    PROVE  /\ op'[x] = o
           /\ \A y \in Processes : y # x => op'[y] = op[y]
  BY DEF TypeOK

LEMMA WorkingStep ==
    ASSUME TypeOK, Working, NEW x \in Processes, NEW o, op' = [op EXCEPT ![x] = o],
           o # Idle => op[x] # Idle \/ Free(x),
           \A s \in Sessions : s = x \/ session'[s] = session[s],
           session'[x] = session[x] \/ o = Idle
    PROVE  Working'
  BY OpAfter DEF Working, Free, Processes

LEMMA OneSubmitterStep ==
    ASSUME TypeOK, OneSubmitter, NEW x \in Processes, NEW o, op' = [op EXCEPT ![x] = o],
           o.at \in Submitting => op[x].at \in Submitting \/ ~SourceLocked
    PROVE  OneSubmitter'
  BY OpAfter DEF OneSubmitter, SourceLocked

LEMMA JudgedStep ==
    ASSUME TypeOK, Judged, NEW x \in Processes, NEW o, op' = [op EXCEPT ![x] = o],
           packet'["source"] = packet["source"],
           o.at \in {"item", "state"} => \A e \in Entities : o.verdict[e] # "none" =>
               \E c \in Offered(packet["source"]) : c.entity = e
    PROVE  Judged'
  <1>1. Offered(packet["source"])' = Offered(packet["source"])
    BY DEF Offered
  <1> QED
    BY <1>1, OpAfter DEF Judged, Processes

\* The others keep their boards, and the process that moves has its own.
LEMMA OwnsStep ==
    ASSUME TypeOK, SubmitterOwns, NEW x \in Processes, NEW o, op' = [op EXCEPT ![x] = o],
           \A t \in Sessions : t # x /\ op[t].at \in {"commit", "release"} =>
               claim'["final"] = claim["final"],
           \A t \in Sessions : t # x /\ op[t].at \in {"item", "state", "unlock"} =>
               claim'["source"] = claim["source"] /\ packet'["source"] = packet["source"],
           o.at \in {"commit", "release"} =>
               claim'["final"] = [by |-> x, packet |-> o.packet, open |-> TRUE],
           o.at \in {"item", "state", "unlock"} =>
               claim'["source"] = [by |-> x, packet |-> packet'["source"], open |-> TRUE]
    PROVE  SubmitterOwns'
  <1>1. ASSUME NEW t \in Sessions
        PROVE  /\ op'[t].at \in {"commit", "release"} =>
                     claim'["final"] = [by |-> t, packet |-> op'[t].packet, open |-> TRUE]
               /\ op'[t].at \in {"item", "state", "unlock"} =>
                     claim'["source"] = [by |-> t, packet |-> packet'["source"], open |-> TRUE]
    <2>1. t \in Processes
      BY DEF Processes
    <2>2. CASE t = x
      <3>1. op'[x] = o
        BY DEF TypeOK
      <3>2. /\ op'[x].at \in {"commit", "release"} =>
                  claim'["final"] = [by |-> x, packet |-> op'[x].packet, open |-> TRUE]
            /\ op'[x].at \in {"item", "state", "unlock"} =>
                  claim'["source"] = [by |-> x, packet |-> packet'["source"], open |-> TRUE]
        BY <3>1
      <3> QED
        BY <2>2, <3>2
    <2>3. CASE t # x
      <3>1. op'[t] = op[t]
        BY <2>1, <2>3, OpAfter
      <3>2. /\ op[t].at \in {"commit", "release"} =>
                  claim["final"] = [by |-> t, packet |-> op[t].packet, open |-> TRUE]
            /\ op[t].at \in {"item", "state", "unlock"} =>
                  claim["source"] = [by |-> t, packet |-> packet["source"], open |-> TRUE]
        BY DEF SubmitterOwns
      <3> QED
        BY <2>3, <3>1, <3>2
    <2> QED
      BY <2>2, <2>3
  <1> QED
    BY <1>1 DEF SubmitterOwns

\* A step that takes no part in a submission.
LEMMA QuietStep ==
    ASSUME TypeOK, Board, NEW x \in Processes, NEW o, op' = [op EXCEPT ![x] = o],
           session' = session, claim' = claim, packet'["source"] = packet["source"],
           o.at \in {"idle", "packet", "refresh", "queue", "claim"},
           o # Idle => op[x] # Idle \/ Free(x)
    PROVE  Board'
  <1>1. o.at \notin Submitting
    BY DEF Submitting
  <1> QED
    BY <1>1, WorkingStep, OneSubmitterStep, JudgedStep, OwnsStep DEF Board

\* Where a call goes on, as an operation of its own.
LEMMA RefreshedStep ==
    ASSUME TypeOK, NEW x \in Processes, AfterRefresh(x)
    PROVE  \E o : op' = [op EXCEPT ![x] = o] /\ o.at \in {"idle", "claim"}
  <1>1. CASE op[x].goal = "none"
    <2>1. op' = [op EXCEPT ![x] = Idle] /\ Idle.at = "idle"
      BY <1>1 DEF AfterRefresh, Idle, TypeOK
    <2> QED
      BY <2>1
  <1>2. CASE op[x].goal # "none"
    <2> DEFINE q == [op[x] EXCEPT !.at = "claim"]
    <2>1. op' = [op EXCEPT ![x] = q] /\ q.at = "claim"
      BY <1>2, OpType DEF AfterRefresh, Operation, TypeOK
    <2> QED
      BY <2>1
  <1> QED
    BY <1>1, <1>2

LEMMA LeaveStep ==
    ASSUME TypeOK, Board, NEW x \in Processes, Leave(x),
           session' = session, claim' = claim, packet'["source"] = packet["source"]
    PROVE  Board'
  <1>1. op' = [op EXCEPT ![x] = Idle] /\ Idle.at = "idle"
    BY DEF Leave, Idle
  <1> QED
    BY <1>1, QuietStep

LEMMA BoardStep ==
    ASSUME TypeOK, Board, Next
    PROVE  Board'
  <1>1. ASSUME NEW e \in Entities,
               Collect(e)
        PROVE  Board'
    BY <1>1 DEF Collect, Board, Working, OneSubmitter, Judged, SubmitterOwns, Offered, registry, lifecycle, files
  <1>2. ASSUME NEW E \in SUBSET Entities,
               StartRun(E)
        PROVE  Board'
    BY <1>2 DEF StartRun, Board, Working, OneSubmitter, Judged, SubmitterOwns, Offered, registry, lifecycle, files
  <1>3. ASSUME FinishRun
        PROVE  Board'
    BY <1>3 DEF FinishRun, Board, Working, OneSubmitter, Judged, SubmitterOwns, Offered, registry, lifecycle, files
  <1>4. ASSUME NEW c \in Seen,
               Hold(c)
        PROVE  Board'
    BY <1>4 DEF Hold, Board, Working, OneSubmitter, Judged, SubmitterOwns, Offered, registry, lifecycle, files
  <1>5. ASSUME NEW d \in disputes,
               ImportDecision(d)
        PROVE  Board'
    BY <1>5 DEF ImportDecision, Board, Working, OneSubmitter, Judged, SubmitterOwns, Offered, registry, lifecycle, files
  <1>6. ASSUME NEW s \in Sessions,
               Wake(s)
        PROVE  Board'
    BY <1>6 DEF Wake, TypeOK, Board, Working, OneSubmitter, Judged, SubmitterOwns, Offered, registry, lifecycle, files
  <1>7. ASSUME NEW s \in Sessions,
               End(s)
        PROVE  Board'
    BY <1>7 DEF End, TypeOK, Board, Working, OneSubmitter, Judged, SubmitterOwns, Offered, registry, lifecycle, files
  <1>8. ASSUME NEW x \in Processes,
               Prepare(x, "none")
        PROVE  Board'
    <2>1. PICK o : /\ op' = [op EXCEPT ![x] = o] /\ o.at = "packet"
                   /\ Free(x) /\ session' = session /\ claim' = claim /\ packet' = packet
      BY <1>8 DEF Prepare, Idle, files
    <2> QED
      BY <2>1, QuietStep
  <1>9. ASSUME NEW x \in Processes,
               Prepare(x, "final")
        PROVE  Board'
    <2>1. PICK o : /\ op' = [op EXCEPT ![x] = o] /\ o.at = "packet"
                   /\ Free(x) /\ session' = session /\ claim' = claim /\ packet' = packet
      BY <1>9 DEF Prepare, Idle, files
    <2> QED
      BY <2>1, QuietStep
  <1>10. ASSUME NEW s \in Sessions,
               BeginClaimSource(s)
        PROVE  Board'
    <2>1. PICK o : /\ op' = [op EXCEPT ![s] = o] /\ o.at = "refresh"
                   /\ Free(s) /\ session' = session /\ claim' = claim /\ packet' = packet
      BY <1>10 DEF BeginClaimSource, Idle, files
    <2> QED
      BY <2>1, QuietStep DEF Processes
  <1>11. ASSUME NEW s \in Sessions,
               ClaimFinal(s)
        PROVE  Board'
    <2>1. /\ op' = [op EXCEPT ![s] = Idle] /\ Idle.at = "idle" /\ op[s].at = "claim" /\ op[s] # Idle
          /\ session' = session /\ packet' = packet
          /\ claim'["source"] = claim["source"]
      BY <1>11 DEF ClaimFinal, Leave, Take, Idle, TypeOK, Boards
    <2>2. Working' /\ OneSubmitter' /\ Judged'
      BY <2>1, WorkingStep, OneSubmitterStep, JudgedStep DEF Board, Processes, Submitting
    <2>3. ASSUME NEW t \in Sessions, t # s, op[t].at \in {"commit", "release"}
          PROVE  FALSE
      <3>1. claim["final"] = [by |-> t, packet |-> op[t].packet, open |-> TRUE]
        BY <2>3 DEF Board, SubmitterOwns
      <3>2. op[t] # Idle
        BY <2>3 DEF Idle
      <3>3. session[t] = "live"
        BY <3>2 DEF Board, Working
      <3>4. claim["final"] \in Claim
        BY <3>1, NoneAssumption, ClaimType, OpType DEF Processes
      <3>5. claim["final"] # None
        BY <3>4, NoneAssumption
      <3>6. claim["final"].open /\ claim["final"].by = t
        BY <3>1
      <3> QED
        BY <1>11, <3>3, <3>5, <3>6 DEF ClaimFinal, MayReviewFinal, MayClaim
    <2>4. SubmitterOwns'
      BY <2>1, <2>3, OwnsStep DEF Board, Processes
    <2> QED
      BY <2>2, <2>4 DEF Board
  <1>12. ASSUME NEW s \in Sessions,
               ClaimSource(s)
        PROVE  Board'
    <2>1. /\ op' = [op EXCEPT ![s] = Idle] /\ Idle.at = "idle" /\ op[s].at = "claim" /\ op[s] # Idle
          /\ session' = session /\ packet' = packet
          /\ claim'["final"] = claim["final"]
      BY <1>12 DEF ClaimSource, Leave, Take, Idle, TypeOK, Boards
    <2>2. Working' /\ OneSubmitter' /\ Judged'
      BY <2>1, WorkingStep, OneSubmitterStep, JudgedStep DEF Board, Processes, Submitting
    <2>3. \A t \in Sessions : op[t].at \notin {"item", "state", "unlock"}
      BY <1>12 DEF ClaimSource, MayReviewSource, SourceLocked, Submitting, Processes
    <2>4. SubmitterOwns'
      BY <2>1, <2>3, OwnsStep DEF Board, Processes
    <2> QED
      BY <2>2, <2>4 DEF Board
  <1>13. ASSUME NEW x \in Processes,
               WritePacket(x)
        PROVE  Board'
    <2>1. /\ op' = [op EXCEPT ![x] = [op[x] EXCEPT !.at = "refresh"]]
          /\ [op[x] EXCEPT !.at = "refresh"].at = "refresh"
          /\ op[x] # Idle
          /\ session' = session /\ claim' = claim /\ packet'["source"] = packet["source"]
      BY <1>13, OpType DEF WritePacket, TypeOK, Operation, Boards, Idle
    <2> QED
      BY <2>1, QuietStep
  <1>14. ASSUME NEW x \in Processes,
               Refresh(x)
        PROVE  Board'
    <2>1. PICK o : op' = [op EXCEPT ![x] = o] /\ o.at \in {"idle", "queue", "claim"}
      <3>1. CASE op' = [op EXCEPT ![x].at = "queue"]
        <4> DEFINE q == [op[x] EXCEPT !.at = "queue"]
        <4>1. q.at = "queue" /\ op' = [op EXCEPT ![x] = q]
          BY <3>1, OpType DEF Operation
        <4> QED
          BY <4>1
      <3>2. CASE AfterRefresh(x)
        BY <3>2, RefreshedStep
      <3> QED
        BY <1>14, <3>1, <3>2 DEF Refresh
    <2>2. op[x] # Idle /\ session' = session /\ claim' = claim /\ packet' = packet
      BY <1>14 DEF Refresh, files, Idle
    <2> QED
      BY <2>1, <2>2, QuietStep
  <1>15. ASSUME NEW x \in Processes,
               Queue(x)
        PROVE  Board'
    <2>1. PICK o : op' = [op EXCEPT ![x] = o] /\ o.at \in {"idle", "claim"}
      BY <1>15, RefreshedStep DEF Queue
    <2>2. op[x] # Idle /\ session' = session /\ claim' = claim
      BY <1>15 DEF Queue, Idle
    <2>3. \A y \in Processes : op[y].at \notin Submitting
      BY <1>15 DEF Queue, SourceLocked
    <2>4. \A y \in Processes : op'[y].at \notin Submitting
      BY <2>1, <2>3, OpAfter DEF Submitting
    <2>5. Working' /\ OneSubmitter'
      BY <2>1, <2>2, <2>4, WorkingStep DEF Board, OneSubmitter
    <2>6. Judged'
      BY <2>4 DEF Judged, Submitting, Processes
    <2>7. SubmitterOwns'
      BY <2>1, <2>2, <2>3, OwnsStep DEF Board, Submitting, Processes
    <2> QED
      BY <2>5, <2>6, <2>7 DEF Board
  <1>16. ASSUME NEW x \in Processes,
               Raise(x)
        PROVE  Board'
    BY <1>16, LeaveStep DEF Raise, files, Processes
  <1>17. ASSUME NEW x \in Processes,
               Crash(x)
        PROVE  Board'
    BY <1>17, LeaveStep DEF Crash, files, Processes
  <1>18. ASSUME NEW s \in Sessions, NEW v \in Judgements(packet["final"]),
               BeginFinal(s, v)
        PROVE  Board'
    <2> DEFINE o == [Idle EXCEPT !.at = "commit", !.packet = packet["final"], !.verdict = v]
    <2>1. /\ op' = [op EXCEPT ![s] = o] /\ o.at = "commit" /\ o.packet = packet["final"]
          /\ Free(s) /\ session' = session /\ claim' = claim /\ packet' = packet
      BY <1>18 DEF BeginFinal, Idle, files
    <2>2. claim["final"] = [by |-> s, packet |-> packet["final"], open |-> TRUE]
      BY <1>18 DEF BeginFinal, HoldsClaim, TypeOK, Claim, Boards
    <2> HIDE DEF o
    <2> QED
      BY <2>1, <2>2, WorkingStep, OneSubmitterStep, JudgedStep, OwnsStep DEF Board, Submitting, Processes
  <1>19. ASSUME NEW s \in Sessions, NEW v \in Judgements(packet["source"]),
               BeginSource(s, v)
        PROVE  Board'
    <2> DEFINE o == [Idle EXCEPT !.at = "item", !.verdict = v, !.left = {e \in Entities : v[e] = "pass"}]
    <2>1. /\ op' = [op EXCEPT ![s] = o] /\ o.at = "item" /\ o.verdict = v
          /\ Free(s) /\ session' = session /\ claim' = claim /\ packet' = packet /\ ~SourceLocked
      BY <1>19 DEF BeginSource, Idle, files
    <2>2. claim["source"] = [by |-> s, packet |-> packet["source"], open |-> TRUE]
      BY <1>19 DEF BeginSource, HoldsClaim, TypeOK, Claim, Boards
    <2>3. \A e \in Entities : v[e] # "none" => \E c \in Offered(packet["source"]) : c.entity = e
      BY DEF Judgements
    <2> HIDE DEF o
    <2> QED
      BY <2>1, <2>2, <2>3, WorkingStep, OneSubmitterStep, JudgedStep, OwnsStep DEF Board, Processes
  <1>20. ASSUME NEW s \in Sessions, NEW c \in Offered(packet["source"]),
               SubmitItem(s, c)
        PROVE  Board'
    <2>1. c.entity \in Entities /\ op[s].at = "item" /\ op[s] \in Operation /\ op[s] # Idle
      BY <1>20, OfferedType, OpType DEF SubmitItem, TypeOK, Boards, Candidate, Processes, Idle
    <2>2. PICK r \in {"pass", "failed"} : op' = [op EXCEPT ![s].left = @ \ {c.entity}, ![s].verdict[c.entity] = r]
      BY <1>20 DEF SubmitItem
    <2> DEFINE o == [op[s] EXCEPT !.left = @ \ {c.entity}, !.verdict[c.entity] = r]
    <2>3. op' = [op EXCEPT ![s] = o] /\ o.at = "item" /\ o.verdict = [op[s].verdict EXCEPT ![c.entity] = r]
      BY <2>1, <2>2 DEF Operation, TypeOK, Processes
    <2>4. session' = session /\ claim' = claim /\ packet' = packet
      BY <1>20 DEF SubmitItem, files
    <2>5. \A e \in Entities : o.verdict[e] # "none" => \E d \in Offered(packet["source"]) : d.entity = e
      BY <2>1, <2>3 DEF Board, Judged, Operation
    <2>6. claim["source"] = [by |-> s, packet |-> packet["source"], open |-> TRUE]
      BY <2>1 DEF Board, SubmitterOwns
    <2> HIDE DEF o
    <2> QED
      BY <2>1, <2>3, <2>4, <2>5, <2>6, WorkingStep, OneSubmitterStep, JudgedStep, OwnsStep
      DEF Board, Processes, Submitting
  <1>21. ASSUME NEW s \in Sessions,
               CommitFinal(s)
        PROVE  Board'
    <2> DEFINE o == [op[s] EXCEPT !.at = "release"]
    <2>1. /\ op' = [op EXCEPT ![s] = o] /\ o.at = "release" /\ o.packet = op[s].packet /\ o.verdict = op[s].verdict
          /\ op[s].at = "commit" /\ op[s] # Idle
          /\ session' = session /\ claim' = claim /\ packet' = packet
      BY <1>21, OpType DEF CommitFinal, files, Operation, TypeOK, Processes, Idle
    <2> HIDE DEF o
    <2>2. Working' /\ OneSubmitter'
      BY <2>1, WorkingStep, OneSubmitterStep DEF Board, Processes, Submitting
    <2>3. Judged'
      BY <2>1, JudgedStep DEF Board, Judged, Processes
    <2>4. SubmitterOwns'
      BY <2>1, OwnsStep DEF Board, SubmitterOwns, Processes
    <2> QED
      BY <2>2, <2>3, <2>4 DEF Board
  <1>22. ASSUME NEW s \in Sessions,
               ReleaseFinal(s)
        PROVE  Board'
    <2>1. /\ op' = [op EXCEPT ![s] = Idle] /\ Idle.at = "idle" /\ op[s].at = "release"
          /\ session' = session /\ packet' = packet
          /\ claim'["source"] = claim["source"]
      BY <1>22 DEF ReleaseFinal, Leave, Idle, TypeOK, Boards
    <2>2. Working' /\ OneSubmitter' /\ Judged'
      BY <2>1, WorkingStep, OneSubmitterStep, JudgedStep DEF Board, Processes, Submitting
    <2>3. ASSUME NEW t \in Sessions, op[t].at \in {"commit", "release"}
          PROVE  t = s
      <3>1. claim["final"] = [by |-> t, packet |-> op[t].packet, open |-> TRUE]
        BY <2>3 DEF Board, SubmitterOwns
      <3>2. claim["final"] = [by |-> s, packet |-> op[s].packet, open |-> TRUE]
        BY <2>1 DEF Board, SubmitterOwns
      <3>3. claim["final"].by = t
        BY <3>1
      <3>4. claim["final"].by = s
        BY <3>2
      <3> QED
        BY <3>3, <3>4
    <2>4. SubmitterOwns'
      BY <2>1, <2>3, OwnsStep DEF Board, Processes
    <2> QED
      BY <2>2, <2>4 DEF Board
  <1>23. ASSUME NEW s \in Sessions,
               WriteReceipt(s)
        PROVE  Board'
    <2> DEFINE o == [op[s] EXCEPT !.at = "state"]
    <2>1. /\ op' = [op EXCEPT ![s] = o] /\ o.at = "state" /\ o.packet = op[s].packet /\ o.verdict = op[s].verdict
          /\ op[s].at = "item" /\ op[s] # Idle
          /\ session' = session /\ claim' = claim /\ packet' = packet
      BY <1>23, OpType DEF WriteReceipt, files, Operation, TypeOK, Processes, Idle
    <2> HIDE DEF o
    <2>2. Working' /\ OneSubmitter'
      BY <2>1, WorkingStep, OneSubmitterStep DEF Board, Processes, Submitting
    <2>3. Judged'
      BY <2>1, JudgedStep DEF Board, Judged, Processes
    <2>4. SubmitterOwns'
      BY <2>1, OwnsStep DEF Board, SubmitterOwns, Processes
    <2> QED
      BY <2>2, <2>3, <2>4 DEF Board
  <1>24. ASSUME NEW s \in Sessions,
               SaveState(s)
        PROVE  Board'
    <2> DEFINE o == [op[s] EXCEPT !.at = "unlock"]
    <2>1. /\ op' = [op EXCEPT ![s] = o] /\ o.at = "unlock" /\ o.packet = op[s].packet /\ o.verdict = op[s].verdict
          /\ op[s].at = "state" /\ op[s] # Idle
          /\ session' = session /\ claim' = claim /\ packet' = packet
      BY <1>24, OpType DEF SaveState, files, Operation, TypeOK, Processes, Idle
    <2> HIDE DEF o
    <2>2. Working' /\ OneSubmitter'
      BY <2>1, WorkingStep, OneSubmitterStep DEF Board, Processes, Submitting
    <2>3. Judged'
      BY <2>1, JudgedStep DEF Board, Judged, Processes
    <2>4. SubmitterOwns'
      BY <2>1, OwnsStep DEF Board, SubmitterOwns, Processes
    <2> QED
      BY <2>2, <2>3, <2>4 DEF Board
  <1>25. ASSUME NEW s \in Sessions,
               ReleaseSource(s)
        PROVE  Board'
    <2>1. /\ op' = [op EXCEPT ![s] = Idle] /\ Idle.at = "idle" /\ op[s].at = "unlock"
          /\ session' = session /\ packet' = packet
          /\ claim'["final"] = claim["final"]
      BY <1>25 DEF ReleaseSource, Close, Leave, Idle, TypeOK, Boards
    <2>2. Working' /\ OneSubmitter' /\ Judged'
      BY <2>1, WorkingStep, OneSubmitterStep, JudgedStep DEF Board, Processes, Submitting
    <2>3. \A t \in Sessions : op[t].at \in {"item", "state", "unlock"} => t = s
      BY <2>1 DEF Board, OneSubmitter, Submitting, Processes
    <2>4. SubmitterOwns'
      BY <2>1, <2>3, OwnsStep DEF Board, Processes
    <2> QED
      BY <2>2, <2>4 DEF Board
  <1>26. ASSUME NEW s \in Sessions,
               Refuse(s)
        PROVE  Board'
    BY <1>26, LeaveStep DEF Refuse, files, Processes
  <1>27. ASSUME NEW s \in Sessions, NEW y \in packet["source"], NEW kept \in {{}, y.cand.authors},
               Correct(s, y.cand, kept)
        PROVE  Board'
    <2>1. PICK o : /\ op' = [op EXCEPT ![s] = o] /\ o.at = "closing"
                   /\ Free(s) /\ ~SourceLocked /\ session' = session /\ claim' = claim /\ packet' = packet
      BY <1>27 DEF Correct, Idle, files
    <2> QED
      BY <2>1, WorkingStep, OneSubmitterStep, JudgedStep, OwnsStep DEF Board, Processes
  <1>28. ASSUME NEW s \in Sessions,
               CloseCorrected(s)
        PROVE  Board'
    <2> DEFINE o == [op[s] EXCEPT !.at = "saving"]
    <2>1. /\ op' = [op EXCEPT ![s] = o] /\ o.at = "saving" /\ op[s].at = "closing" /\ op[s] # Idle
          /\ session' = session /\ packet' = packet
          /\ claim'["final"] = claim["final"]
      BY <1>28, OpType DEF CloseCorrected, Close, Operation, Idle, TypeOK, Boards, Processes
    <2> HIDE DEF o
    <2>2. Working' /\ OneSubmitter' /\ Judged'
      BY <2>1, WorkingStep, OneSubmitterStep, JudgedStep DEF Board, Processes, Submitting
    <2>3. \A t \in Sessions : op[t].at \notin {"item", "state", "unlock"}
      BY <2>1 DEF Board, OneSubmitter, Submitting, Processes
    <2>4. SubmitterOwns'
      BY <2>1, <2>3, OwnsStep DEF Board, Processes
    <2> QED
      BY <2>2, <2>4 DEF Board
  <1>29. ASSUME NEW s \in Sessions,
               SaveCorrected(s)
        PROVE  Board'
    <2>1. /\ op' = [op EXCEPT ![s] = Idle] /\ Idle.at = "idle" /\ op[s].at = "saving"
          /\ session' = session /\ claim' = claim
      BY <1>29 DEF SaveCorrected, Leave, Idle
    <2>2. Working' /\ OneSubmitter'
      BY <2>1, WorkingStep, OneSubmitterStep DEF Board, Processes, Submitting
    <2>3. \A t \in Sessions : op[t].at \notin {"item", "state", "unlock"}
      BY <2>1 DEF Board, OneSubmitter, Submitting, Processes
    <2>4. \A t \in Sessions : op'[t].at \notin {"item", "state", "unlock"}
      BY <2>1, <2>3, OpAfter DEF Processes
    <2>5. Judged'
      BY <2>4 DEF Judged
    <2>6. SubmitterOwns'
      BY <2>1, <2>3, OwnsStep DEF Board, Processes
    <2> QED
      BY <2>2, <2>5, <2>6 DEF Board
  <1> QED
    BY <1>1, <1>2, <1>3, <1>4, <1>5, <1>6, <1>7, <1>8, <1>9, <1>10, <1>11, <1>12, <1>13, <1>14, <1>15, <1>16, <1>17, <1>18, <1>19, <1>20, <1>21, <1>22, <1>23, <1>24, <1>25, <1>26, <1>27, <1>28, <1>29, StepCases

-----------------------------------------------------------------------------
\* The theorems

IInv == TypeOK /\ Indexed /\ IndependentApproval /\ Ordered /\ Board

LEMMA InvariantInit ==
    ASSUME Init
    PROVE  IInv
  <1>1. TypeOK
    BY TypeInit
  <1>2. Indexed
    BY DEF Init, Indexed, First
  <1>3. IndependentApproval
    BY DEF Init, IndependentApproval
  <1>4. Ordered
    BY BoundsAssumption DEF Init, Ordered, Since, First, Unchecked
  <1>5. \A x \in Processes : op[x] = Idle /\ op[x].at = "idle"
    BY DEF Init, Idle
  <1>6. Board
    BY <1>5 DEF Board, Working, OneSubmitter, Judged, SubmitterOwns, Submitting, Processes
  <1> QED
    BY <1>1, <1>2, <1>3, <1>4, <1>6 DEF IInv

LEMMA InvariantStep ==
    ASSUME IInv, [Next]_vars
    PROVE  IInv'
  <1>1. CASE Next
    <2>1. TypeOK'
      BY <1>1, TypeStep DEF IInv, Board
    <2>2. Indexed' /\ IndependentApproval'
      BY <1>1, IndexedStep, IndependentStep DEF IInv
    <2>3. Ordered'
      BY <1>1, <2>1, OrderedStep DEF IInv
    <2>4. Board'
      BY <1>1, BoardStep DEF IInv
    <2> QED
      BY <2>1, <2>2, <2>3, <2>4 DEF IInv
  <1>2. CASE UNCHANGED vars
    <2>1. TypeOK' /\ Indexed'
      BY <1>2 DEF vars, IInv, TypeOK, Indexed
    <2>2. IndependentApproval' /\ Ordered'
      BY <1>2 DEF vars, IInv, IndependentApproval, Ordered
    <2>3. Working' /\ OneSubmitter'
      BY <1>2 DEF vars, IInv, Board, Working, OneSubmitter
    <2>4. Judged' /\ SubmitterOwns'
      BY <1>2 DEF vars, IInv, Board, Judged, SubmitterOwns, Offered
    <2> QED
      BY <2>1, <2>2, <2>3, <2>4 DEF IInv, Board
  <1> QED
    BY <1>1, <1>2

\* The invariant the others are read off.
THEOREM Invariance == Spec => []IInv
  BY InvariantInit, InvariantStep, PTL DEF Spec

\* Rows, packets, claims and calls keep their form in every execution.
THEOREM TypeCorrect == Spec => []TypeOK
  <1>1. IInv => TypeOK
    BY DEF IInv
  <1> QED
    BY <1>1, Invariance, PTL

\* No pass in registry_reviews is by an author of the display it passes,
\* whatever the boards, corrections and crashes in between.
THEOREM Independence == Spec => []IndependentApproval
  <1>1. IInv => IndependentApproval
    BY DEF IInv
  <1> QED
    BY <1>1, Invariance, PTL

\* While a session submits, the claim file of its board is its own, open, and
\* about the packet it submits.
THEOREM SubmissionsOwn == Spec => []SubmitterOwns
  <1>1. IInv => SubmitterOwns
    BY DEF IInv, Board
  <1> QED
    BY <1>1, Invariance, PTL

\* What a reviewer of either board found wanting is not published later.
THEOREM NegativeStays == Spec => NegativeIsFinal
  <1>1. ASSUME IInv, [Next]_vars
        PROVE  \A e \in Entities : published'[e] # published[e] => ~Negative(published'[e])
    BY <1>1, PublishedStep DEF IInv, vars
  <1> QED
    BY <1>1, Invariance, PTL DEF Spec, NegativeIsFinal

\* Nothing is published over an open dispute.
THEOREM DisputesHold == Spec => DisputeHolds
  <1>1. ASSUME IInv, [Next]_vars
        PROVE  \A e \in Entities : published'[e] # published[e] => ~Disputed(published'[e])
    BY <1>1, PublishedStep DEF IInv, vars
  <1> QED
    BY <1>1, Invariance, PTL DEF Spec, DisputeHolds

\* An item that is public stays public, and only moves on to later bodies,
\* corrections and checks.
THEOREM NoWayBack == Spec => PublicNeverGoesBack
  <1>1. ASSUME IInv, [Next]_vars
        PROVE  \A e \in Entities : published[e] # None =>
                   published'[e] # None /\ Since(published'[e], published[e])
    <2>1. CASE Next
      BY <1>1, <2>1, InvariantStep, OrderedStep DEF IInv
    <2>2. CASE UNCHANGED vars
      <3>1. published' = published
        BY <2>2 DEF vars
      <3>2. \A e \in Entities : published[e] # None => Levelled(published[e])
        BY <1>1, Levels DEF IInv, TypeOK
      <3> QED
        BY <3>1, <3>2, SinceFacts
    <2> QED
      BY <1>1, <2>1, <2>2
  <1> QED
    BY <1>1, Invariance, PTL DEF Spec, PublicNeverGoesBack

-----------------------------------------------------------------------------
\* What the public and the source board's state.json say agrees with the Registry's
\* checks and reviews: what is public was checked

Checked(c) == c.check.target = c.body /\ ~c.check.open

\* A submission publishes what information_ready has accepted.
LEMMA CheckedStep ==
    ASSUME TypeOK, Indexed, Next, NEW e \in Entities, published'[e] # published[e]
    PROVE  Checked(published'[e])
  <1>1. CASE UNCHANGED registry
    BY <1>1 DEF registry
  <1>2. (\E f \in Entities : Collect(f)) \/ (\E E \in SUBSET Entities : StartRun(E)) \/ FinishRun \/ Restaged
            => published' = published
    BY DEF Collect, StartRun, FinishRun, Restaged
  <1>3. ASSUME NEW s \in Sessions, NEW c \in Offered(packet["source"]), SubmitItem(s, c)
        PROVE  Checked(published'[e])
    <2>1. InfoReady(c) /\ published' = [published EXCEPT ![c.entity] = c]
      BY <1>3 DEF SubmitItem, Publishable
    <2>2. published'[e] = c
      BY <2>1 DEF TypeOK
    <2> QED
      BY <2>1, <2>2 DEF InfoReady, Checked
  <1>4. ASSUME NEW s \in Sessions, CommitFinal(s)
        PROVE  Checked(published'[e])
    <2>1. PICK c : c = published'[e] /\ InfoReady(c)
      BY <1>4 DEF CommitFinal, Publishable
    <2> QED
      BY <2>1 DEF InfoReady, Checked
  <1>5. ASSUME NEW s \in Sessions, NEW y \in packet["source"], NEW kept \in {{}, y.cand.authors},
               Correct(s, y.cand, kept)
        PROVE  FALSE
    BY <1>5 DEF Correct
  <1> QED
    BY <1>1, <1>2, <1>3, <1>4, <1>5, RegistryCases

\* Everything public was checked, in a finished run, with the body it shows.
THEOREM PublicChecked == Spec => []PublicWasChecked
  <1>1. Init => PublicWasChecked
    BY DEF Init, PublicWasChecked
  <1>2. ASSUME IInv, PublicWasChecked, [Next]_vars
        PROVE  PublicWasChecked'
    <2>1. ASSUME NEW e \in Entities, published'[e] # None
          PROVE  Checked(published'[e])
      <3>1. CASE published'[e] = published[e]
        BY <1>2, <2>1, <3>1 DEF PublicWasChecked, Checked
      <3>2. CASE published'[e] # published[e]
        <4>1. Next
          BY <1>2, <3>2 DEF vars
        <4> QED
          BY <1>2, <3>2, <4>1, CheckedStep DEF IInv
      <3> QED
        BY <3>1, <3>2
    <2> QED
      BY <2>1 DEF PublicWasChecked, Checked
  <1> QED
    BY <1>1, <1>2, Invariance, PTL DEF Spec

-----------------------------------------------------------------------------
\* The source board's item reviews

\* A packet lists an article once.
OneEach(p) == \A x, y \in p : x.cand.entity = y.cand.entity => x = y

Passed(c) == \E r \in reviews : r.cand = c /\ r.pass

\* A correction under way keeps that so.
Correcting == \A s \in Sessions : op[s].at \in {"closing", "saving"} => OneEach(op[s].packet)

ItemsFit == \A e \in Entities : items[e] # None =>
    items[e].cand.entity = e /\ items[e].cand \in Offered(packet["source"])

\* What a submission under way has passed so far has its review.
PassedSoFar == \A s \in Sessions : op[s].at \in {"item", "state"} =>
    /\ op[s].at = "state" => op[s].left = {}
    /\ \A c \in Offered(packet["source"]) :
           op[s].verdict[c.entity] = "pass" /\ c.entity \notin op[s].left => Passed(c)

ItemsInv == OneEach(packet["source"]) /\ Correcting /\ ItemsFit /\ ItemPassIsPublic /\ PassedSoFar

Busy == {"item", "state", "closing", "saving"}

\* A step that leaves the board alone and begins nothing on it.
LEMMA BoardAlone ==
    ASSUME ItemsInv, items' = items, packet'["source"] = packet["source"], reviews \subseteq reviews',
           \A s \in Sessions : op'[s] = op[s] \/ op'[s].at \notin Busy
    PROVE  ItemsInv'
  <1>1. Offered(packet["source"])' = Offered(packet["source"])
    BY DEF Offered
  <1>2. OneEach(packet["source"])' /\ Correcting'
    BY DEF ItemsInv, OneEach, Correcting, Busy
  <1>3. ItemsFit' /\ ItemPassIsPublic'
    BY <1>1 DEF ItemsInv, ItemsFit, ItemPassIsPublic
  <1>4. PassedSoFar'
    BY <1>1 DEF ItemsInv, PassedSoFar, Passed, Busy
  <1> QED
    BY <1>2, <1>3, <1>4 DEF ItemsInv

\* The reviews of the Registry are only added to.
LEMMA ReviewsGrow ==
    ASSUME Next
    PROVE  reviews \subseteq reviews'
  <1>1. UNCHANGED registry => reviews' = reviews
    BY DEF registry
  <1>2. (\E f \in Entities : Collect(f)) \/ (\E E \in SUBSET Entities : StartRun(E)) \/ FinishRun \/ Restaged
            => reviews' = reviews
    BY DEF Collect, StartRun, FinishRun, Restaged
  <1>3. \A s \in Sessions, c \in Offered(packet["source"]) : SubmitItem(s, c) => reviews \subseteq reviews'
    BY DEF SubmitItem
  <1>4. \A s \in Sessions : CommitFinal(s) => reviews \subseteq reviews'
    BY DEF CommitFinal
  <1>5. \A s \in Sessions : \A y \in packet["source"] : \A kept \in {{}, y.cand.authors} :
            Correct(s, y.cand, kept) => reviews' = reviews
    BY DEF Correct
  <1> QED
    BY <1>1, <1>2, <1>3, <1>4, <1>5, RegistryCases

\* Nobody else is about to submit or correct once the lock was free.
LEMMA NobodyBusy ==
    ASSUME TypeOK, ~SourceLocked, NEW x \in Processes, NEW o, op' = [op EXCEPT ![x] = o],
           NEW s \in Sessions, s # x
    PROVE  op'[s].at \notin Busy
  <1>1. s \in Processes
    BY DEF Processes
  <1>2. op'[s] = op[s]
    BY <1>1, OpAfter
  <1>3. op[s].at \notin Submitting
    BY <1>1 DEF SourceLocked
  <1> QED
    BY <1>2, <1>3 DEF Submitting, Busy

LEMMA QueueItems ==
    ASSUME TypeOK, Indexed, ItemsInv, Next, NEW x \in Processes, Queue(x)
    PROVE  ItemsInv'
  <1>1. PICK o : op' = [op EXCEPT ![x] = o] /\ o.at \in {"idle", "claim"}
    BY RefreshedStep DEF Queue
  <1>2. ~SourceLocked /\ reviews' = reviews
    BY DEF Queue
  <1>3. ASSUME NEW s \in Sessions
        PROVE  op'[s].at \notin Busy
    <2>1. CASE s = x
      BY <1>1, <2>1, OpAfter DEF Busy
    <2>2. CASE s # x
      BY <1>1, <1>2, <2>2, NobodyBusy
    <2> QED
      BY <2>1, <2>2
  <1>4. packet'["source"] = {[cand |-> latest'[e], ready |-> latest'[e] \in ReadyOf(latest')] : e \in Entities}
    BY DEF Queue, TypeOK, Boards
  <1>5. Indexed'
    BY IndexedStep
  <1>6. OneEach(packet["source"])'
    BY <1>4, <1>5 DEF OneEach, Indexed
  <1>7. items' = [e \in Entities |->
            IF items[e] # None /\ items[e].cand \in Offered(packet'["source"]) THEN items[e] ELSE None]
    BY DEF Queue
  <1>8. Offered(packet["source"])' = Offered(packet'["source"])
    BY DEF Offered
  <1>9. ItemsFit' /\ ItemPassIsPublic'
    BY <1>2, <1>7, <1>8 DEF ItemsInv, ItemsFit, ItemPassIsPublic
  <1>10. Correcting' /\ PassedSoFar'
    BY <1>3 DEF Correcting, PassedSoFar, Busy
  <1> QED
    BY <1>6, <1>9, <1>10 DEF ItemsInv

\* A correction replaces one entry by one of the same article.
LEMMA CorrectItems ==
    ASSUME TypeOK, ItemsInv, NEW s \in Sessions, NEW y \in packet["source"],
           NEW kept \in {{}, y.cand.authors}, Correct(s, y.cand, kept)
    PROVE  ItemsInv'
  <1> DEFINE c == y.cand
             new == [Staged(c.entity) EXCEPT !.fixes = live[c.entity].fixes + 1, !.authors = {s} \cup kept]
             p == {IF x.cand = c THEN [x EXCEPT !.cand = new] ELSE x : x \in packet["source"]}
             o == [Idle EXCEPT !.at = "closing", !.packet = p]
  <1>1. op' = [op EXCEPT ![s] = o] /\ UNCHANGED <<reviews, files>> /\ ~SourceLocked
    BY DEF Correct
  <1>2. new.entity = c.entity
    BY DEF Staged
  <1>3. packet["source"] \in Packet
    BY DEF TypeOK, Boards
  <1>4. o.at = "closing" /\ o.packet = p
    BY DEF Idle
  <1> HIDE DEF new, o
  <1>5. \A x \in packet["source"] : [x EXCEPT !.cand = new].cand = new
    BY <1>3 DEF Packet
  <1>6. OneEach(p)
    <2>1. OneEach(packet["source"])
      BY DEF ItemsInv
    <2>2. \A x \in packet["source"] :
            (IF x.cand = c THEN [x EXCEPT !.cand = new] ELSE x).cand.entity = x.cand.entity
      <3> HIDE DEF c
      <3> QED BY <1>2, <1>5
    <2>3. ASSUME NEW u \in p, NEW v \in p, u.cand.entity = v.cand.entity
          PROVE  u = v
      <3> DEFINE F(x) == IF x.cand = c THEN [x EXCEPT !.cand = new] ELSE x
      <3>1. PICK x1 \in packet["source"] : u = F(x1)
        OBVIOUS
      <3>2. PICK x2 \in packet["source"] : v = F(x2)
        OBVIOUS
      <3>3. F(x1).cand.entity = x1.cand.entity /\ F(x2).cand.entity = x2.cand.entity
        BY <2>2
      <3> HIDE DEF F
      <3>4. x1.cand.entity = x2.cand.entity
        BY <2>3, <3>1, <3>2, <3>3
      <3>5. x1 = x2
        BY <2>1, <3>4 DEF OneEach
      <3> QED
        BY <3>1, <3>2, <3>5
    <2> QED
      BY <2>3 DEF OneEach
  <1> HIDE DEF p
  <1>7. op'[s] = o /\ \A t \in Sessions : t # s => op'[t].at \notin Busy
    BY <1>1, NobodyBusy, OpAfter DEF Processes
  <1>8. Correcting'
    BY <1>4, <1>6, <1>7 DEF Correcting, Busy
  <1>9. PassedSoFar'
    BY <1>4, <1>7 DEF PassedSoFar, Busy
  <1>10. Offered(packet["source"])' = Offered(packet["source"])
    BY <1>1 DEF files, Offered
  <1>11. OneEach(packet["source"])' /\ ItemsFit' /\ ItemPassIsPublic'
    BY <1>1, <1>10 DEF ItemsInv, OneEach, ItemsFit, ItemPassIsPublic, files
  <1> QED
    BY <1>8, <1>9, <1>11 DEF ItemsInv

LEMMA CloseItems ==
    ASSUME TypeOK, ItemsInv, NEW s \in Sessions, CloseCorrected(s)
    PROVE  ItemsInv'
  <1> DEFINE o == [op[s] EXCEPT !.at = "saving"]
  <1>1. /\ op' = [op EXCEPT ![s] = o] /\ op[s].at = "closing"
        /\ UNCHANGED <<reviews, packet, items>>
    BY DEF CloseCorrected, registry
  <1>2. o.at = "saving" /\ o.packet = op[s].packet
    BY OpType DEF Operation, Processes
  <1> HIDE DEF o
  <1>3. \A t \in Sessions : t # s => op'[t] = op[t]
    BY <1>1, OpAfter DEF Processes
  <1>4. op'[s] = o
    BY <1>1, OpAfter DEF Processes
  <1>5. OneEach(op[s].packet)
    BY <1>1 DEF ItemsInv, Correcting
  <1>6. Correcting'
    BY <1>2, <1>3, <1>4, <1>5 DEF ItemsInv, Correcting, OneEach
  <1>7. Offered(packet["source"])' = Offered(packet["source"])
    BY <1>1 DEF Offered
  <1>8. OneEach(packet["source"])' /\ ItemsFit' /\ ItemPassIsPublic'
    BY <1>1, <1>7 DEF ItemsInv, OneEach, ItemsFit, ItemPassIsPublic
  <1>9. PassedSoFar'
    BY <1>1, <1>2, <1>3, <1>4, <1>7 DEF ItemsInv, PassedSoFar, Passed
  <1> QED
    BY <1>6, <1>8, <1>9 DEF ItemsInv

LEMMA SaveCorrectedItems ==
    ASSUME TypeOK, ItemsInv, OneSubmitter, NEW s \in Sessions, SaveCorrected(s)
    PROVE  ItemsInv'
  <1>1. /\ op' = [op EXCEPT ![s] = Idle] /\ Idle.at = "idle" /\ op[s].at = "saving"
        /\ reviews' = reviews
        /\ packet' = [packet EXCEPT !["source"] = op[s].packet]
        /\ items' = [e \in Entities |->
              IF \E x \in packet["source"] \ op[s].packet : x.cand.entity = e THEN None ELSE items[e]]
    BY DEF SaveCorrected, Leave, Idle, registry
  <1>2. packet'["source"] = op[s].packet
    BY <1>1 DEF TypeOK, Boards
  <1>3. OneEach(packet["source"])'
    BY <1>1, <1>2 DEF ItemsInv, Correcting, OneEach
  <1>4. \A t \in Sessions : op'[t].at \notin Busy
    BY <1>1, OpAfter DEF OneSubmitter, Submitting, Busy, Processes
  <1>5. Correcting' /\ PassedSoFar'
    BY <1>4 DEF Correcting, PassedSoFar, Busy
  <1>6. Offered(packet["source"])' = Offered(op[s].packet)
    BY <1>2 DEF Offered
  <1>7. ASSUME NEW e \in Entities, items'[e] # None
        PROVE  items'[e] = items[e] /\ items[e].cand.entity = e /\ items[e].cand \in Offered(op[s].packet)
    <2>1. items'[e] = items[e] /\ ~\E x \in packet["source"] \ op[s].packet : x.cand.entity = e
      BY <1>1, <1>7
    <2>2. items[e].cand.entity = e /\ items[e].cand \in Offered(packet["source"])
      BY <1>7, <2>1 DEF ItemsInv, ItemsFit
    <2>3. PICK x \in packet["source"] : x.ready /\ x.cand = items[e].cand
      BY <2>2 DEF Offered
    <2>4. x \in op[s].packet
      BY <2>1, <2>2, <2>3
    <2> QED
      BY <2>1, <2>2, <2>3, <2>4 DEF Offered
  <1>8. ItemsFit' /\ ItemPassIsPublic'
    BY <1>1, <1>6, <1>7 DEF ItemsInv, ItemsFit, ItemPassIsPublic
  <1> QED
    BY <1>3, <1>5, <1>8 DEF ItemsInv

LEMMA BeginSourceItems ==
    ASSUME TypeOK, ItemsInv, NEW s \in Sessions, NEW v \in Judgements(packet["source"]), BeginSource(s, v)
    PROVE  ItemsInv'
  <1> DEFINE o == [Idle EXCEPT !.at = "item", !.verdict = v, !.left = {e \in Entities : v[e] = "pass"}]
  <1>1. op' = [op EXCEPT ![s] = o] /\ ~SourceLocked /\ UNCHANGED <<reviews, packet, items>>
    BY DEF BeginSource, registry, files
  <1>2. o.at = "item" /\ o.verdict = v /\ o.left = {e \in Entities : v[e] = "pass"}
    BY DEF Idle
  <1> HIDE DEF o
  <1>3. op'[s] = o /\ \A t \in Sessions : t # s => op'[t].at \notin Busy
    BY <1>1, NobodyBusy, OpAfter DEF Processes
  <1>4. Correcting'
    BY <1>2, <1>3 DEF Correcting, Busy
  <1>5. Offered(packet["source"])' = Offered(packet["source"])
    BY <1>1 DEF Offered
  <1>6. \A c \in Offered(packet["source"]) : c.entity \in Entities
    BY OfferedType DEF TypeOK, Boards, Candidate
  <1>7. PassedSoFar'
    BY <1>2, <1>3, <1>5, <1>6 DEF PassedSoFar, Busy
  <1>8. OneEach(packet["source"])' /\ ItemsFit' /\ ItemPassIsPublic'
    BY <1>1, <1>5 DEF ItemsInv, OneEach, ItemsFit, ItemPassIsPublic
  <1> QED
    BY <1>4, <1>7, <1>8 DEF ItemsInv

\* An item that is reported as passed has just been given its pass.
LEMMA SubmitItemItems ==
    ASSUME TypeOK, ItemsInv, OneSubmitter, NEW s \in Sessions, NEW c \in Offered(packet["source"]),
           SubmitItem(s, c)
    PROVE  ItemsInv'
  <1> DEFINE passes == Publishable(StagedAt({c.entity}), c)
             o == [op[s] EXCEPT !.left = @ \ {c.entity},
                                !.verdict[c.entity] = IF passes THEN "pass" ELSE "failed"]
  <1>1. /\ op[s].at = "item"
        /\ op' = [op EXCEPT ![s] = o]
        /\ reviews' = reviews \cup {[cand |-> c, by |-> s, pass |-> passes]}
        /\ UNCHANGED <<packet, items>>
    BY DEF SubmitItem, files, TypeOK, Processes
  <1>2. c \in Candidate /\ c.entity \in Entities
    BY OfferedType DEF TypeOK, Boards, Candidate
  <1> HIDE DEF passes
  <1>3. /\ o.at = "item"
        /\ o.left = op[s].left \ {c.entity}
        /\ o.verdict = [op[s].verdict EXCEPT ![c.entity] = IF passes THEN "pass" ELSE "failed"]
    BY <1>1, OpType DEF Operation, Processes
  <1> HIDE DEF o
  <1>4. op'[s] = o
    BY <1>1, OpAfter DEF Processes
  <1>5. ASSUME NEW t \in Sessions, t # s
        PROVE  op'[t] = op[t] /\ op[t].at \notin Busy
    <2>1. t \in Processes /\ s \in Processes
      BY DEF Processes
    <2>2. op'[t] = op[t]
      BY <1>1, <1>5, <2>1, OpAfter
    <2>3. op[t].at \notin Busy
      BY <1>1, <1>5, <2>1 DEF OneSubmitter, Submitting, Busy
    <2> QED
      BY <2>2, <2>3
  <1>6. Correcting'
    BY <1>3, <1>4, <1>5 DEF Correcting, Busy
  <1>7. Offered(packet["source"])' = Offered(packet["source"])
    BY <1>1 DEF Offered
  <1>8. \A d : Passed(d) => Passed(d)'
    BY <1>1 DEF Passed
  <1>9. ASSUME passes
        PROVE  Passed(c)'
    <2> DEFINE r == [cand |-> c, by |-> s, pass |-> passes]
    <2>1. r \in reviews'
      BY <1>1
    <2>2. r.cand = c /\ r.pass
      BY <1>9
    <2> QED
      BY <2>1, <2>2 DEF Passed
  <1>10. ASSUME NEW d \in Offered(packet["source"]), o.verdict[d.entity] = "pass", d.entity \notin o.left
         PROVE  Passed(d)'
    <2>1. CASE d.entity = c.entity
      <3>1. PICK x \in packet["source"] : x.cand = c
        BY DEF Offered
      <3>2. PICK y \in packet["source"] : y.cand = d
        BY DEF Offered
      <3>3. x = y
        BY <2>1, <3>1, <3>2 DEF ItemsInv, OneEach
      <3>4. op[s].verdict \in [Entities -> Verdicts]
        BY OpType DEF Processes
      <3>5. o.verdict[c.entity] = IF passes THEN "pass" ELSE "failed"
        BY <1>2, <1>3, <3>4
      <3>6. passes
        BY <1>10, <2>1, <3>5
      <3> QED
        BY <1>9, <3>1, <3>2, <3>3, <3>6
    <2>2. CASE d.entity # c.entity
      <3>1. d.entity \in Entities
        BY OfferedType DEF TypeOK, Boards, Candidate
      <3>2. op[s].verdict \in [Entities -> Verdicts]
        BY OpType DEF Processes
      <3>3. op[s].verdict[d.entity] = "pass" /\ d.entity \notin op[s].left
        BY <1>3, <1>10, <2>2, <3>1, <3>2
      <3>4. Passed(d)
        BY <1>1, <3>3 DEF ItemsInv, PassedSoFar
      <3> QED
        BY <1>8, <3>4
    <2> QED
      BY <2>1, <2>2
  <1>11. PassedSoFar'
    <2> SUFFICES ASSUME NEW t \in Sessions, op'[t].at \in {"item", "state"}
                 PROVE  /\ op'[t].at = "state" => op'[t].left = {}
                        /\ \A d \in Offered(packet["source"]) :
                             op'[t].verdict[d.entity] = "pass" /\ d.entity \notin op'[t].left => Passed(d)'
      BY <1>7 DEF PassedSoFar
    <2>1. t = s
      BY <1>5 DEF Busy
    <2> QED
      BY <1>3, <1>4, <1>10, <2>1
  <1>12. OneEach(packet["source"])' /\ ItemsFit'
    BY <1>1, <1>7 DEF ItemsInv, OneEach, ItemsFit
  <1>13. ItemPassIsPublic'
    BY <1>1 DEF ItemsInv, ItemPassIsPublic
  <1> QED
    BY <1>6, <1>11, <1>12, <1>13 DEF ItemsInv

LEMMA WriteReceiptItems ==
    ASSUME TypeOK, ItemsInv, NEW s \in Sessions, WriteReceipt(s)
    PROVE  ItemsInv'
  <1> DEFINE o == [op[s] EXCEPT !.at = "state"]
  <1>1. /\ op' = [op EXCEPT ![s] = o] /\ op[s].at = "item" /\ op[s].left = {}
        /\ UNCHANGED <<reviews, packet, items>>
    BY DEF WriteReceipt, registry, files
  <1>2. o.at = "state" /\ o.left = op[s].left /\ o.verdict = op[s].verdict
    BY OpType DEF Operation, Processes
  <1> HIDE DEF o
  <1>3. op'[s] = o /\ \A t \in Sessions : t # s => op'[t] = op[t]
    BY <1>1, OpAfter DEF Processes
  <1>4. Offered(packet["source"])' = Offered(packet["source"])
    BY <1>1 DEF Offered
  <1>5. Correcting'
    BY <1>2, <1>3 DEF ItemsInv, Correcting, OneEach
  <1>6. PassedSoFar'
    BY <1>1, <1>2, <1>3, <1>4 DEF ItemsInv, PassedSoFar, Passed
  <1>7. OneEach(packet["source"])' /\ ItemsFit' /\ ItemPassIsPublic'
    BY <1>1, <1>4 DEF ItemsInv, OneEach, ItemsFit, ItemPassIsPublic
  <1> QED
    BY <1>5, <1>6, <1>7 DEF ItemsInv

\* state.json reports passes of the submission that is just done.
LEMMA SaveStateItems ==
    ASSUME TypeOK, ItemsInv, Judged, NEW s \in Sessions, SaveState(s)
    PROVE  ItemsInv'
  <1> DEFINE o == [op[s] EXCEPT !.at = "unlock"]
             of(e) == CHOOSE c \in Offered(packet["source"]) : c.entity = e
  <1>1. /\ op' = [op EXCEPT ![s] = o] /\ op[s].at = "state"
        /\ items' = [e \in Entities |-> IF op[s].verdict[e] = "none" THEN items[e] ELSE Recorded(s, of(e))]
        /\ UNCHANGED <<reviews, packet>>
    BY DEF SaveState, registry
  <1>2. o.at = "unlock"
    BY OpType DEF Operation, Processes
  <1>3. \A e \in Entities : op[s].verdict[e] # "none" =>
            of(e) \in Offered(packet["source"]) /\ of(e).entity = e
    BY <1>1 DEF Judged
  <1> HIDE DEF o, of
  <1>4. op'[s] = o /\ \A t \in Sessions : t # s => op'[t] = op[t]
    BY <1>1, OpAfter DEF Processes
  <1>5. Offered(packet["source"])' = Offered(packet["source"])
    BY <1>1 DEF Offered
  <1>6. Correcting'
    BY <1>2, <1>4 DEF ItemsInv, Correcting, OneEach
  <1>7. PassedSoFar'
    BY <1>1, <1>2, <1>4, <1>5 DEF ItemsInv, PassedSoFar, Passed
  <1>8. ItemsFit'
    BY <1>1, <1>3, <1>5 DEF ItemsInv, ItemsFit, Recorded
  <1>9. ASSUME NEW e \in Entities, items'[e] # None, items'[e].pass
        PROVE  Passed(items'[e].cand)
    <2>1. CASE op[s].verdict[e] = "none"
      BY <1>1, <1>9, <2>1 DEF ItemsInv, ItemPassIsPublic, Passed
    <2>2. CASE op[s].verdict[e] # "none"
      <3>1. items'[e].cand = of(e) /\ op[s].verdict[of(e).entity] = "pass"
        BY <1>1, <1>9, <2>2 DEF Recorded
      <3>2. of(e) \in Offered(packet["source"])
        BY <1>3, <2>2
      <3>3. op[s].left = {}
        BY <1>1 DEF ItemsInv, PassedSoFar
      <3> QED
        BY <1>1, <3>1, <3>2, <3>3 DEF ItemsInv, PassedSoFar
    <2> QED
      BY <2>1, <2>2
  <1>10. ItemPassIsPublic'
    BY <1>1, <1>9 DEF ItemPassIsPublic, Passed
  <1>11. OneEach(packet["source"])'
    BY <1>1 DEF ItemsInv, OneEach
  <1> QED
    BY <1>6, <1>7, <1>8, <1>10, <1>11 DEF ItemsInv

\* Calls that leave the source board's items alone.
ItemsAlone ==
    /\ items' = items /\ packet'["source"] = packet["source"]
    /\ \A s \in Sessions : op'[s] = op[s] \/ op'[s].at \notin Busy

LEMMA MoveAlone ==
    ASSUME TypeOK, NEW x \in Processes, NEW o, op' = [op EXCEPT ![x] = o], o.at \notin Busy,
           items' = items, packet'["source"] = packet["source"]
    PROVE  ItemsAlone
  <1>1. ASSUME NEW s \in Sessions
        PROVE  op'[s] = op[s] \/ op'[s].at \notin Busy
    <2>1. s \in Processes
      BY DEF Processes
    <2>2. CASE s = x
      BY <2>2, OpAfter
    <2>3. CASE s # x
      BY <2>1, <2>3, OpAfter
    <2> QED
      BY <2>2, <2>3
  <1> QED
    BY <1>1 DEF ItemsAlone

\* Every step is one of the seven above or leaves the items alone.
LEMMA ItemCases ==
    ASSUME TypeOK, Next
    PROVE  \/ ItemsAlone
           \/ \E x \in Processes : Queue(x)
           \/ \E s \in Sessions : \E v \in Judgements(packet["source"]) : BeginSource(s, v)
           \/ \E s \in Sessions : \E c \in Offered(packet["source"]) : SubmitItem(s, c)
           \/ \E s \in Sessions : WriteReceipt(s)
           \/ \E s \in Sessions : SaveState(s)
           \/ \E s \in Sessions : \E y \in packet["source"] : \E kept \in {{}, y.cand.authors} :
                  Correct(s, y.cand, kept)
           \/ \E s \in Sessions : CloseCorrected(s)
           \/ \E s \in Sessions : SaveCorrected(s)
  <1>1. (\E e \in Entities : Collect(e)) \/ (\E E \in SUBSET Entities : StartRun(E)) \/ FinishRun => ItemsAlone
    BY DEF Collect, StartRun, FinishRun, files, ItemsAlone
  <1>2. (\E c \in Seen : Hold(c)) \/ (\E d \in disputes : ImportDecision(d)) => ItemsAlone
    BY DEF Hold, ImportDecision, files, ItemsAlone
  <1>3. \A s \in Sessions : Wake(s) \/ End(s) => ItemsAlone
    BY DEF Wake, End, files, ItemsAlone
  <1>4. ASSUME NEW x \in Processes, Prepare(x, "none") \/ Prepare(x, "final")
        PROVE  ItemsAlone
    <2>1. \E o : op' = [op EXCEPT ![x] = o] /\ o.at = "packet" /\ items' = items /\ packet' = packet
      <3>1. CASE Prepare(x, "none")
        BY <3>1 DEF Prepare, Idle, files
      <3>2. CASE Prepare(x, "final")
        BY <3>2 DEF Prepare, Idle, files
      <3> QED
        BY <1>4, <3>1, <3>2
    <2> QED
      BY <2>1, MoveAlone DEF Busy
  <1>5. ASSUME NEW x \in Processes, WritePacket(x) \/ Refresh(x)
        PROVE  ItemsAlone
    <2>1. CASE WritePacket(x)
      <3> DEFINE o == [op[x] EXCEPT !.at = "refresh"]
      <3>1. op' = [op EXCEPT ![x] = o] /\ items' = items /\ packet'["source"] = packet["source"]
        BY <2>1 DEF WritePacket, TypeOK, Boards
      <3>2. o.at = "refresh"
        BY OpType DEF Operation
      <3> QED
        BY <3>1, <3>2, MoveAlone DEF Busy
    <2>2. CASE Refresh(x)
      <3>1. items' = items /\ packet'["source"] = packet["source"]
        BY <2>2 DEF Refresh, files
      <3>2. CASE AfterRefresh(x)
        BY <3>1, <3>2, RefreshedStep, MoveAlone DEF Busy
      <3>3. CASE op' = [op EXCEPT ![x].at = "queue"]
        <4> DEFINE o == [op[x] EXCEPT !.at = "queue"]
        <4>1. op' = [op EXCEPT ![x] = o]
          BY <3>3
        <4>2. o.at = "queue"
          BY OpType DEF Operation
        <4> QED
          BY <3>1, <4>1, <4>2, MoveAlone DEF Busy
      <3> QED
        BY <2>2, <3>2, <3>3 DEF Refresh
    <2> QED
      BY <1>5, <2>1, <2>2
  <1>6. ASSUME NEW x \in Processes, Raise(x) \/ Crash(x)
        PROVE  ItemsAlone
    <2>1. op' = [op EXCEPT ![x] = Idle] /\ Idle.at = "idle" /\ items' = items /\ packet' = packet
      BY <1>6 DEF Raise, Crash, Leave, Idle, files
    <2> QED
      BY <2>1, MoveAlone DEF Busy
  <1>7. ASSUME NEW s \in Sessions,
               ClaimFinal(s) \/ ClaimSource(s) \/ ReleaseFinal(s) \/ ReleaseSource(s) \/ Refuse(s)
        PROVE  ItemsAlone
    <2>1. op' = [op EXCEPT ![s] = Idle] /\ Idle.at = "idle" /\ items' = items /\ packet' = packet
      BY <1>7 DEF ClaimFinal, ClaimSource, ReleaseFinal, ReleaseSource, Refuse, Leave, Idle, files
    <2> QED
      BY <2>1, MoveAlone DEF Busy, Processes
  <1>8. ASSUME NEW s \in Sessions, BeginClaimSource(s) \/ \E v \in Judgements(packet["final"]) : BeginFinal(s, v)
        PROVE  ItemsAlone
    <2>1. \E o : op' = [op EXCEPT ![s] = o] /\ o.at \in {"refresh", "commit"} /\ items' = items /\ packet' = packet
      BY <1>8 DEF BeginClaimSource, BeginFinal, Idle, files
    <2> QED
      BY <2>1, MoveAlone DEF Busy, Processes
  <1>9. ASSUME NEW s \in Sessions, CommitFinal(s)
        PROVE  ItemsAlone
    <2> DEFINE o == [op[s] EXCEPT !.at = "release"]
    <2>1. op' = [op EXCEPT ![s] = o] /\ items' = items /\ packet' = packet
      BY <1>9 DEF CommitFinal, files
    <2>2. o.at = "release"
      BY OpType DEF Operation, Processes
    <2> QED
      BY <2>1, <2>2, MoveAlone DEF Busy, Processes
  <1> QED
    BY <1>1, <1>2, <1>3, <1>4, <1>5, <1>6, <1>7, <1>8, <1>9, StepCases

LEMMA ItemsInit ==
    ASSUME Init
    PROVE  ItemsInv
  <1>1. OneEach(packet["source"])
    <2>1. packet["source"] = {[cand |-> First(e), ready |-> FALSE] : e \in Entities}
      BY DEF Init, Boards
    <2>2. \A e \in Entities : First(e).entity = e
      BY DEF First
    <2> DEFINE E(e) == [cand |-> First(e), ready |-> FALSE]
    <2>3. ASSUME NEW x \in packet["source"], NEW y \in packet["source"], x.cand.entity = y.cand.entity
          PROVE  x = y
      <3>1. PICK e \in Entities : x = E(e)
        BY <2>1
      <3>2. PICK f \in Entities : y = E(f)
        BY <2>1
      <3>3. E(e).cand.entity = e /\ E(f).cand.entity = f
        BY <2>2
      <3> HIDE DEF E
      <3> QED
        BY <2>3, <3>1, <3>2, <3>3
    <2> QED
      BY <2>3 DEF OneEach
  <1>2. \A s \in Sessions : op[s].at = "idle"
    BY DEF Init, Idle, Processes
  <1>3. Correcting /\ PassedSoFar
    BY <1>2 DEF Correcting, PassedSoFar
  <1>4. ItemsFit /\ ItemPassIsPublic
    BY DEF Init, ItemsFit, ItemPassIsPublic
  <1> QED
    BY <1>1, <1>3, <1>4 DEF ItemsInv

LEMMA ItemsStep ==
    ASSUME IInv, ItemsInv, [Next]_vars
    PROVE  ItemsInv'
  <1>1. CASE Next
    <2>1. TypeOK /\ Indexed /\ OneSubmitter /\ Judged
      BY DEF IInv, Board
    <2>2. CASE ItemsAlone
      BY <1>1, <2>2, BoardAlone, ReviewsGrow DEF ItemsAlone
    <2>3. CASE ~ItemsAlone
      BY <1>1, <2>1, <2>3, ItemCases, QueueItems, BeginSourceItems, SubmitItemItems, WriteReceiptItems,
         SaveStateItems, CorrectItems, CloseItems, SaveCorrectedItems
    <2> QED
      BY <2>2, <2>3
  <1>2. CASE UNCHANGED vars
    BY <1>2, BoardAlone DEF vars
  <1> QED
    BY <1>1, <1>2

\* The invariant both are read off.
THEOREM ItemsKeep == Spec => []ItemsInv
  BY ItemsInit, ItemsStep, Invariance, PTL DEF Spec

\* The reviews in state.json are of candidates its packet offers, however the
\* board was queued anew and corrected meanwhile.
THEOREM ReviewsFit == Spec => []ReviewsOfPacket
  <1>1. ItemsInv => ReviewsOfPacket
    BY DEF ItemsInv, ItemsFit, ReviewsOfPacket
  <1> QED
    BY <1>1, ItemsKeep, PTL

\* No item is called passed that has no pass in registry_reviews.
THEOREM PassedIsPublic == Spec => []ItemPassIsPublic
  <1>1. ItemsInv => ItemPassIsPublic
    BY DEF ItemsInv
  <1> QED
    BY <1>1, ItemsKeep, PTL

=============================================================================
