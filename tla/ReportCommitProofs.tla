------------------------- MODULE ReportCommitProofs -------------------------
(***************************************************************************)
(* Proofs about ReportCommit, for any days, articles, wordings and crashes:*)
(* its types; that no article is in the reports of two days, also when a   *)
(* run dies while it discards a bundle; and that the files of a day are    *)
(* those of one bundle when none does.                                     *)
(***************************************************************************)
EXTENDS ReportCommit, TLAPS

\* The delta belongs to day d, and what it publishes.
Pends(d) == delta # None /\ delta.day = d
Build == delta.build

\* Staged files and manifests are those of the bundle the delta was made for.
StagedForDelta ==
    \A d \in Days :
        /\ manifest[d] # None => Pends(d) /\ manifest[d] \in {Build, Torn}
        /\ \A k \in {1, 2} :
            pending[d][k] # None => Pends(d) /\ pending[d][k] \in {Part(k, Build), Torn}
        /\ manifest[d] = Torn => pending[d][2] = None
        /\ manifest[d] # None /\ manifest[d] # Torn /\ pending[d][2] # None =>
            Matches(d, 1, manifest[d])

Unstaged(d) == manifest[d] = None /\ pending[d][1] = None /\ pending[d][2] = None

\* How far the run is.
RunInv ==
    run # None =>
        /\ delta # None => run.target = delta.day
        /\ run.at \in {"read", "clear", "select"} => delta = None
        /\ run.at \notin {"recover", "read", "clear", "select"} => delta # None
        /\ run.at \in {"manifest", "stage", "replace"} => run.build = Build
        /\ run.at \in {"manifest", "resolve", "seen"} => Unstaged(run.target)
        /\ run.at \in {"stage", "replace", "apply", "unmanifest"} =>
            manifest[run.target] = Build
        /\ run.at \in {"stage", "replace", "apply"} => run.k # 0
DropInv ==
    At("drop") =>
        /\ run.k <= run.last /\ run.last # 0
        /\ run.k # 0 => manifest[run.target] = None
        /\ run.k \in {2, 3, 4} => pending[run.target][1] = None
        /\ run.k \in {3, 4} \/ run.last = 1 => pending[run.target][2] = None

StageInv ==
    At("stage") =>
        /\ run.k \in {1, 2} => pending[run.target][2] = None
        /\ \A j \in Kinds : j < run.k => pending[run.target][j] = Part(j, Build)

\* The files before the run's next one are those of the bundle, in a commit and
\* in its recovery; those from it on are staged, or were replaced already.
ReplaceInv ==
    run # None /\ run.at \in {"replace", "apply", "unmanifest"} =>
        /\ \A j \in Kinds : run.at = "unmanifest" \/ j < run.k =>
            /\ final[run.target][j] = Part(j, Build)
            /\ pending[run.target][j] = None
        /\ \A j \in Kinds : run.at # "unmanifest" /\ run.k <= j => Matches(run.target, j, Build)

PairInv ==
    At("legacy") =>
        /\ manifest[run.target] = None
        /\ pending[run.target][2] \notin {None, Torn}
        /\ run.k \in {1, 2}
        /\ run.k = 2 => pending[run.target][1] = None

ReadInv ==
    /\ At("seen") => final[run.target][4] # None
    /\ At("clear") => /\ Unpublished(today) /\ run.k \in {3, 4}
                      /\ run.k = 4 => final[today][3] = None
    /\ At("select") =>
        IF HasReport THEN final[today][3] # None
                     ELSE final[today][3] = None /\ final[today][4] = None

\* Nothing exists of days to come.
FutureInv ==
    /\ \A d \in Days : today < d => final[d] = Empty
    /\ delta # None => /\ delta.day <= today
                       /\ \A d \in Days : delta.day < d => final[d] = Empty

\* Every reported article is on the list, or in the pending delta of its report.
Accounted ==
    \A d \in Days :
        /\ Reported(d) \subseteq seen \/ (Pends(d) /\ final[d][1] = Part(1, Build))
        /\ final[d][4] # None =>
            \/ final[d][4].kept \subseteq seen
            \/ Pends(d) /\ \A k \in Kinds : final[d][k] = Part(k, Build)
        /\ final[d][4] = None =>
            IF Pends(d) THEN /\ final[d][1] \in {None, Part(1, Build)}
                             /\ final[d][3] \in {None, Part(3, Build)}
                        ELSE final[d][1] = None

Retained(d) == IF final[d][3] = None THEN {} ELSE final[d][3].items

\* What earlier days reported is no candidate of a later day.
Apart ==
    /\ \A d, e \in Days : d < e => Reported(d) \cap (Reported(e) \cup Retained(e)) = {}
    /\ delta # None => \A d \in Days : d < delta.day => Reported(d) \cap Build.items = {}

StepInv == /\ RunInv /\ DropInv /\ StageInv /\ ReplaceInv /\ PairInv /\ ReadInv

Inv == TypeOK /\ StagedForDelta /\ StepInv /\ FutureInv /\ Accounted /\ Apart

(* ------------------------- contents, runs and files -------------------- *)

LEMMA PartValues ==
    ASSUME NEW b \in Bundles
    PROVE  /\ Part(1, b) = [kept |-> b.kept, text |-> b.text] /\ Part(2, b) = Part(1, b)
           /\ Part(3, b) = [items |-> b.items] /\ Part(4, b) = b
           /\ Part(1, b).kept = b.kept /\ Part(3, b).items = b.items
           /\ b.kept \subseteq b.items /\ b.items \subseteq Urls /\ b.kept # {}
BY DEF Part, Bundles

LEMMA ContentsValues ==
    /\ Kinds = {1, 2, 3, 4}
    /\ Contents[1] = [kept : SUBSET Urls, text : Texts] /\ Contents[2] = Contents[1]
    /\ Contents[3] = [items : SUBSET Urls] /\ Contents[4] = Bundles
    /\ \A k \in Kinds : Contents[k] \subseteq AnyContent
    /\ {None, Torn} \cap AnyContent = {} /\ None # Torn
<1>1. Kinds = {1, 2, 3, 4}
  BY DEF Kinds
<1>2. /\ Contents[1] = [kept : SUBSET Urls, text : Texts] /\ Contents[2] = Contents[1]
      /\ Contents[3] = [items : SUBSET Urls] /\ Contents[4] = Bundles
  <2>1. ASSUME NEW k \in Kinds
        PROVE  /\ k = 4 => Contents[k] = Bundles
               /\ k = 3 /\ k # 4 => Contents[k] = [items : SUBSET Urls]
               /\ k # 3 /\ k # 4 => Contents[k] = [kept : SUBSET Urls, text : Texts]
    BY Zenon DEF Contents
  <2>2. {1, 2, 3, 4} \subseteq Kinds /\ 1 # 3 /\ 1 # 4 /\ 2 # 3 /\ 2 # 4 /\ 3 # 4
    BY <1>1
  <2> QED
    BY <2>1, <2>2, Zenon
<1>3. \A k \in Kinds : Contents[k] \subseteq AnyContent
  BY DEF AnyContent
<1> QED
  BY <1>1, <1>2, <1>3, NoneAssumption

LEMMA PartType ==
    ASSUME NEW b \in Bundles, NEW k \in Kinds
    PROVE  /\ Part(k, b) \in Contents[k] /\ Part(k, b) \in AnyContent
           /\ Part(k, b) # None /\ Part(k, b) # Torn
<1>1. b.kept \in SUBSET Urls /\ b.items \in SUBSET Urls /\ b.text \in Texts
  BY DEF Bundles
<1>2. Part(k, b) \in Contents[k]
  <2>1. CASE k \in {1, 2}
    <3>1. Part(k, b) = [kept |-> b.kept, text |-> b.text]
      BY <2>1, PartValues
    <3>2. Contents[k] = [kept : SUBSET Urls, text : Texts]
      BY <2>1, ContentsValues
    <3> QED
      BY <1>1, <3>1, <3>2
  <2>2. CASE k = 3
    BY <1>1, <2>2, PartValues, ContentsValues
  <2>3. CASE k = 4
    BY <2>3, PartValues, ContentsValues
  <2> QED
    BY <2>1, <2>2, <2>3, ContentsValues
<1> QED
  BY <1>2, ContentsValues

LEMMA BundleType ==
    ASSUME TypeOK
    PROVE  /\ delta # None => delta \in Delta /\ delta.day \in Days /\ Build \in Bundles
           /\ run # None => /\ run \in Run /\ run.target \in Days /\ run.at \in Steps
                            /\ run.k \in 0..4 /\ run.last \in 0..4
                            /\ run.build \in Bundles \cup {None} /\ run.result \in Results
BY DEF TypeOK, Delta, Run, Build

LEMMA NotNone ==
    /\ \A b \in Bundles : b # None /\ b # Torn
    /\ \A r \in Run : r # None
    /\ \A e \in Delta : e # None
BY NoneAssumption

LEMMA GoToType ==
    ASSUME run \in Run, NEW step \in Steps, NEW k \in 0..4, GoTo(step, k)
    PROVE  /\ run' \in Run /\ run' # None /\ run'.at = step /\ run'.k = k
           /\ run'.target = run.target /\ run'.last = run.last
           /\ run'.build = run.build /\ run'.result = run.result
BY NotNone DEF GoTo, Run

LEMMA RecoverDayType ==
    ASSUME NEW d \in Days, RecoverDay(d)
    PROVE  /\ run' \in Run /\ run' # None /\ run'.at = "recover" /\ run'.target = d
           /\ run'.build = None
<1>1. run' \in Run
  BY DEF RecoverDay, Run, Steps, Results
<1> QED
  BY <1>1, NotNone DEF RecoverDay

LEMMA RecoveredType ==
    ASSUME run \in Run, NEW r \in Results, Recovered(r)
    PROVE  /\ run' \in Run /\ run' # None
           /\ run'.at = IF delta # None THEN "resolve" ELSE "read"
           /\ run'.target = run.target /\ run'.result = r
<1>1. run' \in Run
  BY DEF Recovered, Run, Steps
<1> QED
  BY <1>1, NotNone DEF Recovered, Run

LEMMA DiscardingType ==
    ASSUME run \in Run, NEW first \in 0..4, NEW last \in 0..4, Discarding(first, last)
    PROVE  /\ run' \in Run /\ run' # None /\ run'.at = "drop"
           /\ run'.k = first /\ run'.last = last
           /\ run'.target = run.target /\ run'.build = run.build
<1>1. run' \in Run
  BY DEF Discarding, Run, Steps
<1> QED
  BY <1>1, NotNone DEF Discarding, Run

LEMMA PutValue ==
    ASSUME NEW S, NEW f \in [Days -> [Kinds -> S]], NEW d \in Days, NEW k \in Kinds,
           NEW x \in S, NEW g, g = [f EXCEPT ![d][k] = x]
    PROVE  /\ g \in [Days -> [Kinds -> S]] /\ g[d][k] = x
           /\ \A e \in Days, j \in Kinds : e # d \/ j # k => g[e][j] = f[e][j]
           /\ \A e \in Days : e # d => g[e] = f[e]
OBVIOUS

LEMMA FileTypes ==
    ASSUME TypeOK, NEW d \in Days, NEW k \in Kinds
    PROVE  /\ final[d][k] \in Contents[k] \cup {None}
           /\ pending[d][k] \in Contents[k] \cup {None, Torn}
           /\ final[d][k] # Torn
BY ContentsValues DEF TypeOK

\* One file is replaced: the others and those of other days stay.
LEMMA ReplacedType ==
    ASSUME TypeOK, NEW d \in Days, NEW k \in Kinds, NEW want \in Contents[k],
           Replaced(d, k, want)
    PROVE  /\ final' \in [Days -> [Kinds -> AnyContent \cup {None}]]
           /\ pending' \in [Days -> [Kinds -> AnyContent \cup {None, Torn}]]
           /\ pending'[d][k] = None
           /\ final'[d][k] = IF pending[d][k] = want THEN want ELSE final[d][k]
           /\ \A e \in Days, j \in Kinds :
                e # d \/ j # k => final'[e][j] = final[e][j] /\ pending'[e][j] = pending[e][j]
           /\ \A e \in Days : e # d => final'[e] = final[e] /\ pending'[e] = pending[e]
<1>1. want \in AnyContent
  BY ContentsValues
<1>2. /\ pending' \in [Days -> [Kinds -> AnyContent \cup {None, Torn}]]
      /\ pending'[d][k] = None
      /\ \A e \in Days, j \in Kinds : e # d \/ j # k => pending'[e][j] = pending[e][j]
      /\ \A e \in Days : e # d => pending'[e] = pending[e]
  <2>1. pending \in [Days -> [Kinds -> AnyContent \cup {None, Torn}]]
        /\ pending' = [pending EXCEPT ![d][k] = None]
    BY DEF TypeOK, Replaced
  <2> QED
    BY <2>1, PutValue
<1>3. CASE pending[d][k] = want
  <2>1. final \in [Days -> [Kinds -> AnyContent \cup {None}]]
        /\ final' = [final EXCEPT ![d][k] = want]
    BY <1>3 DEF TypeOK, Replaced
  <2>2. /\ final' \in [Days -> [Kinds -> AnyContent \cup {None}]] /\ final'[d][k] = want
        /\ \A e \in Days, j \in Kinds : e # d \/ j # k => final'[e][j] = final[e][j]
        /\ \A e \in Days : e # d => final'[e] = final[e]
    BY <1>1, <2>1, PutValue
  <2> QED
    BY <1>2, <1>3, <2>2
<1>4. CASE pending[d][k] # want
  <2>1. final' = final
    BY <1>4 DEF Replaced
  <2> QED
    BY <1>2, <1>4, <2>1 DEF TypeOK
<1> QED
  BY <1>3, <1>4

(* ------------------------- what the next step knows of the run -------- *)

LEMMA EndsSteps == ASSUME Ends PROVE StepInv'
BY DEF Ends, StepInv, RunInv, DropInv, StageInv, ReplaceInv, PairInv, ReadInv, At

LEMMA RecoverDaySteps ==
    ASSUME NEW d \in Days, RecoverDay(d), delta' # None => delta'.day = d
    PROVE  StepInv'
<1>1. run' # None /\ run'.at = "recover" /\ run'.target = d
  BY RecoverDayType
<1> QED
  BY <1>1 DEF StepInv, RunInv, DropInv, StageInv, ReplaceInv, PairInv, ReadInv, At

LEMMA RecoveredSteps ==
    ASSUME run \in Run, NEW r \in Results, Recovered(r), delta' = delta,
           delta # None => run.target = delta.day /\ Unstaged(run.target)'
    PROVE  StepInv'
<1>1. /\ run' # None /\ run'.at \in {"resolve", "read"} /\ run'.target = run.target
      /\ run'.at = "read" <=> delta = None
  BY RecoveredType
<1>2. RunInv'
  BY <1>1 DEF RunInv, Unstaged
<1> QED
  BY <1>1, <1>2 DEF StepInv, DropInv, StageInv, ReplaceInv, PairInv, ReadInv, At

LEMMA DiscardingSteps ==
    ASSUME run \in Run, run.target = delta.day, delta # None, UNCHANGED <<files, delta>>,
           NEW first \in {0, 1}, NEW last \in Kinds, Discarding(first, last),
           first = 1 => manifest[run.target] = None /\ last = 2,
           last = 1 => pending[run.target][2] = None
    PROVE  StepInv'
<1>1. /\ run' # None /\ run'.at = "drop" /\ run'.k = first /\ run'.last = last
      /\ run'.target = run.target
  BY DiscardingType, ContentsValues
<1>2. last \in {1, 2, 3, 4}
  BY ContentsValues
<1>3. RunInv'
  BY <1>1 DEF RunInv
<1>4. DropInv'
  BY <1>1, <1>2 DEF DropInv, At, files
<1> QED
  BY <1>1, <1>3, <1>4 DEF StepInv, StageInv, ReplaceInv, PairInv, ReadInv, At

\* A step that changes only the run keeps what is said of files and delta.
LEMMA FilesKept ==
    ASSUME Inv, UNCHANGED <<files, delta, seen, today>>
    PROVE  StagedForDelta' /\ FutureInv' /\ Accounted' /\ Apart'
<1>1. /\ final' = final /\ pending' = pending /\ manifest' = manifest
      /\ delta' = delta /\ seen' = seen /\ today' = today
  BY DEF files
<1>2. StagedForDelta'
  BY <1>1 DEF Inv, StagedForDelta, Pends, Build, Matches
<1>3. FutureInv'
  BY <1>1 DEF Inv, FutureInv
<1>4. Accounted'
  BY <1>1 DEF Inv, Accounted, Reported, Pends, Build
<1>5. Apart'
  BY <1>1 DEF Inv, Apart, Reported, Retained, Build
<1> QED
  BY <1>2, <1>3, <1>4, <1>5

LEMMA RunOnlyType ==
    ASSUME TypeOK, UNCHANGED <<files, delta, seen, today, crashes, cuts>>,
           run' \in Run \cup {None}
    PROVE  TypeOK'
BY DEF TypeOK, files

LEMMA RunOnly ==
    ASSUME Inv, UNCHANGED <<files, delta, seen, today, crashes, cuts>>,
           run' \in Run \cup {None}, StepInv'
    PROVE  Inv'
BY RunOnlyType, FilesKept DEF Inv

(* ------------------------- one lemma per action ----------------------- *)

LEMMA StartStep == ASSUME Inv, Start PROVE Inv'
<1>1. delta # None => delta.day \in Days
  BY BundleType DEF Inv
<1>2. PICK d \in Days : RecoverDay(d) /\ (delta # None => delta.day = d)
  BY <1>1 DEF Start, Inv, TypeOK
<1>3. StepInv' /\ run' \in Run
  BY <1>2, RecoverDaySteps, RecoverDayType DEF Start
<1> QED
  BY <1>3, RunOnly DEF Start

LEMMA NextDayStep == ASSUME Inv, NextDay PROVE Inv'
<1>1. /\ final' = final /\ pending' = pending /\ manifest' = manifest /\ delta' = delta
      /\ seen' = seen /\ run' = run /\ crashes' = crashes /\ cuts' = cuts
      /\ run = None /\ today' = today + 1 /\ today < LastDay
  BY DEF NextDay, files
<1>2. today \in Nat /\ Days \subseteq Nat /\ today' \in Days
  BY <1>1, BoundsAssumption DEF Inv, TypeOK, Days
<1>3. TypeOK'
  BY <1>1, <1>2 DEF Inv, TypeOK
<1>4. StepInv'
  BY <1>1 DEF StepInv, RunInv, DropInv, StageInv, ReplaceInv, PairInv, ReadInv, At
<1>5. FutureInv'
  <2>1. delta # None => delta.day \in Days
    BY BundleType DEF Inv
  <2>2. /\ \A d \in Days : today' < d => today < d
        /\ \A d \in Days : d <= today => d <= today'
    BY <1>1, <1>2
  <2> QED
    BY <1>1, <2>1, <2>2 DEF Inv, FutureInv
<1>6. StagedForDelta'
  BY <1>1 DEF Inv, StagedForDelta, Pends, Build, Matches
<1>7. Accounted'
  BY <1>1 DEF Inv, Accounted, Reported, Pends, Build
<1>8. Apart'
  BY <1>1 DEF Inv, Apart, Reported, Retained, Build
<1> QED
  BY <1>3, <1>4, <1>5, <1>6, <1>7, <1>8 DEF Inv

LEMMA RaiseStep == ASSUME Inv, Raise PROVE Inv'
<1>1. Ends /\ UNCHANGED <<files, delta, seen, today, crashes, cuts>>
  BY DEF Raise
<1> QED
  BY <1>1, EndsSteps, RunOnly DEF Ends

LEMMA RecoverStep == ASSUME Inv, Recover PROVE Inv'
<1> DEFINE d == run.target
<1>1. /\ run # None /\ run.at = "recover" /\ run \in Run /\ d \in Days
      /\ UNCHANGED <<files, delta, seen, today, crashes, cuts>>
  BY BundleType DEF Recover, At, Inv
<1>2. delta # None => d = delta.day
  BY <1>1 DEF Inv, StepInv, RunInv
<1>3. /\ manifest[d] # None => Pends(d) /\ manifest[d] \in {Build, Torn}
      /\ \A k \in {1, 2} : pending[d][k] # None => Pends(d)
      /\ manifest[d] # None /\ manifest[d] # Torn /\ pending[d][2] # None =>
            Matches(d, 1, manifest[d])
  BY <1>1 DEF Inv, StagedForDelta
<1>4. CASE manifest[d] = Torn /\ Discarding(0, 2)
  <2>1. delta # None
    BY <1>3, <1>4, NotNone, NoneAssumption DEF Pends
  <2>2. StepInv' /\ run' \in Run
    BY <1>1, <1>2, <1>4, <2>1, DiscardingSteps, DiscardingType, ContentsValues
  <2> QED
    BY <1>1, <2>2, RunOnly
<1>5. ASSUME manifest[d] # None, manifest[d] # Torn, NEW k \in Missing(d), Discarding(0, k)
      PROVE  Inv'
  <2>1. delta # None /\ k \in Kinds
    BY <1>3, <1>5 DEF Pends, Missing
  <2>2. k = 1 => pending[d][2] = None
    BY <1>3, <1>5 DEF Missing
  <2>3. StepInv' /\ run' \in Run
    BY <1>1, <1>2, <1>5, <2>1, <2>2, DiscardingSteps, DiscardingType, ContentsValues
  <2> QED
    BY <1>1, <2>3, RunOnly
<1>6. CASE manifest[d] # None /\ manifest[d] # Torn /\ Missing(d) = {} /\ GoTo("apply", 1)
  <2>1. delta # None /\ manifest[d] = Build
    BY <1>3, <1>6 DEF Pends
  <2>2. \A k \in Kinds : Matches(d, k, Build)
    BY <1>6, <2>1 DEF Missing
  <2>3. /\ run' \in Run /\ run' # None /\ run'.at = "apply" /\ run'.k = 1 /\ run'.target = d
    BY <1>1, <1>6, GoToType DEF Steps
  <2>4. final' = final /\ pending' = pending /\ manifest' = manifest /\ delta' = delta
    BY <1>1 DEF files
  <2>5. RunInv'
    BY <1>2, <2>1, <2>3, <2>4 DEF RunInv, Build
  <2>6. ReplaceInv'
    BY <2>2, <2>3, <2>4, ContentsValues DEF ReplaceInv, Matches, Build
  <2>7. StepInv'
    BY <2>3, <2>5, <2>6 DEF StepInv, DropInv, StageInv, PairInv, ReadInv, At
  <2> QED
    BY <1>1, <2>3, <2>7, RunOnly
<1>7. CASE manifest[d] = None /\ pending[d][1] = None /\ pending[d][2] = None /\ Recovered("clean")
  <2>1. run' \in Run /\ StepInv'
    BY <1>1, <1>2, <1>7, RecoveredType, RecoveredSteps DEF Results, Unstaged, files
  <2> QED
    BY <1>1, <2>1, RunOnly
<1>8. CASE manifest[d] = None /\ Paired(d) /\ GoTo("legacy", 1)
  <2>1. delta # None
    BY <1>3, <1>8 DEF Pends, Paired
  <2>2. /\ run' \in Run /\ run' # None /\ run'.at = "legacy" /\ run'.k = 1 /\ run'.target = d
    BY <1>1, <1>8, GoToType DEF Steps
  <2>3. RunInv' /\ PairInv'
    BY <1>1, <1>2, <1>8, <2>1, <2>2 DEF RunInv, PairInv, Paired, At, files
  <2>4. StepInv'
    BY <2>2, <2>3 DEF StepInv, DropInv, StageInv, ReplaceInv, ReadInv, At
  <2> QED
    BY <1>1, <2>2, <2>4, RunOnly
<1>9. CASE /\ manifest[d] = None /\ Discarding(1, 2)
           /\ pending[d][1] # None \/ pending[d][2] # None
  <2>1. delta # None
    BY <1>3, <1>9 DEF Pends
  <2>2. StepInv' /\ run' \in Run
    BY <1>1, <1>2, <1>9, <2>1, DiscardingSteps, DiscardingType, ContentsValues
  <2> QED
    BY <1>1, <2>2, RunOnly
<1> QED
  BY <1>4, <1>5, <1>6, <1>7, <1>8, <1>9 DEF Recover, RecoverManifest, RecoverPair

LEMMA AcceptDeltaStep == ASSUME Inv, AcceptDelta PROVE Inv'
<1>1. /\ run # None /\ run.at = "resolve" /\ run \in Run
      /\ UNCHANGED <<files, delta, seen, today, crashes, cuts>>
      /\ GoTo("seen", 0) /\ Committed(delta.day, Build)
  BY BundleType DEF AcceptDelta, At, Inv, Build
<1>2. /\ run' \in Run /\ run' # None /\ run'.at = "seen" /\ run'.target = run.target
  BY <1>1, GoToType DEF Steps
<1>3. delta # None /\ run.target = delta.day /\ Unstaged(run.target)
  BY <1>1 DEF Inv, StepInv, RunInv
<1>4. Build \in Bundles
  BY <1>3, BundleType DEF Inv
<1>5. final[run.target][4] # None
  BY <1>1, <1>3, <1>4, PartType, ContentsValues DEF Committed
<1>6. final' = final /\ pending' = pending /\ manifest' = manifest /\ delta' = delta
  BY <1>1 DEF files
<1>7. RunInv' /\ ReadInv'
  BY <1>2, <1>3, <1>5, <1>6 DEF RunInv, ReadInv, Unstaged, At
<1>8. StepInv'
  BY <1>2, <1>7 DEF StepInv, DropInv, StageInv, PairInv, ReplaceInv, At
<1> QED
  BY <1>1, <1>2, <1>8, RunOnly

LEMMA ReadStep == ASSUME Inv, Read PROVE Inv'
<1>1. /\ run # None /\ run.at = "read" /\ run \in Run
      /\ UNCHANGED <<files, delta, seen, today, crashes, cuts>>
      /\ \/ Unpublished(today) /\ GoTo("clear", 3)
         \/ Valid(today) /\ GoTo("select", 0)
  BY BundleType DEF Read, At, Inv
<1>2. delta = None /\ delta' = None /\ final' = final /\ today' = today
  BY <1>1 DEF Inv, StepInv, RunInv, files
<1>3. CASE Unpublished(today) /\ GoTo("clear", 3)
  <2>1. run' \in Run /\ run' # None /\ run'.at = "clear" /\ run'.k = 3
    BY <1>1, <1>3, GoToType DEF Steps
  <2>2. RunInv' /\ ReadInv'
    BY <1>2, <1>3, <2>1 DEF RunInv, ReadInv, Unpublished, At
  <2>3. StepInv'
    BY <2>1, <2>2 DEF StepInv, DropInv, StageInv, PairInv, ReplaceInv, At
  <2> QED
    BY <1>1, <2>1, <2>3, RunOnly
<1>4. CASE Valid(today) /\ GoTo("select", 0)
  <2>1. run' \in Run /\ run' # None /\ run'.at = "select"
    BY <1>1, <1>4, GoToType DEF Steps
  <2>2. RunInv' /\ ReadInv'
    BY <1>2, <1>4, <2>1 DEF RunInv, ReadInv, HasReport, Valid, At
  <2>3. StepInv'
    BY <2>1, <2>2 DEF StepInv, DropInv, StageInv, PairInv, ReplaceInv, At
  <2> QED
    BY <1>1, <2>1, <2>3, RunOnly
<1> QED
  BY <1>1, <1>3, <1>4

LEMMA SizesType ==
    ASSUME TypeOK, NEW d \in Days
    PROVE  /\ final[d][1] # None => final[d][1].kept \subseteq Urls
           /\ final[d][3] # None => final[d][3].items \subseteq Urls
           /\ final[d][4] # None => final[d][4] \in Bundles
<1>1. 1 \in Kinds /\ 3 \in Kinds /\ 4 \in Kinds
  BY ContentsValues
<1>2. /\ final[d][1] \in Contents[1] \cup {None}
      /\ final[d][3] \in Contents[3] \cup {None}
      /\ final[d][4] \in Contents[4] \cup {None}
  BY <1>1, FileTypes
<1>3. final[d][1] # None => final[d][1] \in [kept : SUBSET Urls, text : Texts]
  BY <1>2, ContentsValues
<1>4. final[d][3] # None => final[d][3] \in [items : SUBSET Urls]
  BY <1>2, ContentsValues
<1>5. final[d][4] # None => final[d][4] \in Bundles
  BY <1>2, ContentsValues
<1> QED
  BY <1>3, <1>4, <1>5

LEMMA WriteSeenStep == ASSUME Inv, WriteSeen PROVE Inv'
<1>1. /\ final' = final /\ pending' = pending /\ manifest' = manifest /\ delta' = delta
      /\ today' = today /\ run' = run /\ crashes' = crashes /\ cuts' = cuts
      /\ seen' = seen \cup delta.build.kept
  BY DEF WriteSeen, files
<1>2. delta # None
  BY DEF WriteSeen, Inv, StepInv, RunInv, At
<1>3. delta.build.kept \subseteq Urls
  BY <1>2, BundleType, PartValues DEF Inv, Build
<1>4. TypeOK'
  BY <1>1, <1>3 DEF Inv, TypeOK
<1>5. StagedForDelta'
  BY <1>1 DEF Inv, StagedForDelta, Pends, Build, Matches
<1>6. StepInv'
  BY <1>1 DEF Inv, StepInv, RunInv, DropInv, StageInv, ReplaceInv, PairInv, ReadInv, At,
              Matches, Build, Unstaged, Unpublished, HasReport
<1>7. FutureInv'
  BY <1>1 DEF Inv, FutureInv
<1>8. Accounted'
  <2>1. seen \subseteq seen'
    BY <1>1
  <2> QED
    BY <1>1, <2>1 DEF Inv, Accounted, Reported, Pends, Build
<1>9. Apart'
  BY <1>1 DEF Inv, Apart, Reported, Retained, Build
<1> QED
  BY <1>4, <1>5, <1>6, <1>7, <1>8, <1>9 DEF Inv

\* Without a delta nothing is staged of it, and the list has every reported article.
LEMMA DeltaGone ==
    ASSUME Inv, delta # None, Unstaged(delta.day), delta' = None,
           UNCHANGED <<files, seen, today, crashes, cuts>>,
           run' \in Run \cup {None}, StepInv',
           Reported(delta.day) \subseteq seen,
           final[delta.day][4] # None => final[delta.day][4].kept \subseteq seen,
           final[delta.day][4] = None => final[delta.day][1] = None
    PROVE  Inv'
<1>1. /\ final' = final /\ pending' = pending /\ manifest' = manifest
      /\ seen' = seen /\ today' = today
  BY DEF files
<1>2. TypeOK'
  BY <1>1 DEF Inv, TypeOK
<1>3. StagedForDelta'
  BY <1>1 DEF Inv, StagedForDelta, Pends, Build, Matches, Unstaged
<1>4. FutureInv'
  BY <1>1 DEF Inv, FutureInv
<1>5. Accounted'
  <2>1. ASSUME NEW d \in Days
        PROVE  /\ Reported(d) \subseteq seen
               /\ final[d][4] # None => final[d][4].kept \subseteq seen
               /\ final[d][4] = None => final[d][1] = None
    <3>1. CASE d = delta.day
      BY <3>1
    <3>2. CASE d # delta.day
      BY <3>2 DEF Inv, Accounted, Pends
    <3> QED
      BY <3>1, <3>2
  <2> QED
    BY <1>1, <2>1 DEF Accounted, Reported, Pends
<1>6. Apart'
  BY <1>1 DEF Inv, Apart, Reported, Retained
<1> QED
  BY <1>2, <1>3, <1>4, <1>5, <1>6 DEF Inv

LEMMA DiscardDeltaStep == ASSUME Inv, DiscardDelta PROVE Inv'
<1> DEFINE d == delta.day
<1>1. /\ run # None /\ run.at = "resolve" /\ run \in Run /\ delta' = None
      /\ UNCHANGED <<files, seen, today, crashes, cuts>>
      /\ IF d = today THEN GoTo("read", 0) ELSE RecoverDay(today)
  BY BundleType DEF DiscardDelta, At, Inv
<1>2. /\ delta # None /\ Unstaged(d) /\ d \in Days /\ Build \in Bundles /\ today \in Days
  BY <1>1, BundleType DEF Inv, StepInv, RunInv, TypeOK
<1>3. run' \in Run /\ StepInv'
  <2>1. CASE GoTo("read", 0)
    <3>1. run' \in Run /\ run' # None /\ run'.at = "read"
      BY <1>1, <2>1, GoToType DEF Steps
    <3> QED
      BY <1>1, <3>1 DEF StepInv, RunInv, DropInv, StageInv, ReplaceInv, PairInv, ReadInv, At
  <2>2. CASE RecoverDay(today)
    BY <1>1, <1>2, <2>2, RecoverDayType, RecoverDaySteps
  <2> QED
    BY <1>1, <2>1, <2>2
<1>4. /\ Unpublished(d) \/ (Valid(d) /\ \E k \in {1, 3} : final[d][k] # Part(k, Build))
  BY DEF DiscardDelta, Abandoned, Build
<1>5. /\ Reported(d) \subseteq seen \/ final[d][1] = Part(1, Build)
      /\ final[d][4] # None =>
            final[d][4].kept \subseteq seen \/ \A k \in Kinds : final[d][k] = Part(k, Build)
      /\ final[d][4] = None => /\ final[d][1] \in {None, Part(1, Build)}
                               /\ final[d][3] \in {None, Part(3, Build)}
  BY <1>2 DEF Inv, Accounted, Pends
<1>6. Part(1, Build) # None /\ {1, 3} \subseteq Kinds
  BY <1>2, PartType, ContentsValues
<1>7. CASE Unpublished(d)
  <2>1. final[d][1] = None /\ Reported(d) = {}
    BY <1>7 DEF Unpublished, Reported
  <2>2. final[d][4] # None => final[d][4].kept \subseteq seen
    BY <1>5, <1>6, <2>1
  <2> QED
    BY <1>1, <1>2, <1>3, <2>1, <2>2, DeltaGone
<1>8. CASE Valid(d) /\ \E k \in {1, 3} : final[d][k] # Part(k, Build)
  <2>1. final[d][1] # None /\ final[d][3] # None
    BY <1>8 DEF Valid
  <2>2. final[d][4] # None
    BY <1>5, <1>8, <2>1
  <2>3. final[d][4].kept \subseteq seen
    BY <1>5, <1>6, <1>8, <2>2
  <2>4. Part(1, final[d][4]) = final[d][1]
    BY <1>8, <2>2 DEF Valid
  <2>5. final[d][4] \in Bundles
    BY <1>2, <2>2, SizesType DEF Inv
  <2>6. Reported(d) = final[d][4].kept
    BY <2>1, <2>4, <2>5, PartValues DEF Reported
  <2> QED
    BY <1>1, <1>2, <1>3, <2>2, <2>3, <2>6, DeltaGone
<1> QED
  BY <1>4, <1>7, <1>8

LEMMA RemoveDeltaStep == ASSUME Inv, RemoveDelta PROVE Inv'
<1> DEFINE d == delta.day
<1>1. /\ run # None /\ run.at = "seen" /\ run \in Run /\ delta' = None
      /\ UNCHANGED <<files, seen, today, crashes, cuts>>
      /\ Build.kept \subseteq seen
      /\ Ends \/ RecoverDay(today)
  BY BundleType DEF RemoveDelta, At, Inv, Included, Build
<1>2. /\ delta # None /\ Unstaged(d) /\ d \in Days /\ Build \in Bundles /\ today \in Days
      /\ final[d][4] # None
  BY <1>1, BundleType DEF Inv, StepInv, RunInv, ReadInv, TypeOK, At
<1>3. run' \in Run \cup {None} /\ StepInv'
  BY <1>1, <1>2, EndsSteps, RecoverDayType, RecoverDaySteps DEF Ends
<1>4. /\ Part(1, Build).kept = Build.kept /\ Part(4, Build) = Build /\ Part(1, Build) # None
  BY <1>2, PartValues, PartType, ContentsValues
<1>5. Reported(d) \subseteq seen
  <2>1. Reported(d) \subseteq seen \/ final[d][1] = Part(1, Build)
    BY <1>2 DEF Inv, Accounted
  <2> QED
    BY <1>1, <1>4, <2>1 DEF Reported
<1>6. final[d][4].kept \subseteq seen
  <2>1. final[d][4].kept \subseteq seen \/ final[d][4] = Part(4, Build)
    BY <1>2, ContentsValues DEF Inv, Accounted
  <2> QED
    BY <1>1, <1>4, <2>1
<1> QED
  BY <1>1, <1>2, <1>3, <1>5, <1>6, DeltaGone

\* A file of the day is put or removed while there is no delta.
LEMMA FinalPut ==
    ASSUME TypeOK, NEW k \in Kinds, NEW x \in Contents[k] \cup {None},
           final' = [final EXCEPT ![today][k] = x],
           UNCHANGED <<pending, manifest, delta, seen, today, crashes, cuts>>,
           run' \in Run \cup {None}
    PROVE  /\ TypeOK' /\ final'[today][k] = x
           /\ \A d \in Days, j \in Kinds : d # today \/ j # k => final'[d][j] = final[d][j]
           /\ \A d \in Days : d # today => final'[d] = final[d]
<1>1. x \in AnyContent \cup {None} /\ today \in Days
  BY ContentsValues DEF TypeOK
<1>2. /\ final' \in [Days -> [Kinds -> AnyContent \cup {None}]] /\ final'[today][k] = x
      /\ \A d \in Days, j \in Kinds : d # today \/ j # k => final'[d][j] = final[d][j]
      /\ \A d \in Days : d # today => final'[d] = final[d]
  <2>1. final \in [Days -> [Kinds -> AnyContent \cup {None}]]
    BY DEF TypeOK
  <2> QED
    BY <1>1, <2>1, PutValue
<1>3. \A d \in Days, j \in Kinds : final'[d][j] \in Contents[j] \cup {None}
  BY <1>2, FileTypes
<1> QED
  BY <1>2, <1>3 DEF TypeOK

\* Then only the day's candidates and snapshot may differ: nothing is reported of it.
LEMMA CandidatesOnly ==
    ASSUME Inv, delta = None, NEW k \in {3, 4}, NEW x \in Contents[k] \cup {None},
           final' = [final EXCEPT ![today][k] = x],
           UNCHANGED <<pending, manifest, delta, seen, today, crashes, cuts>>,
           run' \in Run \cup {None}, StepInv', final[today][1] = None,
           k = 3 => \/ x = None
                    \/ \A d \in Days : d < today => Reported(d) \cap x.items = {},
           k = 4 => x = None
    PROVE  Inv'
<1>1. 1 \in Kinds /\ 2 \in Kinds /\ 3 \in Kinds /\ 4 \in Kinds /\ k \in Kinds /\ k # 1
  BY ContentsValues
<1>2. /\ TypeOK' /\ final'[today][k] = x
      /\ \A d \in Days, j \in Kinds : d # today \/ j # k => final'[d][j] = final[d][j]
      /\ \A d \in Days : d # today => final'[d] = final[d]
  BY <1>1, FinalPut DEF Inv
<1>3. today \in Days /\ Days \subseteq Nat
  BY DEF Inv, TypeOK, Days
<1>4. StagedForDelta'
  BY DEF Inv, StagedForDelta, Pends
<1>5. FutureInv'
  BY <1>2, <1>3 DEF Inv, FutureInv
<1>6. /\ \A d \in Days : final'[d][1] = final[d][1] /\ Reported(d)' = Reported(d)
      /\ Reported(today) = {}
  BY <1>1, <1>2 DEF Reported
<1>7. Accounted'
  <2>1. ASSUME NEW d \in Days
        PROVE  /\ final'[d][4] \in {None, final[d][4]}
               /\ final'[d][4] = None => final'[d][1] = None
    <3>1. CASE d = today
      BY <1>1, <1>2, <1>6, <3>1
    <3>2. CASE d # today
      BY <1>1, <1>2, <3>2 DEF Inv, Accounted, Pends
    <3> QED
      BY <3>1, <3>2
  <2> QED
    BY <1>6, <2>1 DEF Inv, Accounted, Pends
<1>8. Apart'
  <2>1. ASSUME NEW d \in Days, NEW e \in Days, d < e
        PROVE  Reported(d) \cap (Reported(e) \cup Retained(e)') = {}
    <3>1. Reported(d) \cap (Reported(e) \cup Retained(e)) = {}
      BY <2>1 DEF Inv, Apart
    <3>2. CASE e = today /\ k = 3
      BY <1>2, <2>1, <3>1, <3>2 DEF Retained
    <3>3. CASE e # today \/ k # 3
      <4>1. Retained(e)' = Retained(e)
        BY <1>1, <1>2, <3>3 DEF Retained
      <4> QED
        BY <3>1, <4>1
    <3> QED
      BY <3>2, <3>3
  <2> QED
    BY <1>6, <2>1 DEF Apart
<1> QED
  BY <1>2, <1>4, <1>5, <1>7, <1>8 DEF Inv

LEMMA ClearStep == ASSUME Inv, Clear PROVE Inv'
<1>1. /\ run # None /\ run.at = "clear" /\ run \in Run
      /\ final' = [final EXCEPT ![today][run.k] = None]
      /\ UNCHANGED <<pending, manifest, delta, seen, today, crashes, cuts>>
      /\ IF run.k = 4 THEN GoTo("select", 0) ELSE GoTo("clear", 4)
  BY BundleType DEF Clear, At, Inv
<1>2. delta = None /\ Unpublished(today) /\ run.k \in {3, 4} /\ (run.k = 4 => final[today][3] = None)
  BY <1>1 DEF Inv, StepInv, RunInv, ReadInv, At
<1>3. 1 \in Kinds /\ 2 \in Kinds /\ 3 \in Kinds /\ 4 \in Kinds /\ run.k \in Kinds
  BY <1>2, ContentsValues
<1>4. /\ run' \in Run /\ run' # None
      /\ IF run.k = 4 THEN run'.at = "select" ELSE run'.at = "clear" /\ run'.k = 4
  <2>1. CASE run.k = 4
    BY <1>1, <2>1, GoToType DEF Steps
  <2>2. CASE run.k # 4
    BY <1>1, <2>2, GoToType DEF Steps
  <2> QED
    BY <2>1, <2>2
<1>5. /\ final'[today][run.k] = None
      /\ \A j \in Kinds : j # run.k => final'[today][j] = final[today][j]
  <2>1. None \in Contents[run.k] \cup {None}
    OBVIOUS
  <2> QED
    BY <1>1, <1>3, <1>4, <2>1, FinalPut DEF Inv, TypeOK
<1>6. ReadInv'
  <2>1. CASE run.k = 4
    <3>1. /\ final'[today][1] = None /\ final'[today][3] = None /\ final'[today][4] = None
          /\ run'.at = "select"
      BY <1>2, <1>3, <1>4, <1>5, <2>1 DEF Unpublished
    <3> QED
      BY <1>1, <3>1 DEF ReadInv, HasReport, At
  <2>2. CASE run.k = 3
    <3>1. /\ final'[today][1] = None /\ final'[today][2] = None /\ final'[today][3] = None
          /\ run'.at = "clear" /\ run'.k = 4
      BY <1>2, <1>3, <1>4, <1>5, <2>2 DEF Unpublished
    <3> QED
      BY <1>1, <3>1 DEF ReadInv, Unpublished, At
  <2> QED
    BY <1>2, <2>1, <2>2
<1>7. StepInv'
  BY <1>1, <1>2, <1>4, <1>6 DEF StepInv, RunInv, DropInv, StageInv, PairInv, ReplaceInv, At
<1> QED
  BY <1>1, <1>2, <1>4, <1>7, CandidatesOnly DEF Unpublished

\* Candidates of the day are none of an earlier day's articles.
LEMMA CandidatesAreNew ==
    ASSUME Inv, delta = None, At("select"), NEW found \in SUBSET Urls, NEW retain \in BOOLEAN,
           NEW d \in Days, d < today
    PROVE  Reported(d) \cap Candidates(found, retain) = {}
<1>1. today \in Days
  BY DEF Inv, TypeOK
<1>2. Reported(d) \subseteq seen
  BY DEF Inv, Accounted, Pends
<1>3. Reported(d) \cap (Reported(today) \cup Retained(today)) = {}
  BY <1>1 DEF Inv, Apart
<1>4. SameDate(retain) \subseteq Reported(today) \cup Retained(today)
  <2>1. HasReport => final[today][1] # None /\ final[today][3] # None
    BY DEF HasReport, Inv, StepInv, ReadInv
  <2>2. CASE HasReport
    BY <2>1, <2>2 DEF SameDate, Carried, Reported, Retained
  <2>3. CASE ~HasReport
    BY <2>3 DEF SameDate
  <2> QED
    BY <2>2, <2>3
<1> QED
  BY <1>2, <1>3, <1>4 DEF Candidates

LEMMA CandidatesType ==
    ASSUME Inv, At("select"), NEW found \in SUBSET Urls, NEW retain \in BOOLEAN
    PROVE  Candidates(found, retain) \subseteq Urls
<1>1. today \in Days
  BY DEF Inv, TypeOK
<1>2. Carried \subseteq Urls
  <2>1. HasReport => final[today][3] # None
    BY DEF Inv, StepInv, ReadInv
  <2> QED
    BY <1>1, <2>1, SizesType DEF Carried, Inv
<1> QED
  BY <1>2 DEF Candidates

LEMMA NoReportStep == ASSUME Inv, NoReport PROVE Inv'
<1>1. PICK found \in SUBSET Urls, retain \in BOOLEAN :
        final' = [final EXCEPT ![today][3] = [items |-> Candidates(found, retain)]]
  BY DEF NoReport
<1>2. /\ At("select") /\ final[today][1] = None /\ Ends
      /\ UNCHANGED <<pending, manifest, delta, seen, today, crashes, cuts>>
  BY DEF NoReport, HasReport
<1>3. delta = None
  BY <1>2 DEF Inv, StepInv, RunInv, At
<1>4. PICK x \in Contents[3] : x = [items |-> Candidates(found, retain)]
  <2>1. Candidates(found, retain) \subseteq Urls
    BY <1>2, CandidatesType
  <2> QED
    BY <2>1, ContentsValues
<1>5. \A d \in Days : d < today => Reported(d) \cap x.items = {}
  BY <1>2, <1>3, <1>4, CandidatesAreNew
<1>6. final' = [final EXCEPT ![today][3] = x]
  BY <1>1, <1>4
<1>7. run' \in Run \cup {None} /\ StepInv'
  BY <1>2, EndsSteps DEF Ends
<1>8. 3 \in {3, 4} /\ 3 # 4 /\ x \in Contents[3] \cup {None}
  OBVIOUS
<1> QED
  BY <1>2, <1>3, <1>5, <1>6, <1>7, <1>8, CandidatesOnly, Zenon

LEMMA PrepareStep == ASSUME Inv, Prepare PROVE Inv'
<1>1. /\ At("select") /\ run # None /\ run \in Run
      /\ UNCHANGED <<files, seen, today, crashes, cuts>>
  BY BundleType DEF Prepare, At, Inv
<1>2. PICK found \in SUBSET Urls, retain \in BOOLEAN, b \in Bundles :
        /\ b.items = Candidates(found, retain)
        /\ delta' = [day |-> today, base |-> seen, build |-> b]
        /\ run' = [run EXCEPT !.at = "manifest", !.target = today, !.build = b]
  BY DEF Prepare
<1>3. delta = None
  BY <1>1 DEF Inv, StepInv, RunInv, At
<1>4. /\ final' = final /\ pending' = pending /\ manifest' = manifest
      /\ seen' = seen /\ today' = today /\ today \in Days /\ seen \subseteq Urls
  BY <1>1 DEF files, Inv, TypeOK
<1>5. /\ delta' \in Delta /\ delta' # None /\ delta'.day = today /\ Build' = b
  <2>1. delta' \in Delta
    BY <1>2, <1>4 DEF Delta
  <2> QED
    BY <1>2, <2>1, NotNone DEF Build
<1>6. /\ run' \in Run /\ run' # None /\ run'.at = "manifest" /\ run'.target = today
      /\ run'.build = b
  <2>1. run' \in Run
    BY <1>1, <1>2, <1>4 DEF Run, Steps
  <2> QED
    BY <1>1, <1>2, <2>1, NotNone DEF Run
<1>7. \A d \in Days : Unstaged(d)
  BY <1>3 DEF Inv, StagedForDelta, Unstaged, Pends
<1>8. TypeOK'
  BY <1>1, <1>4, <1>5, <1>6 DEF Inv, TypeOK
<1>9. StagedForDelta'
  BY <1>4, <1>7, NoneAssumption DEF StagedForDelta, Unstaged
<1>10. StepInv'
  <2>1. RunInv'
    BY <1>4, <1>5, <1>6, <1>7 DEF RunInv, Unstaged
  <2> QED
    BY <1>6, <2>1 DEF StepInv, DropInv, StageInv, ReplaceInv, PairInv, ReadInv, At
<1>11. FutureInv'
  BY <1>4, <1>5 DEF Inv, FutureInv, Days
<1>12. Accounted'
  <2>1. ASSUME NEW d \in Days
        PROVE  /\ Reported(d) \subseteq seen
               /\ final[d][4] # None => final[d][4].kept \subseteq seen
               /\ final[d][4] = None => final[d][1] = None
    BY <1>3 DEF Inv, Accounted, Pends
  <2>2. final[today][4] = None => final[today][3] = None
    BY <1>1, <1>4, <2>1 DEF Inv, StepInv, ReadInv, HasReport
  <2>3. \A d \in Days : Reported(d)' = Reported(d) /\ (Pends(d)' => d = today)
    BY <1>4, <1>5 DEF Reported, Pends
  <2> QED
    BY <1>4, <1>5, <2>1, <2>2, <2>3 DEF Accounted
<1>13. Apart'
  <2>1. \A d \in Days : d < today => Reported(d) \cap b.items = {}
    BY <1>1, <1>2, <1>3, CandidatesAreNew
  <2>2. \A d \in Days : Reported(d)' = Reported(d) /\ Retained(d)' = Retained(d)
    BY <1>4 DEF Reported, Retained
  <2> QED
    BY <1>5, <2>1, <2>2 DEF Inv, Apart
<1> QED
  BY <1>8, <1>9, <1>10, <1>11, <1>12, <1>13 DEF Inv

\* Replacing a file by what the delta's bundle has for it, if that is staged.
LEMMA ReplacedFiles ==
    ASSUME Inv, delta # None, NEW k \in Kinds, Replaced(delta.day, k, Part(k, Build))
    PROVE  LET d == delta.day IN
           /\ final' \in [Days -> [Kinds -> AnyContent \cup {None}]]
           /\ pending' \in [Days -> [Kinds -> AnyContent \cup {None, Torn}]]
           /\ pending'[d][k] = None /\ final'[d][k] \in {final[d][k], Part(k, Build)}
           /\ Matches(d, k, Build) => final'[d][k] = Part(k, Build)
           /\ \A e \in Days, j \in Kinds :
                e # d \/ j # k => final'[e][j] = final[e][j] /\ pending'[e][j] = pending[e][j]
           /\ \A e \in Days : e # d => final'[e] = final[e] /\ pending'[e] = pending[e]
           /\ \A j \in Kinds : final[d][j] = Part(j, Build) => final'[d][j] = Part(j, Build)
           /\ d \in Days /\ Build \in Bundles
<1> DEFINE d == delta.day
<1>1. d \in Days /\ Build \in Bundles /\ Part(k, Build) \in Contents[k] /\ TypeOK
  BY BundleType, PartType DEF Inv
<1>2. /\ final' \in [Days -> [Kinds -> AnyContent \cup {None}]]
      /\ pending' \in [Days -> [Kinds -> AnyContent \cup {None, Torn}]]
      /\ pending'[d][k] = None
      /\ final'[d][k] = IF pending[d][k] = Part(k, Build) THEN Part(k, Build) ELSE final[d][k]
      /\ \A e \in Days, j \in Kinds :
           e # d \/ j # k => final'[e][j] = final[e][j] /\ pending'[e][j] = pending[e][j]
      /\ \A e \in Days : e # d => final'[e] = final[e] /\ pending'[e] = pending[e]
  BY <1>1, ReplacedType
<1>3. Matches(d, k, Build) => final'[d][k] = Part(k, Build)
  BY <1>2 DEF Matches
<1>4. \A j \in Kinds : final[d][j] = Part(j, Build) => final'[d][j] = Part(j, Build)
  BY <1>1, <1>2
<1> QED
  BY <1>1, <1>2, <1>3, <1>4

LEMMA ReplacedStep ==
    ASSUME Inv, delta # None, NEW k \in Kinds, Replaced(delta.day, k, Part(k, Build)),
           k = 4 => \A j \in Kinds : final'[delta.day][j] = Part(j, Build),
           UNCHANGED <<manifest, delta, seen, today, crashes, cuts>>,
           run' \in Run \cup {None}, StepInv'
    PROVE  Inv'
<1> DEFINE d == delta.day
<1>1. /\ final' \in [Days -> [Kinds -> AnyContent \cup {None}]]
      /\ pending' \in [Days -> [Kinds -> AnyContent \cup {None, Torn}]]
      /\ pending'[d][k] = None /\ final'[d][k] \in {final[d][k], Part(k, Build)}
      /\ Matches(d, k, Build) => final'[d][k] = Part(k, Build)
      /\ \A e \in Days, j \in Kinds :
           e # d \/ j # k => final'[e][j] = final[e][j] /\ pending'[e][j] = pending[e][j]
      /\ \A e \in Days : e # d => final'[e] = final[e] /\ pending'[e] = pending[e]
      /\ \A j \in Kinds : final[d][j] = Part(j, Build) => final'[d][j] = Part(j, Build)
      /\ d \in Days /\ Build \in Bundles
  BY ReplacedFiles
<1>2. /\ {1, 2, 3, 4} = Kinds
      /\ \A j \in Kinds : Part(j, Build) \in Contents[j] /\ Part(j, Build) # None
  BY <1>1, PartType, ContentsValues
<1>3. TypeOK'
  <2>1. ASSUME NEW e \in Days, NEW j \in Kinds
        PROVE  /\ final'[e][j] \in Contents[j] \cup {None}
               /\ pending'[e][j] \in Contents[j] \cup {None, Torn}
    <3>1. final[e][j] \in Contents[j] \cup {None} /\ pending[e][j] \in Contents[j] \cup {None, Torn}
      BY FileTypes DEF Inv
    <3>2. CASE e = d /\ j = k
      BY <1>1, <1>2, <3>1, <3>2
    <3>3. CASE e # d \/ j # k
      BY <1>1, <3>1, <3>3
    <3> QED
      BY <3>2, <3>3
  <2> QED
    BY <1>1, <2>1 DEF Inv, TypeOK
<1>4. /\ Reported(d)' \subseteq Reported(d) \cup Build.items
      /\ Reported(d)' \subseteq seen \/ final'[d][1] = Part(1, Build)
      /\ Retained(d)' \subseteq Retained(d) \cup Build.items
  <2>1. /\ Part(1, Build).kept \subseteq Build.items /\ Part(3, Build).items = Build.items
    BY <1>1, PartValues
  <2>2. /\ final'[d][1] \in {final[d][1], Part(1, Build)}
        /\ final'[d][3] \in {final[d][3], Part(3, Build)}
    BY <1>1, <1>2
  <2>3. Reported(d) \subseteq seen \/ final[d][1] = Part(1, Build)
    BY <1>1 DEF Inv, Accounted
  <2> QED
    BY <1>1, <1>2, <2>1, <2>2, <2>3 DEF Reported, Retained
<1>5. StagedForDelta'
  <2>1. ASSUME NEW e \in Days PROVE
        /\ manifest[e] # None => Pends(e) /\ manifest[e] \in {Build, Torn}
        /\ \A j \in {1, 2} :
            pending'[e][j] # None => Pends(e) /\ pending'[e][j] \in {Part(j, Build), Torn}
        /\ manifest[e] = Torn => pending'[e][2] = None
        /\ manifest[e] # None /\ manifest[e] # Torn /\ pending'[e][2] # None =>
            Matches(e, 1, manifest[e])'
    <3>1. CASE e # d
      <4>1. final'[e] = final[e] /\ pending'[e] = pending[e] /\ manifest' = manifest
        BY <1>1, <3>1
      <4>2. Matches(e, 1, manifest[e]) => Matches(e, 1, manifest[e])'
        BY <4>1 DEF Matches
      <4>3. \A j \in {1, 2} : pending'[e][j] = pending[e][j]
        BY <4>1
      <4>4. /\ manifest[e] # None => Pends(e) /\ manifest[e] \in {Build, Torn}
            /\ \A j \in {1, 2} :
                pending[e][j] # None => Pends(e) /\ pending[e][j] \in {Part(j, Build), Torn}
            /\ manifest[e] = Torn => pending[e][2] = None
            /\ manifest[e] # None /\ manifest[e] # Torn /\ pending[e][2] # None =>
                Matches(e, 1, manifest[e])
        BY DEF Inv, StagedForDelta
      <4> QED
        BY <4>2, <4>3, <4>4
    <3>2. CASE e = d
      <4>1. ASSUME NEW j \in {1, 2} PROVE pending'[d][j] \in {None, pending[d][j]}
        <5>1. j \in Kinds
          BY <1>2
        <5>2. CASE j = k
          BY <1>1, <5>2
        <5>3. CASE j # k
          <6>1. pending'[d][j] = pending[d][j]
            BY <1>1, <5>1, <5>3
          <6> QED
            BY <6>1
        <5> QED
          BY <5>2, <5>3
      <4>2. ASSUME Matches(d, 1, Build) PROVE Matches(d, 1, Build)'
        <5>1. CASE k = 1
          BY <1>1, <4>2, <5>1 DEF Matches, Build
        <5>2. CASE k # 1
          BY <1>1, <1>2, <4>2, <5>2 DEF Matches, Build
        <5> QED
          BY <5>1, <5>2
      <4> QED
        BY <3>2, <4>1, <4>2 DEF Inv, StagedForDelta, Build
    <3> QED
      BY <3>1, <3>2
  <2> QED
    BY <2>1 DEF StagedForDelta, Pends, Build
<1>6. FutureInv'
  <2>1. ASSUME NEW e \in Days, delta.day < e PROVE e # d
    BY <1>1, <2>1 DEF Days
  <2>2. ASSUME NEW e \in Days, today < e PROVE e # d
    BY <1>1, <2>2 DEF Inv, TypeOK, FutureInv, Days
  <2> QED
    BY <1>1, <2>1, <2>2 DEF Inv, FutureInv
<1>7. Accounted'
  <2>1. ASSUME NEW e \in Days PROVE
        /\ Reported(e)' \subseteq seen \/ (Pends(e) /\ final'[e][1] = Part(1, Build))
        /\ final'[e][4] # None =>
            \/ final'[e][4].kept \subseteq seen
            \/ Pends(e) /\ \A j \in Kinds : final'[e][j] = Part(j, Build)
        /\ final'[e][4] = None =>
            IF Pends(e) THEN /\ final'[e][1] \in {None, Part(1, Build)}
                             /\ final'[e][3] \in {None, Part(3, Build)}
                        ELSE final'[e][1] = None
    <3>1. CASE e # d
      BY <1>1, <3>1 DEF Inv, Accounted, Pends, Reported
    <3>2. CASE e = d
      <4>1. Pends(d) /\ (Reported(d)' \subseteq seen \/ final'[d][1] = Part(1, Build))
        BY <1>4 DEF Pends
      <4>2. CASE k = 4
        BY <1>1, <1>2, <3>2, <4>1, <4>2
      <4>3. CASE k # 4
        <5>1. /\ final'[d][4] = final[d][4]
              /\ final'[d][1] \in {final[d][1], Part(1, Build)}
              /\ final'[d][3] \in {final[d][3], Part(3, Build)}
          BY <1>1, <1>2, <4>3
        <5> QED
          BY <1>1, <3>2, <4>1, <5>1 DEF Inv, Accounted
      <4> QED
        BY <4>2, <4>3
    <3> QED
      BY <3>1, <3>2
  <2> QED
    BY <2>1 DEF Accounted, Pends, Build
<1>8. Apart'
  <2>1. ASSUME NEW e \in Days, e # d
        PROVE  Reported(e)' = Reported(e) /\ Retained(e)' = Retained(e)
    BY <1>1, <2>1 DEF Reported, Retained
  <2>2. ASSUME NEW e \in Days, d < e PROVE Reported(e) = {} /\ Retained(e) = {}
    <3>1. final[e] = Empty
      BY <2>2 DEF Inv, FutureInv
    <3> QED
      BY <1>2, <3>1 DEF Empty, Reported, Retained
  <2>3. ASSUME NEW e \in Days, NEW f \in Days, e < f
        PROVE  Reported(e)' \cap (Reported(f)' \cup Retained(f)') = {}
    <3>1. e # f /\ Reported(e) \cap (Reported(f) \cup Retained(f)) = {}
      BY <2>3 DEF Inv, Apart, Days
    <3>2. CASE e = d
      BY <2>1, <2>2, <2>3, <3>1, <3>2
    <3>3. CASE f = d
      <4>1. Reported(e) \cap Build.items = {}
        BY <2>3, <3>3 DEF Inv, Apart
      <4> QED
        BY <1>4, <2>1, <3>1, <3>3, <4>1
    <3>4. CASE e # d /\ f # d
      BY <2>1, <3>1, <3>4
    <3> QED
      BY <3>2, <3>3, <3>4
  <2>4. ASSUME NEW e \in Days, e < d PROVE Reported(e)' \cap Build.items = {}
    <3>1. e # d
      BY <1>1, <2>4 DEF Days
    <3> QED
      BY <2>1, <2>4, <3>1 DEF Inv, Apart
  <2> QED
    BY <2>3, <2>4 DEF Apart, Build
<1> QED
  BY <1>3, <1>5, <1>6, <1>7, <1>8 DEF Inv

\* The next file of the bundle, in a commit or in its recovery.
LEMMA AdvanceStep ==
    ASSUME Inv, run # None, run.at \in {"apply", "replace"},
           Replaced(run.target, run.k, Part(run.k, Build)),
           IF run.k = 4 THEN GoTo("unmanifest", 0) ELSE GoTo(run.at, run.k + 1),
           UNCHANGED <<manifest, delta, seen, today, crashes, cuts>>
    PROVE  Inv'
<1> DEFINE d == delta.day
<1>1. /\ run \in Run /\ delta # None /\ run.target = d /\ d \in Days /\ manifest[d] = Build
      /\ run.k \in 1..4 /\ run.k \in Kinds
  <2>1. delta # None /\ run.target = d /\ manifest[d] = Build /\ run.k # 0
    BY DEF Inv, StepInv, RunInv
  <2>2. run \in Run /\ run.k \in 0..4 /\ d \in Days
    BY <2>1, BundleType DEF Inv
  <2> QED
    BY <2>1, <2>2, ContentsValues
<1>2. /\ run' \in Run /\ run' # None /\ run'.target = d /\ run'.build = run.build
      /\ IF run.k = 4 THEN run'.at = "unmanifest" ELSE run'.at = run.at /\ run'.k = run.k + 1
  <2>1. CASE run.k = 4
    BY <1>1, <2>1, GoToType DEF Steps
  <2>2. CASE run.k # 4
    BY <1>1, <2>2, GoToType DEF Steps
  <2> QED
    BY <2>1, <2>2
<1>3. /\ pending'[d][run.k] = None
      /\ Matches(d, run.k, Build) => final'[d][run.k] = Part(run.k, Build)
      /\ \A j \in Kinds : j # run.k => final'[d][j] = final[d][j] /\ pending'[d][j] = pending[d][j]
  <2>1. Replaced(delta.day, run.k, Part(run.k, Build))
    BY <1>1
  <2> QED
    BY <1>1, <2>1, ReplacedFiles
<1>4. /\ \A j \in Kinds : j < run.k => final[d][j] = Part(j, Build) /\ pending[d][j] = None
      /\ \A j \in Kinds : run.k <= j => Matches(d, j, Build)
  BY <1>1 DEF Inv, StepInv, ReplaceInv
<1>5. /\ \A j \in Kinds : j <= run.k => final'[d][j] = Part(j, Build) /\ pending'[d][j] = None
      /\ \A j \in Kinds : run.k < j => Matches(d, j, Build)'
  <2>1. ASSUME NEW j \in Kinds, j <= run.k
        PROVE  final'[d][j] = Part(j, Build) /\ pending'[d][j] = None
    <3>1. CASE j = run.k
      BY <1>1, <1>3, <1>4, <3>1
    <3>2. CASE j # run.k
      BY <1>1, <1>3, <1>4, <2>1, <3>2, ContentsValues
    <3> QED
      BY <3>1, <3>2
  <2>2. ASSUME NEW j \in Kinds, run.k < j PROVE Matches(d, j, Build)'
    <3>1. j # run.k /\ run.k <= j
      BY <1>1, <2>2, ContentsValues
    <3> QED
      BY <1>3, <1>4, <3>1 DEF Matches, Build
  <2> QED
    BY <2>1, <2>2
<1>6. RunInv'
  BY <1>1, <1>2 DEF RunInv, Inv, StepInv, Build
<1>7. ReplaceInv'
  <2>1. CASE run.k = 4
    <3>1. \A j \in Kinds : final'[d][j] = Part(j, Build) /\ pending'[d][j] = None
      BY <1>5, <2>1, ContentsValues
    <3> QED
      BY <1>2, <2>1, <3>1 DEF ReplaceInv, Build
  <2>2. CASE run.k # 4
    <3>1. \A j \in Kinds : (j < run.k + 1 => j <= run.k) /\ (run.k + 1 <= j => run.k < j)
      BY <1>1, ContentsValues
    <3> QED
      BY <1>2, <1>5, <2>2, <3>1 DEF ReplaceInv, Build
  <2> QED
    BY <2>1, <2>2
<1>8. StepInv'
  BY <1>2, <1>6, <1>7 DEF StepInv, DropInv, StageInv, PairInv, ReadInv, At
<1>9. run.k = 4 => \A j \in Kinds : final'[d][j] = Part(j, Build)
  BY <1>5, ContentsValues
<1>10. Replaced(delta.day, run.k, Part(run.k, Build))
  BY <1>1
<1> QED
  BY <1>1, <1>2, <1>8, <1>9, <1>10, ReplacedStep

LEMMA ApplyStep == ASSUME Inv, Apply PROVE Inv'
<1>1. run # None /\ run.at = "apply" /\ manifest[run.target] = Build
  BY DEF Apply, At, Inv, StepInv, RunInv
<1> QED
  BY <1>1, AdvanceStep DEF Apply

LEMMA ReplaceStep == ASSUME Inv, Replace PROVE Inv'
<1>1. run # None /\ run.at = "replace" /\ run.build = Build
  BY DEF Replace, At, Inv, StepInv, RunInv
<1> QED
  BY <1>1, AdvanceStep DEF Replace

LEMMA ApplyPairStep == ASSUME Inv, ApplyPair PROVE Inv'
<1> DEFINE d == delta.day
<1>1. /\ run # None /\ run.at = "legacy" /\ run \in Run /\ delta # None /\ run.target = d
      /\ run.k \in {1, 2} /\ manifest[d] = None /\ pending[d][2] \notin {None, Torn}
      /\ run.k = 2 => pending[d][1] = None
      /\ d \in Days /\ Build \in Bundles
      /\ UNCHANGED <<manifest, delta, seen, today, crashes, cuts>>
  BY BundleType DEF ApplyPair, At, Inv, StepInv, RunInv, PairInv
<1>2. pending[d][2] = Part(2, Build) /\ Part(2, Build) = Part(1, Build)
  BY <1>1, PartValues, 2 \in {1, 2} DEF Inv, StagedForDelta
<1>3. Replaced(delta.day, run.k, Part(run.k, Build)) /\ run.k \in Kinds /\ 1 \in Kinds /\ 2 \in Kinds
  BY <1>1, <1>2, ContentsValues DEF ApplyPair
<1>4. /\ pending'[d][run.k] = None
      /\ \A j \in Kinds : j # run.k => pending'[d][j] = pending[d][j]
  BY <1>1, <1>3, ReplacedFiles
<1>5. run' \in Run /\ StepInv'
  <2>1. CASE run.k = 2
    <3>1. Recovered("applied")
      BY <2>1 DEF ApplyPair
    <3>2. Unstaged(run.target)'
      <4>1. pending'[d][1] = None /\ pending'[d][2] = None /\ manifest'[d] = None
        BY <1>1, <1>3, <1>4, <2>1
      <4>2. run'.target = d
        BY <1>1, <3>1, RecoveredType DEF Results
      <4> QED
        BY <4>1, <4>2 DEF Unstaged
    <3> QED
      BY <1>1, <3>1, <3>2, RecoveredType, RecoveredSteps DEF Results
  <2>2. CASE run.k = 1
    <3>1. GoTo("legacy", 2)
      BY <2>2 DEF ApplyPair
    <3>2. run' \in Run /\ run' # None /\ run'.at = "legacy" /\ run'.k = 2 /\ run'.target = d
      BY <1>1, <3>1, GoToType DEF Steps
    <3>3. pending'[d][1] = None /\ pending'[d][2] = pending[d][2]
      BY <1>3, <1>4, <2>2
    <3>4. RunInv' /\ PairInv'
      BY <1>1, <3>2, <3>3 DEF RunInv, PairInv, At
    <3> QED
      BY <3>2, <3>4 DEF StepInv, DropInv, StageInv, ReplaceInv, ReadInv, At
  <2> QED
    BY <1>1, <2>1, <2>2
<1> QED
  BY <1>1, <1>3, <1>5, ReplacedStep

\* Steps that change neither the files of the days, the delta nor the list.
LEMMA FinalsKept ==
    ASSUME Inv, UNCHANGED <<final, delta, seen, today>>
    PROVE  FutureInv' /\ Accounted' /\ Apart'
<1>1. FutureInv'
  BY DEF Inv, FutureInv
<1>2. Accounted'
  BY DEF Inv, Accounted, Reported, Pends, Build
<1>3. Apart'
  BY DEF Inv, Apart, Reported, Retained, Build
<1> QED
  BY <1>1, <1>2, <1>3

LEMMA WriteManifestStep == ASSUME Inv, WriteManifest PROVE Inv'
<1> DEFINE d == delta.day
<1>1. /\ run # None /\ run.at = "manifest" /\ run \in Run /\ delta # None /\ run.target = d
      /\ d \in Days /\ Build \in Bundles /\ run.build = Build /\ Unstaged(d)
      /\ UNCHANGED <<final, pending, delta, seen, today, crashes, cuts>>
      /\ manifest' = [manifest EXCEPT ![d] = Build] /\ GoTo("stage", 1)
  BY BundleType DEF WriteManifest, At, Inv, StepInv, RunInv
<1>2. /\ manifest' \in [Days -> Bundles \cup {None, Torn}] /\ manifest'[d] = Build
      /\ \A e \in Days : e # d => manifest'[e] = manifest[e]
  BY <1>1 DEF Inv, TypeOK
<1>3. /\ run' \in Run /\ run' # None /\ run'.at = "stage" /\ run'.k = 1 /\ run'.target = d
      /\ run'.build = Build
  BY <1>1, GoToType DEF Steps
<1>4. TypeOK'
  BY <1>1, <1>2, <1>3 DEF Inv, TypeOK
<1>5. StagedForDelta'
  <2>1. \A e \in Days : e # d => manifest[e] = None
    BY <1>1 DEF Inv, StagedForDelta, Pends
  <2>2. \A e \in Days : \A k \in {1, 2} :
            pending[e][k] # None => Pends(e) /\ pending[e][k] \in {Part(k, Build), Torn}
    BY DEF Inv, StagedForDelta
  <2>3. Build # Torn
    BY <1>1, NotNone
  <2> QED
    BY <1>1, <1>2, <2>1, <2>2, <2>3, NoneAssumption DEF StagedForDelta, Pends, Build, Unstaged
<1>6. RunInv'
  BY <1>1, <1>2, <1>3 DEF RunInv, Build
<1>7. StageInv'
  <2>1. \A j \in Kinds : ~(j < 1)
    BY ContentsValues
  <2> QED
    BY <1>1, <1>3, <2>1 DEF StageInv, Unstaged
<1>8. StepInv'
  BY <1>3, <1>6, <1>7 DEF StepInv, DropInv, PairInv, ReplaceInv, ReadInv, At
<1> QED
  BY <1>1, <1>4, <1>5, <1>8, FinalsKept DEF Inv

\* One staged file is put or removed.
LEMMA PendingPut ==
    ASSUME TypeOK, NEW d \in Days, NEW k \in Kinds, NEW x, x \in Contents[k] \/ x \in {None, Torn},
           pending' = [pending EXCEPT ![d][k] = x]
    PROVE  /\ pending' \in [Days -> [Kinds -> AnyContent \cup {None, Torn}]]
           /\ \A e \in Days, j \in Kinds : pending'[e][j] \in Contents[j] \cup {None, Torn}
           /\ pending'[d][k] = x
           /\ \A e \in Days, j \in Kinds : e # d \/ j # k => pending'[e][j] = pending[e][j]
<1>1. x \in AnyContent \cup {None, Torn}
  BY ContentsValues
<1>2. /\ pending' \in [Days -> [Kinds -> AnyContent \cup {None, Torn}]] /\ pending'[d][k] = x
      /\ \A e \in Days, j \in Kinds : e # d \/ j # k => pending'[e][j] = pending[e][j]
  <2>1. pending \in [Days -> [Kinds -> AnyContent \cup {None, Torn}]]
    BY DEF TypeOK
  <2> QED
    BY <1>1, <2>1, PutValue
<1>3. \A e \in Days, j \in Kinds : pending'[e][j] \in Contents[j] \cup {None, Torn}
  BY <1>2, FileTypes
<1> QED
  BY <1>2, <1>3

LEMMA StageStep == ASSUME Inv, Stage PROVE Inv'
<1> DEFINE d == delta.day
<1>1. /\ run # None /\ run.at = "stage" /\ run \in Run /\ delta # None /\ run.target = d
      /\ d \in Days /\ Build \in Bundles /\ run.build = Build /\ manifest[d] = Build
      /\ UNCHANGED <<final, manifest, delta, seen, today, crashes, cuts>>
      /\ pending' = [pending EXCEPT ![d][run.k] = Part(run.k, Build)]
      /\ IF run.k = 4 THEN GoTo("replace", 1) ELSE GoTo("stage", run.k + 1)
      /\ run.k \in 1..4 /\ run.k \in Kinds
  <2>1. /\ run # None /\ run.at = "stage" /\ run \in Run /\ run.k \in 0..4
        /\ UNCHANGED <<final, manifest, delta, seen, today, crashes, cuts>>
        /\ pending' = [pending EXCEPT ![run.target][run.k] = Part(run.k, run.build)]
        /\ IF run.k = 4 THEN GoTo("replace", 1) ELSE GoTo("stage", run.k + 1)
    BY BundleType DEF Stage, At, Inv
  <2>2. /\ delta # None /\ run.target = d /\ run.build = Build /\ manifest[run.target] = Build
        /\ run.k # 0
    BY <2>1 DEF Inv, StepInv, RunInv
  <2>3. d \in Days /\ Build \in Bundles
    BY <2>2, BundleType DEF Inv
  <2> QED
    BY <2>1, <2>2, <2>3 DEF Kinds
<1>2. /\ pending' \in [Days -> [Kinds -> AnyContent \cup {None, Torn}]]
      /\ \A e \in Days, j \in Kinds : pending'[e][j] \in Contents[j] \cup {None, Torn}
      /\ pending'[d][run.k] = Part(run.k, Build)
      /\ \A e \in Days, j \in Kinds : e # d \/ j # run.k => pending'[e][j] = pending[e][j]
  <2>1. Part(run.k, Build) \in Contents[run.k] /\ TypeOK
    BY <1>1, PartType DEF Inv
  <2>2. pending' = [pending EXCEPT ![d][run.k] = Part(run.k, Build)]
    BY <1>1
  <2> QED
    BY <1>1, <2>1, <2>2, PendingPut
<1>3. /\ run' \in Run /\ run' # None /\ run'.target = d /\ run'.build = Build
      /\ IF run.k = 4 THEN run'.at = "replace" /\ run'.k = 1
                      ELSE run'.at = "stage" /\ run'.k = run.k + 1
  <2>1. CASE run.k = 4
    BY <1>1, <2>1, GoToType DEF Steps
  <2>2. CASE run.k # 4
    BY <1>1, <2>2, GoToType DEF Steps
  <2> QED
    BY <2>1, <2>2
<1>4. TypeOK'
  BY <1>1, <1>2, <1>3 DEF Inv, TypeOK
<1>5. /\ run.k \in {1, 2} => pending[d][2] = None
      /\ \A j \in Kinds : j < run.k => pending[d][j] = Part(j, Build)
  BY <1>1 DEF Inv, StepInv, StageInv, At
<1>6. \A j \in Kinds : j <= run.k => pending'[d][j] = Part(j, Build)
  <2>1. ASSUME NEW j \in Kinds, j <= run.k PROVE pending'[d][j] = Part(j, Build)
    <3>1. CASE j = run.k
      BY <1>2, <3>1
    <3>2. CASE j # run.k
      BY <1>1, <1>2, <1>5, <2>1, <3>2, ContentsValues
    <3> QED
      BY <3>1, <3>2
  <2> QED
    BY <2>1
<1>7. StagedForDelta'
  <2>1. /\ 1 \in Kinds /\ 2 \in Kinds /\ {1, 2} \subseteq Kinds
        /\ 1 <= run.k /\ (run.k # 1 => 2 <= run.k)
    BY <1>1, ContentsValues
  <2>2. pending'[d][1] = Part(1, Build)
    BY <1>6, <2>1
  <2>3. Build # None /\ Build # Torn
    BY <1>1, NotNone
  <2>4. pending'[d][2] \in {None, Part(2, Build)}
    <3>1. CASE run.k = 1
      BY <1>2, <1>5, <1>1, <2>1, <3>1
    <3>2. CASE run.k # 1
      BY <1>6, <2>1, <3>2
    <3> QED
      BY <3>1, <3>2
  <2>5. ASSUME NEW e \in Days, e # d
        PROVE  manifest[e] = None /\ \A j \in {1, 2} : pending'[e][j] = None
    <3>1. manifest[e] = None /\ \A j \in {1, 2} : pending[e][j] = None
      BY <2>5 DEF Inv, StagedForDelta, Pends
    <3> QED
      BY <1>2, <2>1, <2>5, <3>1
  <2>6. ASSUME NEW e \in Days PROVE
        /\ manifest[e] # None => Pends(e) /\ manifest[e] \in {Build, Torn}
        /\ \A j \in {1, 2} :
            pending'[e][j] # None => Pends(e) /\ pending'[e][j] \in {Part(j, Build), Torn}
        /\ manifest[e] = Torn => pending'[e][2] = None
        /\ manifest[e] # None /\ manifest[e] # Torn /\ pending'[e][2] # None =>
            pending'[e][1] = Part(1, manifest[e])
    <3>1. CASE e = d
      BY <1>1, <2>2, <2>3, <2>4, <3>1 DEF Pends
    <3>2. CASE e # d
      BY <2>5, <3>2, NoneAssumption
    <3> QED
      BY <3>1, <3>2
  <2> QED
    BY <1>1, <2>6 DEF StagedForDelta, Pends, Build, Matches
<1>8. RunInv'
  BY <1>1, <1>3 DEF RunInv, Build
<1>9. StepInv'
  <2>1. CASE run.k = 4
    <3>1. \A j \in Kinds : ~(j < 1) /\ pending'[d][j] = Part(j, Build)
      BY <1>6, <2>1, ContentsValues
    <3>2. ReplaceInv'
      BY <1>1, <1>3, <2>1, <3>1 DEF ReplaceInv, Matches, Build
    <3> QED
      BY <1>3, <1>8, <2>1, <3>2 DEF StepInv, StageInv, DropInv, PairInv, ReadInv, At
  <2>2. CASE run.k # 4
    <3>1. \A j \in Kinds : j < run.k + 1 => j <= run.k
      BY <1>1, ContentsValues
    <3>2. run.k + 1 \in {1, 2} => pending'[d][2] = None
      BY <1>1, <1>2, <1>5, ContentsValues
    <3>3. StageInv'
      BY <1>1, <1>3, <1>6, <2>2, <3>1, <3>2 DEF StageInv, Build
    <3> QED
      BY <1>3, <1>8, <2>2, <3>3 DEF StepInv, ReplaceInv, DropInv, PairInv, ReadInv, At
  <2> QED
    BY <2>1, <2>2
<1> QED
  BY <1>1, <1>4, <1>7, <1>9, FinalsKept DEF Inv

LEMMA ManifestGone ==
    ASSUME Inv, NEW d \in Days, manifest' = [manifest EXCEPT ![d] = None],
           UNCHANGED <<final, pending, delta, seen, today, crashes, cuts>>,
           run' \in Run \cup {None}, StepInv'
    PROVE  Inv'
<1>1. /\ manifest' \in [Days -> Bundles \cup {None, Torn}] /\ manifest'[d] = None
      /\ \A e \in Days : e # d => manifest'[e] = manifest[e]
  BY DEF Inv, TypeOK
<1>2. TypeOK'
  BY <1>1 DEF Inv, TypeOK
<1>3. StagedForDelta'
  <2>1. ASSUME NEW e \in Days, e # d, Matches(e, 1, manifest[e])
        PROVE  Matches(e, 1, manifest[e])'
    BY <1>1, <2>1 DEF Matches
  <2> QED
    BY <1>1, <2>1, NoneAssumption DEF Inv, StagedForDelta, Pends, Build
<1> QED
  BY <1>2, <1>3, FinalsKept DEF Inv

LEMMA PendingGone ==
    ASSUME Inv, NEW d \in Days, NEW k \in Kinds, manifest[d] = None,
           pending' = [pending EXCEPT ![d][k] = None],
           UNCHANGED <<final, manifest, delta, seen, today, crashes, cuts>>,
           run' \in Run \cup {None}, StepInv'
    PROVE  Inv'
<1>1. /\ pending' \in [Days -> [Kinds -> AnyContent \cup {None, Torn}]]
      /\ \A e \in Days, j \in Kinds : pending'[e][j] \in Contents[j] \cup {None, Torn}
      /\ pending'[d][k] = None
      /\ \A e \in Days, j \in Kinds : e # d \/ j # k => pending'[e][j] = pending[e][j]
  <2>1. pending \in [Days -> [Kinds -> AnyContent \cup {None, Torn}]]
    BY DEF Inv, TypeOK
  <2>2. /\ pending' \in [Days -> [Kinds -> AnyContent \cup {None, Torn}]]
        /\ pending'[d][k] = None
        /\ \A e \in Days, j \in Kinds : e # d \/ j # k => pending'[e][j] = pending[e][j]
    BY <2>1
  <2> QED
    BY <2>2, FileTypes DEF Inv
<1>2. TypeOK'
  BY <1>1 DEF Inv, TypeOK
<1>3. StagedForDelta'
  <2>1. 1 \in Kinds /\ 2 \in Kinds /\ {1, 2} \subseteq Kinds
    BY ContentsValues
  <2>2. ASSUME NEW e \in Days, NEW j \in {1, 2} PROVE pending'[e][j] \in {None, pending[e][j]}
    <3>1. CASE e = d /\ j = k
      BY <1>1, <3>1
    <3>2. CASE e # d \/ j # k
      <4>1. pending'[e][j] = pending[e][j]
        BY <1>1, <2>1, <3>2
      <4> QED
        BY <4>1
    <3> QED
      BY <3>1, <3>2
  <2>3. ASSUME NEW e \in Days PROVE
        /\ manifest[e] # None => Pends(e) /\ manifest[e] \in {Build, Torn}
        /\ \A j \in {1, 2} :
            pending'[e][j] # None => Pends(e) /\ pending'[e][j] \in {Part(j, Build), Torn}
        /\ manifest[e] = Torn => pending'[e][2] = None
        /\ manifest[e] # None /\ manifest[e] # Torn /\ pending'[e][2] # None =>
            Matches(e, 1, manifest[e])'
    <3>1. /\ manifest[e] # None => Pends(e) /\ manifest[e] \in {Build, Torn}
          /\ \A j \in {1, 2} :
                pending[e][j] # None => Pends(e) /\ pending[e][j] \in {Part(j, Build), Torn}
          /\ manifest[e] = Torn => pending[e][2] = None
          /\ manifest[e] # None /\ manifest[e] # Torn /\ pending[e][2] # None =>
                Matches(e, 1, manifest[e])
      BY DEF Inv, StagedForDelta
    <3>2. manifest[e] # None /\ Matches(e, 1, manifest[e]) => Matches(e, 1, manifest[e])'
      BY <1>1, <2>1 DEF Matches
    <3>3. \A j \in {1, 2} : pending'[e][j] \in {None, pending[e][j]}
      BY <2>2
    <3>4. pending'[e][2] \in {None, pending[e][2]}
      BY <3>3
    <3> QED
      BY <3>1, <3>2, <3>3, <3>4
  <2> QED
    BY <2>3 DEF StagedForDelta, Pends, Build
<1> QED
  BY <1>2, <1>3, FinalsKept DEF Inv

LEMMA RemoveManifestStep == ASSUME Inv, RemoveManifest PROVE Inv'
<1> DEFINE d == delta.day
<1>1. /\ run # None /\ run.at = "unmanifest" /\ run \in Run /\ delta # None /\ run.target = d
      /\ d \in Days /\ Build \in Bundles
      /\ UNCHANGED <<final, pending, delta, seen, today, crashes, cuts>>
      /\ manifest' = [manifest EXCEPT ![d] = None]
      /\ IF run.build # None THEN GoTo("seen", 0) ELSE Recovered("applied")
  BY BundleType DEF RemoveManifest, At, Inv, StepInv, RunInv
<1>2. \A j \in Kinds : final[d][j] = Part(j, Build) /\ pending[d][j] = None
  BY <1>1 DEF Inv, StepInv, ReplaceInv
<1>3. /\ manifest'[d] = None /\ pending'[d][1] = None /\ pending'[d][2] = None
      /\ final'[d][4] # None
  <2>1. 1 \in Kinds /\ 2 \in Kinds /\ 4 \in Kinds /\ Part(4, Build) # None
    BY <1>1, PartType, ContentsValues
  <2> QED
    BY <1>1, <1>2, <2>1 DEF Inv, TypeOK
<1>4. run' \in Run /\ StepInv'
  <2>1. CASE run.build # None
    <3>1. run' \in Run /\ run' # None /\ run'.at = "seen" /\ run'.target = d
      BY <1>1, <2>1, GoToType DEF Steps
    <3>2. RunInv' /\ ReadInv'
      BY <1>1, <1>3, <3>1 DEF RunInv, ReadInv, Unstaged, At
    <3> QED
      BY <3>1, <3>2 DEF StepInv, DropInv, StageInv, ReplaceInv, PairInv, At
  <2>2. CASE run.build = None
    <3>1. Recovered("applied") /\ "applied" \in Results
      BY <1>1, <2>2 DEF Results
    <3>2. run'.target = d
      BY <1>1, <3>1, RecoveredType
    <3>3. Unstaged(run.target)'
      BY <1>3, <3>2 DEF Unstaged
    <3> QED
      BY <1>1, <3>1, <3>3, RecoveredType, RecoveredSteps
  <2> QED
    BY <2>1, <2>2
<1> QED
  BY <1>1, <1>4, ManifestGone

LEMMA DropStep == ASSUME Inv, Drop PROVE Inv'
<1> DEFINE d == delta.day
<1>1. /\ run # None /\ run.at = "drop" /\ run \in Run /\ delta # None /\ run.target = d
      /\ d \in Days /\ run.k \in 0..4 /\ run.last \in 0..4
      /\ UNCHANGED <<final, delta, seen, today, crashes, cuts>>
      /\ IF run.k = run.last THEN Recovered("discarded") ELSE GoTo("drop", run.k + 1)
  BY BundleType DEF Drop, At, Inv, StepInv, RunInv
<1>2. /\ run.k <= run.last /\ run.last # 0
      /\ run.k # 0 => manifest[d] = None
      /\ run.k \in {2, 3, 4} => pending[d][1] = None
      /\ run.k \in {3, 4} \/ run.last = 1 => pending[d][2] = None
  BY <1>1 DEF Inv, StepInv, DropInv, At
<1>3. /\ run.k = run.last => /\ run' # None /\ run' \in Run /\ run'.target = d
      /\ run.k # run.last => /\ run' \in Run /\ run' # None /\ run'.at = "drop"
                             /\ run'.k = run.k + 1 /\ run'.last = run.last /\ run'.target = d
  <2>1. CASE run.k = run.last
    BY <1>1, <2>1, RecoveredType DEF Results
  <2>2. CASE run.k # run.last
    <3>1. run.k + 1 \in 0..4
      BY <1>1, <1>2, <2>2
    <3> QED
      BY <1>1, <2>2, <3>1, GoToType DEF Steps
  <2> QED
    BY <2>1, <2>2
<1>4. 1 \in Kinds /\ 2 \in Kinds /\ (run.k # 0 => run.k \in Kinds)
  BY <1>1, ContentsValues
<1>5. ASSUME manifest'[d] = None,
             \A j \in {1, 2} : pending'[d][j] = None \/ (j # run.k /\ pending'[d][j] = pending[d][j])
      PROVE  run' \in Run /\ StepInv'
  <2>1. /\ pending'[d][1] = None \/ (1 # run.k /\ pending'[d][1] = pending[d][1])
        /\ pending'[d][2] = None \/ (2 # run.k /\ pending'[d][2] = pending[d][2])
    BY <1>5
  <2>2. CASE run.k = run.last
    <3>1. pending'[d][1] = None /\ pending'[d][2] = None
      BY <1>1, <1>2, <2>1, <2>2
    <3>2. Unstaged(run.target)'
      BY <1>3, <1>5, <2>2, <3>1 DEF Unstaged
    <3> QED
      BY <1>1, <1>3, <2>2, <3>2, RecoveredSteps DEF Results
  <2>3. CASE run.k # run.last
    <3>1. /\ run.k + 1 <= run.last
          /\ run.k + 1 \in {2, 3, 4} => pending'[d][1] = None
          /\ run.k + 1 \in {3, 4} \/ run.last = 1 => pending'[d][2] = None
      BY <1>1, <1>2, <2>1, <2>3
    <3>2. RunInv'
      BY <1>1, <1>3, <2>3 DEF RunInv
    <3>3. DropInv'
      BY <1>2, <1>3, <1>5, <2>3, <3>1 DEF DropInv
    <3> QED
      BY <1>3, <2>3, <3>2, <3>3 DEF StepInv, StageInv, ReplaceInv, PairInv, ReadInv, At
  <2> QED
    BY <2>2, <2>3
<1>6. CASE run.k = 0
  <2>1. manifest' = [manifest EXCEPT ![d] = None] /\ pending' = pending
    BY <1>1, <1>6 DEF Drop
  <2>2. manifest'[d] = None
    BY <1>1, <2>1 DEF Inv, TypeOK
  <2>3. \A j \in {1, 2} : j # run.k /\ pending'[d][j] = pending[d][j]
    BY <1>6, <2>1
  <2>4. run' \in Run /\ StepInv'
    BY <1>5, <2>2, <2>3
  <2> QED
    BY <1>1, <2>1, <2>4, ManifestGone
<1>7. CASE run.k # 0
  <2>1. pending' = [pending EXCEPT ![d][run.k] = None] /\ manifest' = manifest
    BY <1>1, <1>7 DEF Drop
  <2>2. pending \in [Days -> [Kinds -> AnyContent \cup {None, Torn}]]
    BY DEF Inv, TypeOK
  <2>3. /\ pending'[d][run.k] = None
        /\ \A j \in Kinds : j # run.k => pending'[d][j] = pending[d][j]
    BY <1>1, <1>4, <1>7, <2>1, <2>2
  <2>4. \A j \in {1, 2} : pending'[d][j] = None \/ (j # run.k /\ pending'[d][j] = pending[d][j])
    BY <1>4, <2>3
  <2>5. run' \in Run /\ StepInv'
    BY <1>2, <1>5, <1>7, <2>1, <2>4
  <2> QED
    BY <1>1, <1>2, <1>4, <1>7, <2>1, <2>5, PendingGone
<1> QED
  BY <1>6, <1>7

LEMMA CrashStep == ASSUME Inv, Crash PROVE Inv'
<1> DEFINE d == delta.day
<1>1. /\ run # None /\ Ends /\ UNCHANGED <<final, delta, seen, today>>
      /\ crashes' \in 0..MaxCrashes /\ cuts' \in 0..MaxCuts /\ run' = None
  <2>1. crashes' = crashes + 1 /\ crashes < MaxCrashes
    BY DEF Crash
  <2>2. cuts' = cuts \/ (cuts' = cuts + 1 /\ cuts < MaxCuts)
    BY DEF Crash
  <2> QED
    BY <2>1, <2>2, BoundsAssumption DEF Crash, Ends, Inv, TypeOK, files
<1>2. StepInv'
  BY <1>1, EndsSteps
<1>3. ASSUME pending' = pending, manifest' = manifest PROVE Inv'
  <2>1. TypeOK'
    BY <1>1, <1>3 DEF Inv, TypeOK
  <2>2. StagedForDelta'
    BY <1>1, <1>3 DEF Inv, StagedForDelta, Pends, Build, Matches
  <2> QED
    BY <1>1, <1>2, <2>1, <2>2, FinalsKept DEF Inv
<1>4. ASSUME run.at = "manifest", manifest' = [manifest EXCEPT ![run.target] = Torn],
             pending' = pending
      PROVE  Inv'
  <2>1. delta # None /\ run.target = d /\ d \in Days /\ Unstaged(d)
    BY <1>1, <1>4, BundleType DEF Inv, StepInv, RunInv
  <2>2. /\ manifest' \in [Days -> Bundles \cup {None, Torn}] /\ manifest'[d] = Torn
        /\ \A e \in Days : e # d => manifest'[e] = manifest[e]
    BY <1>4, <2>1 DEF Inv, TypeOK
  <2>3. TypeOK'
    BY <1>1, <1>4, <2>2 DEF Inv, TypeOK
  <2>4. StagedForDelta'
    <3>1. \A e \in Days : e # d => manifest[e] = None
      BY <2>1 DEF Inv, StagedForDelta, Pends
    <3>2. \A e \in Days : \A k \in {1, 2} :
            pending[e][k] # None => Pends(e) /\ pending[e][k] \in {Part(k, Build), Torn}
      BY DEF Inv, StagedForDelta
    <3> QED
      BY <1>1, <1>4, <2>1, <2>2, <3>1, <3>2, NoneAssumption
         DEF StagedForDelta, Pends, Build, Unstaged
  <2> QED
    BY <1>1, <1>2, <2>3, <2>4, FinalsKept DEF Inv
<1>5. ASSUME run.at = "stage", pending' = [pending EXCEPT ![run.target][run.k] = Torn],
             manifest' = manifest
      PROVE  Inv'
  <2>1. /\ delta # None /\ run.target = d /\ d \in Days /\ manifest[d] = Build
        /\ run.k \in 1..4 /\ Build \in Bundles /\ run.k \in Kinds
    <3>1. delta # None /\ run.target = d /\ manifest[d] = Build /\ run.k # 0
      BY <1>1, <1>5 DEF Inv, StepInv, RunInv
    <3>2. run.k \in 0..4 /\ d \in Days /\ Build \in Bundles
      BY <1>1, <3>1, BundleType DEF Inv
    <3> QED
      BY <3>1, <3>2 DEF Kinds
  <2>2. /\ pending' \in [Days -> [Kinds -> AnyContent \cup {None, Torn}]]
        /\ \A e \in Days, j \in Kinds : pending'[e][j] \in Contents[j] \cup {None, Torn}
        /\ pending'[d][run.k] = Torn
        /\ \A e \in Days, j \in Kinds : e # d \/ j # run.k => pending'[e][j] = pending[e][j]
    <3>1. /\ pending' = [pending EXCEPT ![d][run.k] = Torn]
          /\ pending \in [Days -> [Kinds -> AnyContent \cup {None, Torn}]]
      BY <1>5, <2>1 DEF Inv, TypeOK
    <3>2. /\ pending' \in [Days -> [Kinds -> AnyContent \cup {None, Torn}]]
          /\ pending'[d][run.k] = Torn
          /\ \A e \in Days, j \in Kinds : e # d \/ j # run.k => pending'[e][j] = pending[e][j]
      BY <2>1, <3>1
    <3> QED
      BY <2>1, <3>2, FileTypes DEF Inv
  <2>3. TypeOK'
    BY <1>1, <1>5, <2>2 DEF Inv, TypeOK
  <2>4. StagedForDelta'
    <3>1. 1 \in Kinds /\ 2 \in Kinds /\ {1, 2} \subseteq Kinds
      BY ContentsValues
    <3>2. /\ run.k \in {1, 2} => pending[d][2] = None
          /\ \A j \in Kinds : j < run.k => pending[d][j] = Part(j, Build)
      BY <1>1, <1>5, <2>1 DEF Inv, StepInv, StageInv, At
    <3>3. \A j \in {1, 2} : pending'[d][j] \in {pending[d][j], Torn}
      <4>1. ASSUME NEW j \in {1, 2} PROVE pending'[d][j] \in {pending[d][j], Torn}
        <5>1. CASE j = run.k
          BY <2>2, <5>1
        <5>2. CASE j # run.k
          <6>1. pending'[d][j] = pending[d][j]
            BY <2>1, <2>2, <3>1, <5>2
          <6> QED
            BY <6>1
        <5> QED
          BY <5>1, <5>2
      <4> QED
        BY <4>1
    <3>4. Build # None /\ Build # Torn
      BY <2>1, NotNone
    <3>5. pending'[d][2] # None => pending'[d][1] = pending[d][1]
      <4>1. CASE run.k = 1
        BY <2>1, <2>2, <3>1, <3>2, <4>1
      <4>2. CASE run.k # 1
        BY <2>1, <2>2, <3>1, <4>2
      <4> QED
        BY <4>1, <4>2
    <3>6. pending'[d][2] # None => Matches(d, 1, Build)'
      <4>1. CASE run.k = 1
        <5>1. pending'[d][2] = None
          BY <2>1, <2>2, <3>1, <3>2, <4>1
        <5> QED
          BY <5>1
      <4>2. CASE run.k # 1
        <5>1. pending'[d][1] = Part(1, Build)
          BY <2>1, <2>2, <3>1, <3>2, <4>2
        <5> QED
          BY <1>1, <5>1 DEF Matches, Build
      <4> QED
        BY <4>1, <4>2
    <3>7. ASSUME NEW e \in Days, e # d
          PROVE  manifest[e] = None /\ \A j \in {1, 2} : pending'[e][j] = None
      <4>1. manifest[e] = None /\ \A j \in {1, 2} : pending[e][j] = None
        BY <3>7 DEF Inv, StagedForDelta, Pends
      <4> QED
        BY <2>2, <3>1, <3>7, <4>1
    <3>8. \A j \in {1, 2} : pending[d][j] # None => pending[d][j] \in {Part(j, Build), Torn}
      BY <2>1 DEF Inv, StagedForDelta
    <3>9. Pends(d) /\ manifest[d] \in {Build, Torn} /\ manifest[d] # Torn
      BY <2>1, <3>4 DEF Pends
    <3>10. \A j \in {1, 2} : pending'[d][j] # None => pending'[d][j] \in {Part(j, Build), Torn}
      BY <3>3, <3>8
    <3>11. ASSUME NEW e \in Days PROVE
          /\ manifest[e] # None => Pends(e) /\ manifest[e] \in {Build, Torn}
          /\ \A j \in {1, 2} :
              pending'[e][j] # None => Pends(e) /\ pending'[e][j] \in {Part(j, Build), Torn}
          /\ manifest[e] = Torn => pending'[e][2] = None
          /\ manifest[e] # None /\ manifest[e] # Torn /\ pending'[e][2] # None =>
              Matches(e, 1, manifest[e])'
      <4>1. CASE e = d
        <5>1. pending'[d][2] # None => Matches(e, 1, manifest[e])'
          BY <1>1, <1>5, <2>1, <3>6, <4>1 DEF Matches, Build
        <5> QED
          BY <2>1, <3>9, <3>10, <4>1, <5>1
      <4>2. CASE e # d
        BY <3>7, <4>2, NoneAssumption
      <4> QED
        BY <4>1, <4>2
    <3> QED
      BY <1>1, <1>5, <3>11 DEF StagedForDelta, Pends, Build
  <2> QED
    BY <1>1, <1>2, <2>3, <2>4, FinalsKept DEF Inv
<1> QED
  BY <1>3, <1>4, <1>5 DEF Crash, At, files

(* ------------------------- the theorems ------------------------------- *)

LEMMA InitInv == Init => Inv
<1> SUFFICES ASSUME Init PROVE Inv
  OBVIOUS
<1>1. /\ \A d \in Days : final[d] = Empty /\ pending[d] = Empty /\ manifest[d] = None
      /\ \A k \in Kinds : Empty[k] = None
      /\ Empty \in [Kinds -> AnyContent \cup {None}]
      /\ Empty \in [Kinds -> AnyContent \cup {None, Torn}]
      /\ delta = None /\ seen = {} /\ today = 1 /\ run = None /\ 1 \in Days
      /\ 1 \in Kinds /\ 2 \in Kinds /\ 3 \in Kinds /\ 4 \in Kinds /\ {1, 2} \subseteq Kinds
  BY BoundsAssumption DEF Init, Empty, Kinds, Days
<1>2. /\ final \in [Days -> [Kinds -> AnyContent \cup {None}]]
      /\ pending \in [Days -> [Kinds -> AnyContent \cup {None, Torn}]]
      /\ manifest \in [Days -> Bundles \cup {None, Torn}]
  BY <1>1 DEF Init
<1>3. TypeOK
  BY <1>1, <1>2, BoundsAssumption DEF Init, TypeOK
<1>4. StagedForDelta
  BY <1>1, NoneAssumption DEF StagedForDelta
<1>5. StepInv
  BY <1>1 DEF StepInv, RunInv, DropInv, StageInv, ReplaceInv, PairInv, ReadInv, At
<1>6. FutureInv
  BY <1>1 DEF FutureInv
<1>7. Accounted
  BY <1>1 DEF Accounted, Reported, Pends
<1>8. Apart
  BY <1>1 DEF Apart, Reported
<1> QED
  BY <1>3, <1>4, <1>5, <1>6, <1>7, <1>8 DEF Inv

LEMMA NextInv == Inv /\ [Next]_vars => Inv'
<1> SUFFICES ASSUME Inv, [Next]_vars PROVE Inv'
  OBVIOUS
<1>1. CASE UNCHANGED vars
  <2>1. UNCHANGED <<final, pending, manifest, delta, seen, today, run, crashes, cuts>>
    BY <1>1 DEF vars, files
  <2>2. StepInv'
    BY <2>1 DEF Inv, StepInv, RunInv, DropInv, StageInv, ReplaceInv, PairInv, ReadInv, At,
                Matches, Build, Unstaged, Unpublished, HasReport
  <2>3. run' \in Run \cup {None}
    BY <2>1 DEF Inv, TypeOK
  <2> QED
    BY <2>1, <2>2, <2>3, RunOnly DEF files
<1>2. CASE Proceed
  BY <1>2, RecoverStep, DropStep, ApplyStep, ApplyPairStep, AcceptDeltaStep, DiscardDeltaStep,
     WriteSeenStep, RemoveDeltaStep, ReadStep, ClearStep, WriteManifestStep, StageStep,
     ReplaceStep, RemoveManifestStep, RaiseStep DEF Proceed
<1> QED
  BY <1>1, <1>2, StartStep, NextDayStep, PrepareStep, NoReportStep, CrashStep DEF Next

LEMMA Invariance == Spec => []Inv
BY InitInv, NextInv, PTL DEF Spec

\* Every file, staged file, manifest, delta and run has the contents of its kind,
\* after any crash (commit_report_with_semantics, recover_pending_commit).
THEOREM TypeCorrect == Spec => []TypeOK
<1>1. Inv => TypeOK
  BY DEF Inv
<1> QED
  BY <1>1, Invariance, PTL

\* No article is in the reports of two days, for any number of days and crashes
\* (_same_date_report_context, _verified_pending_seen_bundle, commit_seen_url_delta).
THEOREM ReportedOnceAlways == Spec => []ReportedOnce
<1>1. Inv => ReportedOnce
  <2> SUFFICES ASSUME Inv, NEW d \in Days, NEW e \in Days, d # e
               PROVE  Reported(d) \cap Reported(e) = {}
    BY DEF ReportedOnce
  <2>1. d < e \/ e < d
    BY DEF Days
  <2> QED
    BY <2>1 DEF Inv, Apart
<1> QED
  BY <1>1, Invariance, PTL

\* What was reported and is not yet on the list of URLs is in the pending delta of
\* its own day, so no crash loses it (prepare_seen_url_delta, run_monitor).
ReportedIsAccounted ==
    \A d \in Days : Reported(d) \subseteq seen \/ (Pends(d) /\ Reported(d) = Build.kept)

THEOREM NothingUnaccounted == Spec => []ReportedIsAccounted
<1>1. Inv => ReportedIsAccounted
  <2> SUFFICES ASSUME Inv, NEW d \in Days, ~(Reported(d) \subseteq seen)
               PROVE  Pends(d) /\ Reported(d) = Build.kept
    BY DEF ReportedIsAccounted
  <2>1. Pends(d) /\ final[d][1] = Part(1, Build)
    BY DEF Inv, Accounted
  <2>2. Build \in Bundles
    BY <2>1, BundleType DEF Inv, Pends
  <2>3. Part(1, Build).kept = Build.kept /\ Part(1, Build) # None
    BY <2>2, PartValues, PartType, ContentsValues
  <2> QED
    BY <2>1, <2>3 DEF Reported
<1> QED
  BY <1>1, Invariance, PTL

(* ------------------------- whole bundles ------------------------------ *)

\* The files of a day are those of one bundle, or candidates alone.
Whole(d) == Unpublished(d) \/ \E b \in Bundles : \A k \in Kinds : final[d][k] = Part(k, b)

Written(d) == manifest[d] \notin {None, Torn}
InDrop(d, k) == At("drop") /\ run.target = d /\ run.k <= k /\ k <= run.last

\* Nothing is staged without a manifest unless it is being dropped; the files of a
\* bundle are staged in their order, and no file is replaced before all of them are.
WholeAt(d) ==
    /\ \A k \in Kinds : manifest[d] = None /\ pending[d][k] # None => InDrop(d, k)
    /\ manifest[d] = Torn => \A k \in Kinds : pending[d][k] = None
    /\ Written(d) => \A k, j \in Kinds :
            k < j /\ ~Matches(d, k, manifest[d]) => pending[d][j] = None
    /\ Whole(d) \/ (Written(d) /\ \A k \in Kinds : Matches(d, k, manifest[d]))

WholeRun ==
    /\ ~At("legacy")
    /\ At("drop") =>
        /\ Whole(run.target)
        /\ run.k = 0 => \A j \in Kinds : run.last < j => pending[run.target][j] = None
    /\ At("stage") => \A j \in Kinds : run.k <= j => pending[run.target][j] = None

WholeInv == cuts = 0 => WholeRun /\ \A d \in Days : WholeAt(d)

\* A day none of whose files change, and whose files nobody is dropping.
LEMMA SameDay ==
    ASSUME NEW d \in Days, WholeAt(d), final'[d] = final[d], pending'[d] = pending[d],
           manifest'[d] = manifest[d], ~At("drop") \/ run.target # d
    PROVE  WholeAt(d)'
<1>1. \A k \in Kinds : manifest'[d] = None => pending'[d][k] = None
  BY DEF WholeAt, InDrop
<1>2. Whole(d) => Whole(d)'
  BY DEF Whole, Unpublished
<1>3. Written(d)' <=> Written(d)
  BY DEF Written
<1>4. \A k \in Kinds : Matches(d, k, manifest[d])' <=> Matches(d, k, manifest[d])
  BY DEF Matches
<1> QED
  BY <1>1, <1>2, <1>3, <1>4 DEF WholeAt

LEMMA SameFiles ==
    ASSUME cuts = 0, WholeInv, UNCHANGED files, ~At("drop"),
           run' = None \/ run'.at \notin {"drop", "legacy", "stage"}
    PROVE  WholeInv'
<1>1. \A d \in Days : final'[d] = final[d] /\ pending'[d] = pending[d] /\ manifest'[d] = manifest[d]
  BY DEF files
<1>2. \A d \in Days : WholeAt(d)'
  BY <1>1, SameDay DEF WholeInv
<1>3. WholeRun'
  BY DEF WholeRun, At
<1> QED
  BY <1>2, <1>3 DEF WholeInv

LEMMA RecoverWhole == ASSUME Inv, cuts = 0, WholeInv, Recover PROVE WholeInv'
<1>1. /\ run # None /\ run.at = "recover" /\ run \in Run /\ run.target \in Days
      /\ UNCHANGED files /\ ~At("drop") /\ cuts' = 0
  BY BundleType DEF Recover, At, Inv
<1> PICK d \in Days : d = run.target
  BY <1>1
<1>2. WholeAt(d) /\ \A k \in Kinds : manifest[d] = None => pending[d][k] = None
  BY <1>1 DEF WholeInv, WholeAt, InDrop
<1>3. \A e \in Days : WholeAt(e)'
  <2>1. \A e \in Days :
            final'[e] = final[e] /\ pending'[e] = pending[e] /\ manifest'[e] = manifest[e]
    BY <1>1 DEF files
  <2> QED
    BY <1>1, <2>1, SameDay DEF WholeInv
<1>4. ASSUME manifest[d] # None, NEW last \in Kinds, Discarding(0, last), Whole(d),
             \A j \in Kinds : last < j => pending[d][j] = None
      PROVE  WholeInv'
  <2>1. /\ run' # None /\ run'.at = "drop" /\ run'.k = 0 /\ run'.last = last /\ run'.target = d
    BY <1>1, <1>4, DiscardingType, ContentsValues
  <2>2. Whole(d)' /\ \A j \in Kinds : last < j => pending'[d][j] = None
    BY <1>1, <1>4 DEF Whole, Unpublished, files
  <2>3. WholeRun'
    BY <2>1, <2>2 DEF WholeRun, At
  <2> QED
    BY <1>3, <2>3 DEF WholeInv
<1>5. CASE manifest[d] = Torn /\ Discarding(0, 2)
  <2>1. manifest[d] # None /\ ~Written(d) /\ 2 \in Kinds
    BY <1>5, NoneAssumption, ContentsValues DEF Written
  <2>2. Whole(d) /\ \A j \in Kinds : pending[d][j] = None
    BY <1>2, <1>5, <2>1 DEF WholeAt
  <2> QED
    BY <1>4, <1>5, <2>1, <2>2
<1>6. ASSUME manifest[d] # None, manifest[d] # Torn, NEW k \in Missing(d), Discarding(0, k)
      PROVE  WholeInv'
  <2>1. k \in Kinds /\ ~Matches(d, k, manifest[d]) /\ Written(d)
    BY <1>6 DEF Missing, Written
  <2>2. Whole(d) /\ \A j \in Kinds : k < j => pending[d][j] = None
    BY <1>2, <2>1 DEF WholeAt
  <2> QED
    BY <1>4, <1>6, <2>1, <2>2
<1>7. ASSUME run' # None, run'.at \notin {"drop", "legacy", "stage"} PROVE WholeInv'
  BY <1>1, <1>7, SameFiles
<1>8. CASE GoTo("apply", 1)
  BY <1>1, <1>7, <1>8, GoToType DEF Steps
<1>9. CASE Recovered("clean")
  BY <1>1, <1>7, <1>9, RecoveredType DEF Results
<1>10. CASE RecoverPair(d)
  <2>1. CASE Paired(d) \/ pending[d][1] # None \/ pending[d][2] # None
    BY <1>2, <1>10, <2>1, ContentsValues DEF RecoverPair, Paired
  <2> QED
    BY <1>9, <1>10, <2>1 DEF RecoverPair
<1> QED
  BY <1>5, <1>6, <1>8, <1>10 DEF Recover, RecoverManifest

LEMMA DropWhole == ASSUME Inv, cuts = 0, WholeInv, Drop PROVE WholeInv'
<1>1. /\ run # None /\ run.at = "drop" /\ run \in Run /\ run.target \in Days
      /\ run.k \in 0..4 /\ run.last \in 0..4 /\ final' = final /\ cuts' = 0
      /\ IF run.k = run.last THEN Recovered("discarded") ELSE GoTo("drop", run.k + 1)
  BY BundleType DEF Drop, At, Inv
<1> PICK d \in Days : d = run.target
  BY <1>1
<1>2. run.k <= run.last /\ run.last # 0 /\ (run.k # 0 => manifest[d] = None)
  BY <1>1 DEF Inv, StepInv, DropInv, At
<1>3. /\ Whole(d) /\ WholeAt(d)
      /\ run.k = 0 => \A j \in Kinds : run.last < j => pending[d][j] = None
  BY <1>1 DEF WholeInv, WholeRun, At
<1>4. /\ run.k = run.last => run' # None /\ run'.at \in {"resolve", "read"}
      /\ run.k # run.last => /\ run' # None /\ run'.at = "drop" /\ run'.k = run.k + 1
                             /\ run'.last = run.last /\ run'.target = d
  <2>1. CASE run.k = run.last
    BY <1>1, <2>1, RecoveredType DEF Results
  <2>2. CASE run.k # run.last
    <3>1. run.k + 1 \in 0..4
      BY <1>1, <1>2, <2>2
    <3> QED
      BY <1>1, <2>2, <3>1, GoToType DEF Steps
  <2> QED
    BY <2>1, <2>2
<1>5. /\ manifest'[d] = None
      /\ \A j \in Kinds : pending'[d][j] # None => j # run.k /\ pending'[d][j] = pending[d][j]
      /\ \A e \in Days : e # d => pending'[e] = pending[e] /\ manifest'[e] = manifest[e]
  <2>1. /\ pending \in [Days -> [Kinds -> AnyContent \cup {None, Torn}]]
        /\ manifest \in [Days -> Bundles \cup {None, Torn}]
    BY DEF Inv, TypeOK
  <2>2. CASE run.k = 0
    <3>1. manifest' = [manifest EXCEPT ![d] = None] /\ pending' = pending
      BY <2>2 DEF Drop
    <3> QED
      BY <1>1, <2>1, <2>2, <3>1, ContentsValues
  <2>3. CASE run.k # 0
    <3>1. pending' = [pending EXCEPT ![d][run.k] = None] /\ manifest' = manifest /\ run.k \in Kinds
      BY <1>1, <2>3, ContentsValues DEF Drop
    <3> QED
      BY <1>1, <1>2, <2>1, <2>3, <3>1
  <2> QED
    BY <2>2, <2>3
<1>6. \A j \in Kinds : pending'[d][j] # None => run.k < j /\ j <= run.last
  <2>1. ASSUME NEW j \in Kinds, pending'[d][j] # None PROVE run.k < j /\ j <= run.last
    <3>1. pending[d][j] # None /\ j # run.k /\ j \in 1..4
      BY <1>5, <2>1, ContentsValues
    <3>2. CASE run.k = 0
      BY <1>1, <1>3, <3>1, <3>2
    <3>3. CASE run.k # 0
      BY <1>1, <1>2, <1>3, <3>1, <3>3 DEF WholeAt, InDrop
    <3> QED
      BY <3>2, <3>3
  <2> QED
    BY <2>1
<1>7. \A e \in Days : WholeAt(e)'
  <2>1. ASSUME NEW e \in Days, e # d PROVE WholeAt(e)'
    BY <1>1, <1>5, <2>1, SameDay DEF WholeInv
  <2>2. WholeAt(d)'
    <3>1. ASSUME NEW j \in Kinds, pending'[d][j] # None PROVE InDrop(d, j)'
      <4>1. run.k < j /\ j <= run.last /\ run.k # run.last /\ run.k + 1 <= j
        BY <1>1, <1>2, <1>6, <3>1, ContentsValues
      <4> QED
        BY <1>4, <4>1 DEF InDrop, At
    <3>2. Whole(d)'
      BY <1>1, <1>3 DEF Whole, Unpublished
    <3> QED
      BY <1>5, <3>1, <3>2, NoneAssumption DEF WholeAt, Written
  <2> QED
    BY <2>1, <2>2
<1>8. WholeRun'
  <2>1. run.k # run.last => Whole(run.target)' /\ run'.k # 0
    BY <1>1, <1>3, <1>4 DEF Whole, Unpublished
  <2> QED
    BY <1>4, <2>1 DEF WholeRun, At
<1> QED
  BY <1>7, <1>8 DEF WholeInv

\* Steps on the files of one day whose run does not drop, before or after.
LEMMA OneDay ==
    ASSUME cuts = 0, WholeInv, NEW d \in Days, ~At("drop"), WholeAt(d)', WholeRun',
           \A e \in Days : e # d =>
              final'[e] = final[e] /\ pending'[e] = pending[e] /\ manifest'[e] = manifest[e]
    PROVE  WholeInv'
<1>1. ASSUME NEW e \in Days, e # d PROVE WholeAt(e)'
  BY <1>1, SameDay DEF WholeInv
<1> QED
  BY <1>1 DEF WholeInv

\* While the files are replaced, all of them match.
LEMMA AdvanceWhole ==
    ASSUME Inv, Inv', cuts = 0, WholeInv, run # None, run.at \in {"apply", "replace"},
           Replaced(run.target, run.k, Part(run.k, Build)),
           IF run.k = 4 THEN GoTo("unmanifest", 0) ELSE GoTo(run.at, run.k + 1),
           UNCHANGED <<manifest, delta, seen, today, crashes, cuts>>
    PROVE  WholeInv'
<1>1. /\ run \in Run /\ run.target \in Days /\ run.k \in Kinds /\ delta # None
      /\ run.target = delta.day /\ manifest[run.target] = Build /\ ~At("drop")
  <2>1. run \in Run /\ run.target \in Days /\ run.k \in 0..4
    BY BundleType DEF Inv
  <2>2. /\ run.k # 0 /\ delta # None /\ run.target = delta.day
        /\ manifest[run.target] = Build /\ ~At("drop")
    BY DEF Inv, StepInv, RunInv, At
  <2> QED
    BY <2>1, <2>2 DEF Kinds
<1> PICK d \in Days : d = run.target
  BY <1>1
<1>2. /\ run' # None /\ run'.at \in {"apply", "replace", "unmanifest"} /\ run'.target = d
  <2>1. CASE run.k = 4
    BY <1>1, <2>1, GoToType DEF Steps
  <2>2. CASE run.k # 4
    BY <1>1, <2>2, GoToType, ContentsValues DEF Steps
  <2> QED
    BY <2>1, <2>2
<1>3. /\ Build \in Bundles /\ Build' = Build /\ manifest'[d] = Build
      /\ \A e \in Days : e # d => final'[e] = final[e] /\ pending'[e] = pending[e]
  <2>1. Replaced(delta.day, run.k, Part(run.k, Build))
    BY <1>1
  <2> QED
    BY <1>1, <2>1, ReplacedFiles DEF Build
<1>4. \A j \in Kinds : Matches(d, j, manifest[d])'
  <2>1. ReplaceInv'
    BY DEF Inv, StepInv
  <2>2. \A j \in Kinds : pending'[d][j] = Part(j, delta'.build) \/ final'[d][j] = Part(j, delta'.build)
    <3>1. CASE run'.at = "unmanifest"
      BY <1>2, <2>1, <3>1 DEF ReplaceInv, Build
    <3>2. CASE run'.at # "unmanifest"
      <4>1. \A j \in Kinds : j < run'.k \/ run'.k <= j
        BY <1>2, BundleType, ContentsValues DEF Inv, TypeOK, Run
      <4> QED
        BY <1>2, <2>1, <3>2, <4>1 DEF ReplaceInv, Matches, Build
    <3> QED
      BY <3>1, <3>2
  <2> QED
    BY <1>3, <2>2 DEF Matches, Build
<1>5. Written(d)' /\ manifest'[d] # None /\ manifest'[d] # Torn
  BY <1>3, NotNone DEF Written
<1>6. WholeAt(d)'
  BY <1>4, <1>5 DEF WholeAt
<1>7. WholeRun'
  BY <1>2 DEF WholeRun, At
<1> QED
  BY <1>1, <1>3, <1>6, <1>7, OneDay

\* Only the candidates or the snapshot of a day without a report change.
LEMMA CandidatesWhole ==
    ASSUME Inv, Inv', cuts = 0, WholeInv, delta = None, Unpublished(today), ~At("drop"),
           Unpublished(today)', UNCHANGED <<pending, manifest, today>>,
           \A d \in Days : d # today => final'[d] = final[d],
           run' = None \/ run'.at \in {"select", "clear"}
    PROVE  WholeInv'
<1> PICK d \in Days : d = today
  BY DEF Inv, TypeOK
<1>1. Unpublished(d)' /\ \A e \in Days : e # d => final'[e] = final[e]
  OBVIOUS
<1>2. manifest'[d] = None /\ \A k \in Kinds : pending'[d][k] = None
  BY NoneAssumption DEF Inv, StagedForDelta, Pends, WholeInv, WholeAt, InDrop
<1>3. WholeAt(d)'
  BY <1>1, <1>2, NoneAssumption DEF WholeAt, Whole, Written
<1>4. WholeRun'
  BY DEF WholeRun, At
<1> QED
  BY <1>1, <1>3, <1>4, OneDay

LEMMA ClearWhole ==
    ASSUME Inv, Inv', cuts = 0, WholeInv, Clear PROVE WholeInv'
<1>1. /\ run # None /\ run.at = "clear" /\ run \in Run /\ ~At("drop")
      /\ final' = [final EXCEPT ![today][run.k] = None]
      /\ UNCHANGED <<pending, manifest, today>>
      /\ IF run.k = 4 THEN GoTo("select", 0) ELSE GoTo("clear", 4)
  BY BundleType DEF Clear, At, Inv
<1>2. delta = None /\ Unpublished(today) /\ run.k \in {3, 4}
  BY <1>1 DEF Inv, StepInv, RunInv, ReadInv, At
<1>3. run' # None /\ run'.at \in {"select", "clear"}
  <2>1. CASE run.k = 4
    BY <1>1, <2>1, GoToType DEF Steps
  <2>2. CASE run.k # 4
    BY <1>1, <2>2, GoToType DEF Steps
  <2> QED
    BY <2>1, <2>2
<1>4. final \in [Days -> [Kinds -> AnyContent \cup {None}]] /\ today \in Days
  BY DEF Inv, TypeOK
<1>5. /\ \A d \in Days : d # today => final'[d] = final[d]
      /\ Unpublished(today)'
  BY <1>1, <1>2, <1>4, ContentsValues DEF Unpublished
<1> QED
  BY <1>1, <1>2, <1>3, <1>5, CandidatesWhole

LEMMA NoReportWhole ==
    ASSUME Inv, Inv', cuts = 0, WholeInv, NoReport PROVE WholeInv'
<1>1. /\ ~At("drop") /\ At("select") /\ final[today][1] = None /\ run' = None
      /\ UNCHANGED <<pending, manifest, today>>
  BY DEF NoReport, HasReport, Ends, At
<1>2. delta = None /\ today \in Days
  BY <1>1 DEF Inv, StepInv, RunInv, At, TypeOK
<1>3. Whole(today)
  BY <1>1, <1>2, NoneAssumption DEF WholeInv, WholeAt, Written, Inv, StagedForDelta, Pends
<1>4. Unpublished(today)
  <2>1. \A b \in Bundles : Part(1, b) # None /\ 1 \in Kinds
    BY PartType, ContentsValues
  <2> QED
    BY <1>1, <1>3, <2>1 DEF Whole
<1>5. final \in [Days -> [Kinds -> AnyContent \cup {None}]]
  BY DEF Inv, TypeOK
<1>6. /\ \A d \in Days : d # today => final'[d] = final[d]
      /\ final'[today][1] = None /\ final'[today][2] = None
  BY <1>2, <1>4, <1>5, ContentsValues DEF NoReport, Unpublished
<1> QED
  BY <1>1, <1>2, <1>4, <1>6, CandidatesWhole DEF Unpublished

LEMMA WriteManifestWhole ==
    ASSUME Inv, cuts = 0, WholeInv, WriteManifest PROVE WholeInv'
<1>1. /\ run # None /\ run.at = "manifest" /\ run \in Run /\ run.target \in Days /\ ~At("drop")
      /\ manifest[run.target] = None /\ GoTo("stage", 1) /\ final' = final /\ pending' = pending
      /\ manifest' = [manifest EXCEPT ![run.target] = Build] /\ Build \in Bundles
  BY BundleType DEF WriteManifest, At, Inv, StepInv, RunInv, Unstaged
<1> PICK d \in Days : d = run.target
  BY <1>1
<1>2. /\ run' # None /\ run'.at = "stage" /\ run'.k = 1 /\ run'.target = d
  BY <1>1, GoToType DEF Steps
<1>3. /\ manifest'[d] \in Bundles /\ manifest'[d] # None /\ manifest'[d] # Torn
      /\ \A e \in Days : e # d => manifest'[e] = manifest[e]
  BY <1>1, NotNone DEF Inv, TypeOK
<1>4. Whole(d)' /\ \A k \in Kinds : pending'[d][k] = None
  BY <1>1, NoneAssumption DEF WholeInv, WholeAt, InDrop, Written, Whole, Unpublished
<1>5. WholeAt(d)'
  BY <1>3, <1>4 DEF WholeAt
<1>6. WholeRun'
  BY <1>2, <1>4 DEF WholeRun, At
<1> QED
  BY <1>1, <1>3, <1>5, <1>6, OneDay

LEMMA RemoveManifestWhole ==
    ASSUME Inv, cuts = 0, WholeInv, RemoveManifest PROVE WholeInv'
<1>1. /\ run # None /\ run.at = "unmanifest" /\ run \in Run /\ run.target \in Days /\ ~At("drop")
      /\ final' = final /\ pending' = pending /\ manifest' = [manifest EXCEPT ![run.target] = None]
      /\ IF run.build # None THEN GoTo("seen", 0) ELSE Recovered("applied")
      /\ Build \in Bundles
  BY BundleType DEF RemoveManifest, At, Inv, StepInv, RunInv
<1> PICK d \in Days : d = run.target
  BY <1>1
<1>2. run' # None /\ run'.at \in {"seen", "resolve", "read"}
  <2>1. CASE run.build # None
    BY <1>1, <2>1, GoToType DEF Steps
  <2>2. CASE run.build = None
    BY <1>1, <2>2, RecoveredType DEF Results
  <2> QED
    BY <2>1, <2>2
<1>3. manifest'[d] = None /\ \A e \in Days : e # d => manifest'[e] = manifest[e]
  BY <1>1 DEF Inv, TypeOK
<1>4. \A k \in Kinds : final'[d][k] = Part(k, Build) /\ pending'[d][k] = None
  BY <1>1 DEF Inv, StepInv, ReplaceInv
<1>5. Whole(d)'
  <2>1. PICK b \in Bundles : b = Build
    BY <1>1
  <2> QED
    BY <1>4, <2>1 DEF Whole
<1>6. WholeAt(d)'
  BY <1>3, <1>4, <1>5, NoneAssumption DEF WholeAt, Written
<1>7. WholeRun'
  BY <1>2 DEF WholeRun, At
<1> QED
  BY <1>1, <1>3, <1>6, <1>7, OneDay

\* The next file of the bundle is staged, or torn by the death of its writer.
LEMMA StagedWhole ==
    ASSUME Inv, cuts = 0, WholeInv, At("stage"), NEW d \in Days, d = run.target,
           NEW k \in Kinds, k = run.k, NEW b \in Bundles, manifest[d] = b,
           NEW x, x \in {Part(k, b), Torn}, pending' = [pending EXCEPT ![d][k] = x],
           UNCHANGED <<final, manifest>>, WholeRun'
    PROVE  WholeInv'
<1>1. /\ pending'[d][k] = x
      /\ \A e \in Days, j \in Kinds : e # d \/ j # k => pending'[e][j] = pending[e][j]
      /\ \A e \in Days : e # d => pending'[e] = pending[e]
  BY DEF Inv, TypeOK
<1>2. /\ b # None /\ b # Torn /\ Part(k, b) # None
  BY NotNone, PartType
<1>3. \A j \in Kinds : k <= j => pending[d][j] = None
  BY DEF WholeInv, WholeRun
<1>4. \A j \in Kinds : j < k => pending[d][j] = Part(j, b)
  <2>1. manifest[run.target] = Build
    BY DEF Inv, StepInv, RunInv, At
  <2> QED
    BY <2>1 DEF Inv, StepInv, StageInv
<1>5. \A i, j \in Kinds : i < j /\ ~Matches(d, i, b)' => pending'[d][j] = None
  <2>1. ASSUME NEW i \in Kinds, NEW j \in Kinds, i < j, ~Matches(d, i, b)'
        PROVE  pending'[d][j] = None
    <3>1. CASE i < k
      <4>1. pending'[d][i] = Part(i, b)
        BY <1>1, <1>4, <3>1, ContentsValues
      <4> QED
        BY <2>1, <4>1 DEF Matches
    <3>2. CASE ~(i < k)
      <4>1. k <= j /\ j # k
        BY <2>1, <3>2, ContentsValues
      <4> QED
        BY <1>1, <1>3, <4>1
    <3> QED
      BY <3>1, <3>2
  <2> QED
    BY <2>1
<1>6. \A j \in Kinds : Matches(d, j, b) => Matches(d, j, b)'
  <2>1. ASSUME NEW j \in Kinds, Matches(d, j, b) PROVE Matches(d, j, b)'
    <3>1. CASE j = k
      <4>1. pending[d][k] = None
        BY <1>3, ContentsValues
      <4>2. final[d][k] = Part(k, b)
        BY <1>2, <2>1, <3>1, <4>1 DEF Matches
      <4> QED
        BY <3>1, <4>2 DEF Matches
    <3>2. CASE j # k
      BY <1>1, <2>1, <3>2 DEF Matches
    <3> QED
      BY <3>1, <3>2
  <2> QED
    BY <2>1
<1>7. Whole(d) \/ \A j \in Kinds : Matches(d, j, b)
  BY DEF WholeInv, WholeAt
<1>8. Whole(d)' \/ \A j \in Kinds : Matches(d, j, b)'
  <2>1. Whole(d) => Whole(d)'
    BY DEF Whole, Unpublished
  <2> QED
    BY <1>6, <1>7, <2>1
<1>9. WholeAt(d)'
  <2>1. manifest'[d] = b
    OBVIOUS
  <2>2. \A j \in Kinds : Matches(d, j, manifest[d])' <=> Matches(d, j, b)'
    BY <2>1 DEF Matches
  <2> QED
    BY <1>2, <1>5, <1>8, <2>1, <2>2 DEF WholeAt, Written
<1> QED
  BY <1>1, <1>9, OneDay DEF At

LEMMA StageWhole == ASSUME Inv, cuts = 0, WholeInv, Stage PROVE WholeInv'
<1>1. /\ run # None /\ run.at = "stage" /\ run \in Run /\ run.target \in Days
      /\ run.k \in Kinds /\ Build \in Bundles /\ run.build = Build
      /\ manifest[run.target] = Build /\ UNCHANGED <<final, manifest>>
      /\ pending' = [pending EXCEPT ![run.target][run.k] = Part(run.k, Build)]
      /\ IF run.k = 4 THEN GoTo("replace", 1) ELSE GoTo("stage", run.k + 1)
  <2>1. /\ run # None /\ run.at = "stage" /\ run \in Run /\ run.target \in Days /\ run.k \in 0..4
        /\ UNCHANGED <<final, manifest>>
        /\ pending' = [pending EXCEPT ![run.target][run.k] = Part(run.k, run.build)]
        /\ IF run.k = 4 THEN GoTo("replace", 1) ELSE GoTo("stage", run.k + 1)
    BY BundleType DEF Stage, At, Inv
  <2>2. /\ delta # None /\ run.build = Build /\ manifest[run.target] = Build /\ run.k # 0
    BY <2>1 DEF Inv, StepInv, RunInv
  <2> QED
    BY <2>1, <2>2, BundleType DEF Inv, Kinds
<1> PICK d \in Days : d = run.target
  BY <1>1
<1> PICK k \in Kinds : k = run.k
  BY <1>1
<1> PICK b \in Bundles : b = Build
  BY <1>1
<1>2. /\ run' # None /\ run'.target = d
      /\ IF k = 4 THEN run'.at = "replace" ELSE run'.at = "stage" /\ run'.k = k + 1
  <2>1. CASE k = 4
    BY <1>1, <2>1, GoToType DEF Steps
  <2>2. CASE k # 4
    BY <1>1, <2>2, GoToType, ContentsValues DEF Steps
  <2> QED
    BY <2>1, <2>2
<1>3. /\ \A j \in Kinds : k <= j => pending[d][j] = None
      /\ pending \in [Days -> [Kinds -> AnyContent \cup {None, Torn}]]
  BY <1>1 DEF WholeInv, WholeRun, At, Inv, TypeOK
<1>4. WholeRun'
  <2>1. \A j \in Kinds : k + 1 <= j => k <= j /\ j # k
    BY ContentsValues
  <2>2. \A j \in Kinds : j # k => pending'[d][j] = pending[d][j]
    BY <1>1, <1>3
  <2> QED
    BY <1>2, <1>3, <2>1, <2>2 DEF WholeRun, At
<1>5. PICK x : x = Part(k, b)
  OBVIOUS
<1>6. pending' = [pending EXCEPT ![d][k] = x]
  BY <1>1, <1>5
<1>7. /\ At("stage") /\ d = run.target /\ k = run.k /\ manifest[d] = b
      /\ x \in {Part(k, b), Torn} /\ UNCHANGED <<final, manifest>>
  BY <1>1, <1>5 DEF At
<1> QED
  BY <1>4, <1>6, <1>7, StagedWhole, Zenon

LEMMA CrashWhole == ASSUME Inv, cuts = 0, cuts' = 0, WholeInv, Crash PROVE WholeInv'
<1>1. run # None /\ run' = None /\ run \in Run /\ run.target \in Days /\ ~Cut /\ final' = final
  <2>1. ~Cut
    BY DEF Crash
  <2> QED
    BY <2>1, BundleType DEF Crash, Ends, Inv, files
<1>2. WholeRun'
  BY <1>1 DEF WholeRun, At
<1> PICK d \in Days : d = run.target
  BY <1>1
<1>3. CASE UNCHANGED files
  <2>1. CASE ~At("drop")
    BY <1>1, <1>3, <2>1, SameFiles
  <2>2. CASE At("drop")
    <3>1. /\ \A e \in Days : final'[e] = final[e] /\ pending'[e] = pending[e]
                             /\ manifest'[e] = manifest[e]
      BY <1>3 DEF files
    <3>2. \A e \in Days : e # d => WholeAt(e)'
      BY <3>1, SameDay DEF WholeInv
    <3>3. \A k \in Kinds : manifest[d] = None => pending[d][k] = None
      BY <1>1, <2>2 DEF Cut, WholeInv, WholeAt, InDrop
    <3>4. WholeAt(d)'
      <4>1. Whole(d) => Whole(d)'
        BY <3>1 DEF Whole, Unpublished
      <4>2. Written(d)' <=> Written(d)
        BY <3>1 DEF Written
      <4>3. \A k \in Kinds : Matches(d, k, manifest[d])' <=> Matches(d, k, manifest[d])
        BY <3>1 DEF Matches
      <4> QED
        BY <3>1, <3>3, <4>1, <4>2, <4>3 DEF WholeInv, WholeAt
    <3> QED
      BY <1>2, <3>2, <3>4 DEF WholeInv
  <2> QED
    BY <2>1, <2>2
<1>4. ASSUME run.at = "manifest", manifest' = [manifest EXCEPT ![run.target] = Torn],
             pending' = pending
      PROVE  WholeInv'
  <2>1. ~At("drop") /\ manifest[d] = None
    BY <1>1, <1>4 DEF Inv, StepInv, RunInv, Unstaged, At
  <2>2. manifest'[d] = Torn /\ \A e \in Days : e # d => manifest'[e] = manifest[e]
    BY <1>4 DEF Inv, TypeOK
  <2>3. Whole(d)' /\ \A k \in Kinds : pending'[d][k] = None
    BY <1>1, <1>4, <2>1, NoneAssumption
       DEF WholeInv, WholeAt, InDrop, Written, Whole, Unpublished
  <2>4. WholeAt(d)'
    BY <2>2, <2>3, NoneAssumption DEF WholeAt, Written
  <2> QED
    BY <1>1, <1>2, <1>4, <2>1, <2>2, <2>4, OneDay
<1>5. ASSUME run.at = "stage", pending' = [pending EXCEPT ![run.target][run.k] = Torn],
             manifest' = manifest
      PROVE  WholeInv'
  <2>1. /\ At("stage") /\ run.k \in Kinds /\ Build \in Bundles /\ manifest[run.target] = Build
    <3>1. At("stage") /\ run.k \in 0..4
      BY <1>1, <1>5, BundleType DEF Inv, At
    <3>2. delta # None /\ manifest[run.target] = Build /\ run.k # 0
      BY <1>1, <1>5 DEF Inv, StepInv, RunInv
    <3> QED
      BY <3>1, <3>2, BundleType DEF Inv, Kinds
  <2> PICK k \in Kinds : k = run.k
    BY <2>1
  <2> PICK b \in Bundles : b = Build
    BY <2>1
  <2> PICK x : x = Torn
    OBVIOUS
  <2>2. /\ d = run.target /\ k = run.k /\ manifest[d] = b /\ x \in {Part(k, b), Torn}
        /\ UNCHANGED <<final, manifest>> /\ pending' = [pending EXCEPT ![d][k] = x]
    BY <1>1, <1>5, <2>1
  <2> QED
    BY <1>2, <2>1, <2>2, StagedWhole, Zenon
<1> QED
  BY <1>3, <1>4, <1>5 DEF Crash, At, files

LEMMA WholeInit == Init => WholeInv
<1> SUFFICES ASSUME Init PROVE WholeInv
  OBVIOUS
<1>1. /\ \A d \in Days : final[d] = Empty /\ pending[d] = Empty /\ manifest[d] = None
      /\ \A k \in Kinds : Empty[k] = None
      /\ run = None /\ 1 \in Kinds /\ 2 \in Kinds
  BY DEF Init, Empty, Kinds
<1>2. \A d \in Days : WholeAt(d)
  BY <1>1, NoneAssumption DEF WholeAt, Whole, Unpublished, Written
<1> QED
  BY <1>1, <1>2 DEF WholeInv, WholeRun, At

LEMMA WholeNext == Inv /\ Inv' /\ WholeInv /\ [Next]_vars => WholeInv'
<1> SUFFICES ASSUME Inv, Inv', WholeInv, [Next]_vars, cuts' = 0 PROVE WholeInv'
  BY DEF WholeInv
<1>1. cuts = 0
  <2>1. cuts' = cuts \/ cuts' = cuts + 1
    BY DEF Next, Proceed, vars, Start, NextDay, Recover, Drop, Apply, ApplyPair, AcceptDelta,
           DiscardDelta, WriteSeen, RemoveDelta, Read, Clear, Prepare, NoReport, WriteManifest,
           Stage, Replace, RemoveManifest, Raise, Crash
  <2> QED
    BY <2>1 DEF Inv, TypeOK
<1>2. ASSUME UNCHANGED files, ~At("drop"),
             run' = None \/ run'.at \notin {"drop", "legacy", "stage"}
      PROVE  WholeInv'
  BY <1>1, <1>2, SameFiles
<1>3. run # None => run \in Run /\ today \in Days
  BY BundleType DEF Inv, TypeOK
<1>4. CASE Start
  <2>1. today \in Days /\ (delta # None => delta.day \in Days)
    BY BundleType DEF Inv, TypeOK
  <2>2. run'.at = "recover"
    BY <1>4, <2>1 DEF Start, RecoverDay
  <2> QED
    BY <1>2, <1>4, <2>2 DEF Start, At
<1>5. CASE NextDay
  BY <1>2, <1>5 DEF NextDay, At
<1>6. CASE Recover
  BY <1>1, <1>6, RecoverWhole
<1>7. CASE Drop
  BY <1>1, <1>7, DropWhole
<1>8. CASE Apply
  <2>1. run # None /\ run.at = "apply" /\ manifest[run.target] = Build
    BY <1>8 DEF Apply, At, Inv, StepInv, RunInv
  <2> QED
    BY <1>1, <1>8, <2>1, AdvanceWhole DEF Apply
<1>9. CASE ApplyPair
  BY <1>1, <1>9 DEF ApplyPair, WholeInv, WholeRun
<1>10. CASE AcceptDelta
  <2>1. run'.at = "seen"
    BY <1>3, <1>10, GoToType DEF AcceptDelta, Steps, At
  <2> QED
    BY <1>2, <1>10, <2>1 DEF AcceptDelta, At
<1>11. CASE DiscardDelta
  <2>1. run'.at \in {"read", "recover"}
    <3>1. CASE GoTo("read", 0)
      BY <1>3, <1>11, <3>1, GoToType DEF DiscardDelta, Steps, At
    <3>2. CASE RecoverDay(today)
      BY <3>2 DEF RecoverDay
    <3> QED
      BY <1>11, <3>1, <3>2 DEF DiscardDelta
  <2> QED
    BY <1>2, <1>11, <2>1 DEF DiscardDelta, At
<1>12. CASE WriteSeen
  BY <1>2, <1>12 DEF WriteSeen, At
<1>13. CASE RemoveDelta
  <2>1. run' = None \/ run'.at = "recover"
    BY <1>13 DEF RemoveDelta, Ends, RecoverDay
  <2> QED
    BY <1>2, <1>13, <2>1 DEF RemoveDelta, At
<1>14. CASE Read
  <2>1. run'.at \in {"clear", "select"}
    BY <1>3, <1>14, GoToType DEF Read, Steps, At
  <2> QED
    BY <1>2, <1>14, <2>1 DEF Read, At
<1>15. CASE Clear
  BY <1>1, <1>15, ClearWhole
<1>16. CASE Prepare
  <2>1. run'.at = "manifest"
    BY <1>3, <1>16 DEF Prepare, At, Run
  <2> QED
    BY <1>2, <1>16, <2>1 DEF Prepare, At
<1>17. CASE NoReport
  BY <1>1, <1>17, NoReportWhole
<1>18. CASE WriteManifest
  BY <1>1, <1>18, WriteManifestWhole
<1>19. CASE Stage
  BY <1>1, <1>19, StageWhole
<1>20. CASE Replace
  <2>1. run # None /\ run.at = "replace" /\ run.build = Build
    BY <1>20 DEF Replace, At, Inv, StepInv, RunInv
  <2> QED
    BY <1>1, <1>20, <2>1, AdvanceWhole DEF Replace
<1>21. CASE RemoveManifest
  BY <1>1, <1>21, RemoveManifestWhole
<1>22. CASE Raise
  BY <1>2, <1>22 DEF Raise, Ends, At
<1>23. CASE Crash
  BY <1>1, <1>23, CrashWhole
<1>24. CASE UNCHANGED vars
  <2>1. UNCHANGED <<final, pending, manifest, run, cuts>>
    BY <1>24 DEF vars, files
  <2>2. \A d \in Days : WholeAt(d)'
    BY <1>1, <2>1 DEF WholeInv, WholeAt, Whole, Unpublished, Written, Matches, InDrop, At
  <2>3. WholeRun'
    BY <1>1, <2>1 DEF WholeInv, WholeRun, Whole, Unpublished, At
  <2> QED
    BY <2>2, <2>3 DEF WholeInv
<1> QED
  BY <1>4, <1>5, <1>6, <1>7, <1>8, <1>9, <1>10, <1>11, <1>12, <1>13, <1>14, <1>15, <1>16,
     <1>17, <1>18, <1>19, <1>20, <1>21, <1>22, <1>23, <1>24 DEF Next, Proceed

\* Outside a transaction the files of every day are those of one bundle, for any number
\* of crashes, as long as none strikes while a bundle is discarded
\* (commit_report_with_semantics, _recover_manifest_commit).
THEOREM WholeBundles == Spec => []WholeBundle
<1>1. WholeInv => WholeBundle
  <2> SUFFICES ASSUME WholeInv, cuts = 0, NEW d \in Days, manifest[d] = None
               PROVE  Whole(d)
    BY DEF WholeBundle, NeverPartial, OneBundle, Whole
  <2> QED
    BY DEF WholeInv, WholeAt, Written
<1> QED
  BY <1>1, Invariance, WholeInit, WholeNext, PTL DEF Spec
=============================================================================
