----------------------- MODULE ReportSelectionProofs -----------------------
(***************************************************************************)
(* The safety of ReportSelection for any number of articles, texts,        *)
(* freezers, reports and crashes.                                          *)
(***************************************************************************)
EXTENDS ReportSelection, TLAPS, WellFoundedInduction

\* A non-empty set of row numbers has a last one.
LEMMA LastIsIn ==
    ASSUME NEW n \in Nat, NEW rows \in SUBSET (1..n), rows # {}
    PROVE  Last(rows) \in rows /\ \A j \in rows : j <= Last(rows)
<1> DEFINE R == OpToRel(<, Nat)
           D == {n - i : i \in rows}
<1>1. D \subseteq Nat /\ D # {}
  <2>1. D \subseteq Nat
    OBVIOUS
  <2>2. PICK i \in rows : TRUE
    OBVIOUS
  <2>3. n - i \in D
    BY <2>2
  <2> QED BY <2>1, <2>3
<1>2. PICK d \in D : \A c \in D : <<c, d>> \notin R
  BY <1>1, WFMin, NatLessThanWellFounded, Zenon
<1>3. \A c \in D : ~(c < d)
  BY <1>1, <1>2, Zenon DEF OpToRel
<1>4. PICK i \in rows : d = n - i
  OBVIOUS
<1>5. \A j \in rows : j <= i
  <2>1. \A j \in rows : ~(n - j < n - i)
    BY <1>3, <1>4
  <2> QED BY <2>1
<1> QED BY <1>5 DEF Last

\* A tick before the report day of occurrence k is in a period before it.
LEMMA PeriodBefore ==
    ASSUME NEW t \in Nat, NEW k \in Nat, t < k * PeriodLength
    PROVE  Period(t) \in Nat /\ Period(t) < k
<1> DEFINE p == PeriodLength
           q == t \div p
<1>1. p \in Nat /\ p > 0
  BY PeriodAssumption
<1> HIDE DEF p
<1>2. q \in Int /\ q >= 0 /\ q * p <= t
  BY <1>1
<1>3. q * p < k * p
  BY <1>1, <1>2, t < k * p DEF p
<1>4. q < k
  BY <1>1, <1>2, <1>3
<1> QED BY <1>2, <1>4 DEF Period, p
LEMMA QuotientAtLeast ==
    ASSUME NEW t \in Nat, NEW p \in Nat \ {0}, p <= t
    PROVE  t \div p \in Int /\ t \div p >= 1
OBVIOUS

-----------------------------------------------------------------------------
\* Types

LEMMA DatedType == \A v \in Version : Dated(v) \in Times
BY DEF Version, Dated

LEMMA RowsType == TypeOK => \A e : Rows(e) \subseteq 1..Len(ledger) /\ \A i \in Rows(e) : ledger[i] \in Version
BY DEF TypeOK, Rows

LEMMA NextVersionType ==
    ASSUME TypeOK, NEW e \in Entities, NEW r \in Nat \cup {ContentVersion}, NEW m \in Materials
    PROVE  NextVersion(e, r, m) \in Version
<1>1. clock \in Times
  BY DEF TypeOK
<1>2. CASE Rows(e) = {}
  BY <1>1, <1>2 DEF NextVersion, Version
<1>3. CASE Rows(e) # {}
  <2> DEFINE previous == ledger[Last(Rows(e))]
  <2>1. previous \in Version
    <3>1. Rows(e) \in SUBSET (1..Len(ledger)) /\ Len(ledger) \in Nat
      BY RowsType DEF TypeOK
    <3>2. Last(Rows(e)) \in Rows(e)
      BY <1>3, <3>1, LastIsIn
    <3> QED BY <3>2, RowsType
  <2>2. NextVersion(e, r, m) =
          [entity |-> e, ref |-> r, material |-> m, first |-> previous.first,
           changed |-> IF previous.material = m THEN previous.changed ELSE clock]
    BY <1>3 DEF NextVersion
  <2> HIDE DEF previous
  <2>3. previous.first \in Times /\ previous.changed \in Times \cup {None}
    BY <2>1 DEF Version
  <2> QED BY <1>1, <2>2, <2>3 DEF Version
<1> QED BY <1>2, <1>3

LEMMA CandidatesType == TypeOK => \A k : Candidates(k) \subseteq Identity /\ Due(k) \subseteq Identity
<1>1. ASSUME TypeOK, NEW e, NEW i \in Latest(e) PROVE IdentityOf(ledger[i]) \in Identity
  <2>1. i \in Rows(e)
    BY <1>1 DEF Latest, Shown, PublicRows
  <2>2. ledger[i] \in Version
    BY <1>1, <2>1, RowsType
  <2>3. Dated(ledger[i]) \in Times
    BY <2>2, DatedType
  <2> QED BY <2>2, <2>3 DEF IdentityOf, Identity, Version
<1> QED BY <1>1 DEF Candidates, Due

\* The type invariant is inductive.
LEMMA TypeStep == TypeOK /\ [Next]_vars => TypeOK'
<1> SUFFICES ASSUME TypeOK, [Next]_vars PROVE TypeOK'
  OBVIOUS
<1> USE DEF TypeOK
<1>1. ASSUME NEW e \in Entities, NEW r \in Nat \cup {ContentVersion}, NEW m \in Materials, Record(e, r, m)
      PROVE  TypeOK'
  <2>1. NextVersion(e, r, m) \in Version
    BY <1>1, NextVersionType
  <2>2. clock' \in Times
    BY <1>1, PeriodAssumption DEF Record, Times
  <2>3. /\ ledger' \in Seq(Version)
        /\ Len(ledger) <= Len(ledger')
        /\ Len(ledger') <= MaxVersions
    <3> DEFINE v == NextVersion(e, r, m)
    <3>1. ledger' = ledger \/ ledger' = Append(ledger, v)
      BY <1>1 DEF Record
    <3> HIDE DEF v
    <3>2. Len(ledger) < MaxVersions /\ v \in Version
      BY <1>1, <2>1 DEF Record, v
    <3>3. CASE ledger' = ledger
      BY <3>3
    <3>4. CASE ledger' = Append(ledger, v)
      <4>1. Append(ledger, v) \in Seq(Version) /\ Len(Append(ledger, v)) = Len(ledger) + 1
        BY <3>2
      <4>2. Len(ledger) \in Nat
        OBVIOUS
      <4> QED BY <3>2, <3>4, <4>1, <4>2, BoundsAssumption
    <3> QED BY <3>1, <3>3, <3>4
  <2>4. public' \in [Entities -> 0..Len(ledger')]
    BY <1>1, <2>3 DEF Record
  <2> QED BY <1>1, <2>2, <2>3, <2>4 DEF Record, files, freezing
<1>2. ASSUME NEW e \in Entities, NEW t \in Texts,
             Collect(e, t) \/ Check(e, t) \/ \E o \in Observations : Import(e, o, t) \/ Verify(e, o, t)
      PROVE  TypeOK'
  <2> HIDE DEF TypeOK
  <2>1. CASE Collect(e, t)
    BY <2>1, <1>1 DEF Collect, Materials, TypeOK
  <2>2. CASE Check(e, t)
    <3>1. ContentVersion \in Nat \cup {ContentVersion} /\ [kind |-> "summary", text |-> t] \in Materials
      BY DEF Materials
    <3>2. Record(e, ContentVersion, [kind |-> "summary", text |-> t])
      BY <2>2 DEF Check
    <3> QED BY <3>1, <3>2, <1>1
  <2>3. CASE \E o \in Observations : Import(e, o, t) \/ Verify(e, o, t)
    BY <2>3, <1>1, EntitiesAssumption DEF Import, Verify, Materials
  <2> QED BY <1>2, <2>1, <2>2, <2>3
<1>3. ASSUME NEW e \in Entities, NEW n \in 1..Len(ledger), Approve(e, n)
      PROVE  TypeOK'
  BY <1>3 DEF Approve, files, freezing
<1>4. ASSUME NEW f \in Freezers, Freeze(f)
      PROVE  TypeOK'
  <2>0. 1 \in Occurrences /\ Occurrences \subseteq Nat
    <3>1. Period(MaxClock) \in Int /\ Period(MaxClock) >= 1
      <4>1. ~(MaxClock < 1 * PeriodLength)
        BY PeriodAssumption
      <4> QED BY <4>1, PeriodAssumption, QuotientAtLeast DEF Period
    <3> QED BY <3>1 DEF Occurrences
  <2>1. ASSUME NEW k \in Occurrences, BeginFreeze(f, k) PROVE TypeOK'
    BY <2>1, CandidatesType DEF BeginFreeze, files, registry
  <2>2. CASE ReadAppeared(f)
    BY <2>2 DEF ReadAppeared, files, registry
  <2>3. CASE WriteSnapshot(f)
    BY <2>3 DEF WriteSnapshot, registry
  <2>4. CASE WriteState(f)
    BY <2>0, <2>4 DEF WriteState, registry, Exit
  <2>5. CASE NewRevision(f)
    BY <2>0, <2>5 DEF NewRevision, registry, Exit
  <2>6. CASE Crash(f)
    BY <2>0, <2>6, BoundsAssumption DEF Crash, registry, files, Exit
  <2> QED BY <1>4, <2>1, <2>2, <2>3, <2>4, <2>5, <2>6 DEF Freeze
<1>5. CASE Tick
  BY <1>5, PeriodAssumption DEF Tick, Times, registry, files, freezing
<1>6. CASE UNCHANGED vars
  BY <1>6 DEF vars
<1> QED BY <1>2, <1>3, <1>4, <1>5, <1>6 DEF Next

\* Every variable keeps its type.
THEOREM TypeCorrect == Spec => []TypeOK
<1>1. Init => TypeOK
  <2>1. 1 \in Occurrences
    <3>1. Period(MaxClock) \in Int /\ Period(MaxClock) >= 1
      BY PeriodAssumption, QuotientAtLeast DEF Period
    <3> QED BY <3>1 DEF Occurrences
  <2> QED BY <2>1, PeriodAssumption, BoundsAssumption DEF Init, TypeOK, Times
<1> QED BY <1>1, TypeStep, PTL DEF Spec

-----------------------------------------------------------------------------
\* The inductive invariant

\* An occurrence is frozen by one process at a time.
OneHolder ==
    \A f, g \in Freezers :
        pc[f] # "idle" /\ pc[g] # "idle" /\ occ[f] = occ[g] => f = g

\* While no freeze has died, an occurrence has no snapshot until its freeze
\* writes it, and its state.json follows.
Fresh ==
    crashes = 0 =>
        /\ \A f \in Freezers : pc[f] \in {"appeared", "snapshot"} => occ[f] \notin written
        /\ \A k \in Occurrences :
              k \in written /\ report[k] = "none" => \E f \in Freezers : pc[f] = "state" /\ occ[f] = k

\* What a freeze has to see to is on its way into its snapshot, or in one.
UnderWay ==
    crashes = 0 =>
        \A f \in Freezers :
            /\ pc[f] = "appeared" => due[f] \subseteq chosen[f]
            /\ pc[f] = "snapshot" => due[f] \subseteq chosen[f] \cup Frozen
            /\ pc[f] \in {"state", "revision"} => due[f] \subseteq Frozen

IInv == TypeOK /\ OneHolder /\ Fresh /\ UnderWay

\* Everything due is a candidate.
LEMMA DueIsChosen == TypeOK => \A k \in Occurrences : Due(k) \subseteq Candidates(k)
<1> SUFFICES ASSUME TypeOK, NEW k \in Occurrences, NEW e \in Entities, NEW i \in Latest(e),
                    Dated(ledger[i]) < k * PeriodLength
             PROVE  Eligible(k, ledger[i])
  BY DEF Due, Candidates
<1>1. ledger[i] \in Version
  BY RowsType DEF Latest, Shown, PublicRows
<1>2. Dated(ledger[i]) \in Nat /\ k \in Nat
  BY <1>1, DatedType, PeriodAssumption DEF Times, Occurrences
<1>3. Period(Dated(ledger[i])) \in Nat /\ Period(Dated(ledger[i])) < k
  BY <1>2, PeriodBefore
<1> QED BY <1>2, <1>3 DEF Eligible

\* A snapshot of an occurrence that had none only adds to what is frozen.
LEMMA FrozenGrows ==
    ASSUME TypeOK, NEW f \in Freezers, WriteSnapshot(f), occ[f] \notin written
    PROVE  Frozen' = Frozen \cup chosen[f]
BY DEF TypeOK, WriteSnapshot, Frozen

\* The Registry's steps touch neither reports nor freezes.
LEMMA RegistryOrFreeze ==
    [Next]_vars => \/ UNCHANGED <<files, freezing, crashes>>
                   \/ \E f \in Freezers : Freeze(f)
<1> SUFFICES ASSUME Next, ~\E f \in Freezers : Freeze(f)
             PROVE  UNCHANGED <<files, freezing, crashes>>
  BY DEF vars, files, freezing
<1>1. ASSUME NEW e, NEW r, NEW m, Record(e, r, m) PROVE UNCHANGED <<files, freezing, crashes>>
  BY <1>1 DEF Record
<1>2. ASSUME NEW e \in Entities, NEW t \in Texts,
             Collect(e, t) \/ Check(e, t) \/ \E o \in Observations : Import(e, o, t) \/ Verify(e, o, t)
      PROVE  UNCHANGED <<files, freezing, crashes>>
  <2>1. \E r, m : Record(e, r, m)
    BY <1>2 DEF Collect, Check, Import, Verify
  <2> QED BY <1>1, <2>1
<1>3. ASSUME NEW e \in Entities, NEW n \in 1..Len(ledger), Approve(e, n) PROVE UNCHANGED <<files, freezing, crashes>>
  BY <1>3 DEF Approve
<1>4. CASE Tick
  BY <1>4 DEF Tick
<1> QED BY <1>2, <1>3, <1>4 DEF Next

LEMMA IInvStep == IInv /\ [Next]_vars => IInv'
<1> SUFFICES ASSUME IInv, [Next]_vars PROVE IInv'
  OBVIOUS
<1>1. TypeOK /\ TypeOK'
  BY TypeStep DEF IInv
<1>2. ASSUME UNCHANGED <<files, freezing, crashes>> PROVE IInv'
  BY <1>1, <1>2 DEF IInv, OneHolder, Fresh, UnderWay, Frozen, files, freezing
<1>3. ASSUME NEW f \in Freezers, NEW k \in Occurrences, BeginFreeze(f, k) PROVE IInv'
  <2>1. OneHolder'
    BY <1>1, <1>3 DEF BeginFreeze, Locked, IInv, OneHolder, TypeOK
  <2>2. Fresh'
    BY <1>1, <1>3 DEF BeginFreeze, Locked, IInv, Fresh, TypeOK, files
  <2>3. UnderWay'
    BY <1>1, <1>3, DueIsChosen DEF BeginFreeze, IInv, UnderWay, TypeOK, files, Frozen
  <2> QED BY <1>1, <2>1, <2>2, <2>3 DEF IInv
<1>4. ASSUME NEW f \in Freezers, ReadAppeared(f) PROVE IInv'
  <2>1. OneHolder'
    BY <1>1, <1>4 DEF ReadAppeared, IInv, OneHolder, TypeOK
  <2>2. Fresh'
    BY <1>1, <1>4 DEF ReadAppeared, IInv, Fresh, TypeOK, files
  <2>3. UnderWay'
    <3>1. Frozen' = Frozen
      BY <1>4 DEF ReadAppeared, Frozen, files
    <3> QED BY <1>1, <1>4, <3>1 DEF ReadAppeared, IInv, UnderWay, TypeOK
  <2> QED BY <1>1, <2>1, <2>2, <2>3 DEF IInv
<1>5. ASSUME NEW f \in Freezers, WriteSnapshot(f) PROVE IInv'
  <2>1. OneHolder'
    BY <1>1, <1>5 DEF WriteSnapshot, IInv, OneHolder, TypeOK
  <2>2. Fresh'
    <3> SUFFICES ASSUME crashes = 0 PROVE Fresh'
      BY <1>5 DEF WriteSnapshot, Fresh
    <3>1. /\ pc[f] = "snapshot"
          /\ occ' = occ /\ report' = report
          /\ pc' = [pc EXCEPT ![f] = "state"]
          /\ written' = written \cup {occ[f]}
          /\ \A k \in Occurrences : k # occ[f] => snapshot'[k] = snapshot[k]
      BY <1>1, <1>5 DEF WriteSnapshot, TypeOK
    <3>2. ASSUME NEW g \in Freezers, pc'[g] \in {"appeared", "snapshot"} PROVE occ'[g] \notin written'
      <4>1. g # f /\ pc[g] = pc'[g] /\ occ[g] \in Occurrences
        BY <1>1, <3>1, <3>2 DEF TypeOK
      <4>2. occ[g] # occ[f] /\ occ[g] \notin written
        BY <3>1, <3>2, <4>1 DEF IInv, OneHolder, Fresh
      <4> QED BY <3>1, <4>1, <4>2
    <3>3. ASSUME NEW k \in Occurrences, k \in written', report'[k] = "none"
          PROVE  \E g \in Freezers : pc'[g] = "state" /\ occ'[g] = k
      BY <1>1, <3>1, <3>3 DEF IInv, Fresh, TypeOK
    <3> QED BY <3>2, <3>3 DEF Fresh
  <2>3. UnderWay'
    <3>1. CASE crashes = 0
      <4>1. Frozen' = Frozen \cup chosen[f]
        BY <1>1, <1>5, <3>1, FrozenGrows DEF IInv, Fresh, WriteSnapshot
      <4> QED BY <1>1, <1>5, <3>1, <4>1 DEF WriteSnapshot, IInv, UnderWay, TypeOK
    <3>2. CASE crashes # 0
      BY <1>5, <3>2 DEF WriteSnapshot, UnderWay
    <3> QED BY <3>1, <3>2
  <2> QED BY <1>1, <2>1, <2>2, <2>3 DEF IInv
<1>6. ASSUME NEW f \in Freezers, WriteState(f) \/ NewRevision(f) PROVE IInv'
  <2>1. /\ pc[f] \in {"state", "revision"}
        /\ \/ Exit(f)
           \/ pc' = [pc EXCEPT ![f] = "revision"] /\ UNCHANGED <<occ, chosen, due>>
        /\ report'[occ[f]] # "none"
        /\ \A k \in Occurrences : k # occ[f] => report'[k] = report[k]
        /\ written' = written /\ snapshot' = snapshot /\ crashes' = crashes
    <3>1. CASE WriteState(f)
      BY <1>1, <3>1 DEF WriteState, TypeOK
    <3>2. CASE NewRevision(f)
      BY <1>1, <3>2 DEF NewRevision, TypeOK
    <3> QED BY <1>6, <3>1, <3>2
  <2>2. /\ pc'[f] \in {"idle", "revision"}
        /\ pc'[f] = "revision" => due'[f] = due[f] /\ occ'[f] = occ[f]
        /\ \A g \in Freezers : g # f =>
              pc'[g] = pc[g] /\ occ'[g] = occ[g] /\ chosen'[g] = chosen[g] /\ due'[g] = due[g]
    <3>1. CASE Exit(f)
      BY <1>1, <3>1 DEF Exit, TypeOK
    <3>2. CASE pc' = [pc EXCEPT ![f] = "revision"] /\ UNCHANGED <<occ, chosen, due>>
      BY <1>1, <3>2 DEF TypeOK
    <3> QED BY <2>1, <3>1, <3>2
  <2>3. OneHolder'
    BY <2>1, <2>2 DEF IInv, OneHolder
  <2>4. Fresh'
    <3> SUFFICES ASSUME crashes = 0 PROVE Fresh'
      BY <2>1 DEF Fresh
    <3>1. ASSUME NEW g \in Freezers, pc'[g] \in {"appeared", "snapshot"} PROVE occ'[g] \notin written'
      BY <2>1, <2>2, <3>1 DEF IInv, Fresh
    <3>2. ASSUME NEW k \in Occurrences, k \in written', report'[k] = "none"
          PROVE  \E g \in Freezers : pc'[g] = "state" /\ occ'[g] = k
      <4>1. k # occ[f] /\ k \in written /\ report[k] = "none"
        BY <2>1, <3>2
      <4>2. PICK g \in Freezers : pc[g] = "state" /\ occ[g] = k
        BY <4>1 DEF IInv, Fresh
      <4> QED BY <2>2, <4>1, <4>2
    <3> QED BY <3>1, <3>2 DEF Fresh
  <2>5. UnderWay'
    <3>1. Frozen' = Frozen
      BY <2>1 DEF Frozen
    <3> QED BY <2>1, <2>2, <3>1 DEF IInv, UnderWay
  <2> QED BY <1>1, <2>3, <2>4, <2>5 DEF IInv
<1>7. ASSUME NEW f \in Freezers, Crash(f) PROVE IInv'
  <2>1. crashes' # 0
    BY <1>1, <1>7, BoundsAssumption DEF Crash, TypeOK
  <2>2. OneHolder'
    BY <1>1, <1>7 DEF Crash, Exit, IInv, OneHolder, TypeOK
  <2> QED BY <1>1, <2>1, <2>2 DEF IInv, Fresh, UnderWay
<1>8. \/ UNCHANGED <<files, freezing, crashes>>
      \/ \E f \in Freezers : Freeze(f)
  BY RegistryOrFreeze
<1> QED BY <1>2, <1>3, <1>4, <1>5, <1>6, <1>7, <1>8 DEF Freeze

LEMMA Invariance == Spec => []IInv
<1>1. Init => OneHolder /\ Fresh /\ UnderWay
  BY DEF Init, OneHolder, Fresh, UnderWay
<1>2. Spec => []TypeOK
  BY TypeCorrect
<1>3. Init /\ TypeOK => IInv
  BY <1>1 DEF IInv
<1> QED BY <1>2, <1>3, IInvStep, PTL DEF Spec

\* A freeze leaves out nothing that was public, due and in no report.
THEOREM NothingLeftOut == Spec => []NothingSkipped
<1>1. IInv => NothingSkipped
  BY DEF IInv, UnderWay, NothingSkipped
<1> QED BY <1>1, Invariance, PTL

\* While no freeze dies, a frozen occurrence stays as it is.
THEOREM FrozenForGood == Spec => FrozenStays
<1>1. ASSUME IInv, [Next]_vars, crashes = 0
      PROVE  \A k \in written : snapshot'[k] = snapshot[k]
  <2> SUFFICES ASSUME NEW k \in written
               PROVE  snapshot'[k] = snapshot[k]
    OBVIOUS
  <2>2. ASSUME NEW f \in Freezers, WriteSnapshot(f) PROVE snapshot'[k] = snapshot[k]
    BY <1>1, <2>2 DEF WriteSnapshot, IInv, Fresh, TypeOK
  <2>3. snapshot' = snapshot \/ \E f \in Freezers : WriteSnapshot(f)
    BY <1>1, RegistryOrFreeze DEF Freeze, BeginFreeze, ReadAppeared, WriteState, NewRevision, Crash, files
  <2> QED BY <2>2, <2>3
<1> QED BY <1>1, Invariance, PTL DEF Spec, FrozenStays

\* What a freeze has chosen, once it has looked at the snapshots, is in none.
Disjoint ==
    \A f \in Freezers, k \in written :
        pc[f] = "snapshot" /\ k # occ[f] => chosen[f] \cap snapshot[k] = {}

\* With one process freezing at a time, no information is in two reports,
\* whichever freezes died.
THEOREM NoRepetition ==
    ASSUME \A f, g \in Freezers : f = g
    PROVE  Spec => []NoRepeat
<1>1. Init => Disjoint /\ NoRepeat
  BY DEF Init, Disjoint, NoRepeat
<1>2. ASSUME IInv, Disjoint, NoRepeat, [Next]_vars
      PROVE  Disjoint' /\ NoRepeat'
  <2> USE <1>2
  <2>1. TypeOK
    BY DEF IInv
  <2>2. ASSUME UNCHANGED <<files, freezing>> PROVE Disjoint' /\ NoRepeat'
    BY <2>2 DEF Disjoint, NoRepeat, files, freezing
  <2>3. ASSUME NEW f \in Freezers, Freeze(f), ~WriteSnapshot(f), ~ReadAppeared(f)
        PROVE Disjoint' /\ NoRepeat'
    <3>1. written' = written /\ snapshot' = snapshot /\ pc'[f] # "snapshot"
      BY <2>1, <2>3 DEF Freeze, BeginFreeze, WriteState, NewRevision, Crash, Exit, files, TypeOK
    <3> QED BY <3>1, \A g, h \in Freezers : g = h DEF Disjoint, NoRepeat
  <2>4. ASSUME NEW f \in Freezers, ReadAppeared(f) PROVE Disjoint' /\ NoRepeat'
    BY <2>1, <2>4, \A g, h \in Freezers : g = h DEF ReadAppeared, Frozen, files, Disjoint, NoRepeat, TypeOK
  <2>5. ASSUME NEW f \in Freezers, WriteSnapshot(f) PROVE Disjoint' /\ NoRepeat'
    <3>1. /\ pc[f] = "snapshot" /\ pc'[f] = "state"
          /\ occ[f] \in Occurrences
          /\ written' = written \cup {occ[f]}
          /\ snapshot'[occ[f]] = chosen[f]
          /\ \A k \in written : k # occ[f] => snapshot'[k] = snapshot[k]
      BY <2>1, <2>5 DEF WriteSnapshot, TypeOK
    <3>2. Disjoint'
      BY <3>1, \A g, h \in Freezers : g = h DEF Disjoint
    <3>3. ASSUME NEW j \in written', NEW k \in written', j # k PROVE snapshot'[j] \cap snapshot'[k] = {}
      BY <3>1, <3>3 DEF Disjoint, NoRepeat
    <3>4. NoRepeat'
      BY <3>3 DEF NoRepeat
    <3> QED BY <3>2, <3>4
  <2>6. UNCHANGED <<files, freezing>> \/ \E f \in Freezers : Freeze(f)
    BY RegistryOrFreeze
  <2> QED BY <2>2, <2>3, <2>4, <2>5, <2>6
<1> QED BY <1>1, <1>2, Invariance, PTL DEF Spec

-----------------------------------------------------------------------------
\* The ledger tells the history of an article

\* Every version is dated before now.
Past == \A i \in 1..Len(ledger) : Dated(ledger[i]) < clock

\* An article's versions are dated in the order they were written, those of one
\* date have one material, and between two dates the material became another.
Became(s, i, j) ==
    \E n \in 1..Len(s) :
        /\ s[n].entity = s[i].entity
        /\ s[n].material # s[i].material
        /\ Dated(s[i]) < Dated(s[n])
        /\ Dated(s[n]) <= Dated(s[j])
Follows(s, i, j) ==
    /\ i <= j => Dated(s[i]) <= Dated(s[j])
    /\ Dated(s[i]) = Dated(s[j]) => s[i].material = s[j].material
    /\ Dated(s[i]) < Dated(s[j]) => Became(s, i, j)
Chronicle ==
    \A i, j \in 1..Len(ledger) :
        ledger[i].entity = ledger[j].entity => Follows(ledger, i, j)

\* An article of the PDFs is only ever known by mentions.
Mentions ==
    \A i \in 1..Len(ledger) : ledger[i].entity \in Pdf => ledger[i].material.kind = "mention"

\* What is chosen or frozen is a version of the ledger.
InLedger(x) == \E i \in 1..Len(ledger) : x = IdentityOf(ledger[i])
Sourced ==
    /\ \A f \in Freezers : \A x \in chosen[f] : InLedger(x)
    /\ \A k \in Occurrences : \A x \in snapshot[k] : InLedger(x)

History == TypeOK /\ Past /\ Chronicle /\ Mentions /\ Sourced

\* A version written for an article repeats its last one's date and material,
\* or is dated now.
LEMMA NextVersionRepeatsOrIsNew ==
    ASSUME TypeOK, NEW e \in Entities, NEW r \in Nat \cup {ContentVersion}, NEW m \in Materials
    PROVE  /\ NextVersion(e, r, m).entity = e
           /\ NextVersion(e, r, m).material = m
           /\ \/ Rows(e) = {} /\ Dated(NextVersion(e, r, m)) = clock
              \/ \E l \in Rows(e) :
                    /\ \A i \in Rows(e) : i <= l
                    /\ \/ ledger[l].material = m /\ Dated(NextVersion(e, r, m)) = Dated(ledger[l])
                       \/ ledger[l].material # m /\ Dated(NextVersion(e, r, m)) = clock
<1>1. clock # None
  BY NoneAssumption DEF TypeOK
<1>2. CASE Rows(e) = {}
  BY <1>1, <1>2 DEF NextVersion, Dated
<1>3. CASE Rows(e) # {}
  <2> DEFINE l == Last(Rows(e))
  <2>1. Rows(e) \in SUBSET (1..Len(ledger)) /\ Len(ledger) \in Nat
    BY RowsType DEF TypeOK
  <2>2. l \in Rows(e)
    BY <1>3, <2>1, LastIsIn
  <2>3. \A i \in Rows(e) : i <= l
    BY <1>3, <2>1, LastIsIn
  <2>4. NextVersion(e, r, m) =
          [entity |-> e, ref |-> r, material |-> m, first |-> ledger[l].first,
           changed |-> IF ledger[l].material = m THEN ledger[l].changed ELSE clock]
    BY <1>3 DEF NextVersion
  <2>5. \/ ledger[l].material = m /\ Dated(NextVersion(e, r, m)) = Dated(ledger[l])
        \/ ledger[l].material # m /\ Dated(NextVersion(e, r, m)) = clock
    BY <1>1, <2>4 DEF Dated
  <2> QED BY <2>2, <2>3, <2>4, <2>5
<1> QED BY <1>2, <1>3

\* What a step does to the ledger: nothing, or one more version, dated now at
\* the latest, and the clock moves on.
LedgerMoves ==
    \/ ledger' = ledger /\ clock <= clock'
    \/ \E e \in Entities, r \in Nat \cup {ContentVersion}, m \in Materials :
          /\ ledger' = Append(ledger, NextVersion(e, r, m))
          /\ clock' = clock + 1
          /\ e \in Pdf => m.kind = "mention"

LEMMA LedgerStep == TypeOK /\ [Next]_vars => LedgerMoves
<1> SUFFICES ASSUME TypeOK, [Next]_vars PROVE LedgerMoves
  OBVIOUS
<1>1. clock \in Nat
  BY PeriodAssumption DEF TypeOK, Times
<1>2. ASSUME NEW e \in Entities, NEW r \in Nat \cup {ContentVersion}, NEW m \in Materials,
             Record(e, r, m), e \in Pdf => m.kind = "mention"
      PROVE  LedgerMoves
  BY <1>1, <1>2 DEF Record, LedgerMoves
<1>3. ASSUME NEW e \in Entities, NEW t \in Texts,
             Collect(e, t) \/ Check(e, t) \/ \E o \in Observations : Import(e, o, t) \/ Verify(e, o, t)
      PROVE  \E r \in Nat \cup {ContentVersion}, m \in Materials :
                Record(e, r, m) /\ (e \in Pdf => m.kind = "mention")
  <2>1. CASE Collect(e, t)
    <3>1. Len(ledger) \in Nat /\ [kind |-> "body", text |-> t] \in Materials /\ e \notin Pdf
      BY <2>1, EntitiesAssumption DEF Collect, TypeOK, Materials
    <3> QED BY <2>1, <3>1 DEF Collect
  <2>2. CASE Check(e, t)
    <3>1. [kind |-> "summary", text |-> t] \in Materials /\ e \notin Pdf
      BY <2>2, EntitiesAssumption DEF Check, Materials
    <3> QED BY <2>2, <3>1 DEF Check
  <2>3. CASE \E o \in Observations : Import(e, o, t) \/ Verify(e, o, t)
    <3>1. PICK o \in Observations : Record(e, o, [kind |-> "mention", text |-> t])
      BY <2>3 DEF Import, Verify
    <3>2. o \in Nat /\ [kind |-> "mention", text |-> t] \in Materials
      BY EntitiesAssumption DEF Materials
    <3> QED BY <3>1, <3>2
  <2> QED BY <1>3, <2>1, <2>2, <2>3
<1>4. ASSUME NEW f \in Freezers, Freeze(f) PROVE LedgerMoves
  BY <1>1, <1>4 DEF Freeze, BeginFreeze, ReadAppeared, WriteSnapshot, WriteState, NewRevision, Crash, registry, LedgerMoves
<1>5. CASE \E e \in Entities, n \in 1..Len(ledger) : Approve(e, n)
  BY <1>1, <1>5 DEF Approve, LedgerMoves
<1>6. CASE Tick
  BY <1>1, <1>6 DEF Tick, registry, LedgerMoves
<1>7. CASE UNCHANGED vars
  BY <1>1, <1>7 DEF vars, LedgerMoves
<1>8. CASE Next
  <2>1. CASE \E e \in Entities, t \in Texts :
               Collect(e, t) \/ Check(e, t) \/ \E o \in Observations : Import(e, o, t) \/ Verify(e, o, t)
    BY <1>2, <1>3, <2>1
  <2> QED BY <1>4, <1>5, <1>6, <1>8, <2>1 DEF Next
<1> QED BY <1>7, <1>8

\* A row that is written keeps its place.
LEMMA Appended ==
    ASSUME NEW S, NEW s \in Seq(S), NEW v \in S
    PROVE  /\ Len(Append(s, v)) = Len(s) + 1
           /\ \A i \in 1..Len(s) : Append(s, v)[i] = s[i]
           /\ Append(s, v)[Len(s) + 1] = v
           /\ 1..(Len(s) + 1) = (1..Len(s)) \cup {Len(s) + 1}
OBVIOUS

LEMMA AppendedHistory ==
    ASSUME History, NEW e \in Entities, NEW r \in Nat \cup {ContentVersion}, NEW m \in Materials,
           ledger' = Append(ledger, NextVersion(e, r, m)), clock' = clock + 1,
           e \in Pdf => m.kind = "mention"
    PROVE  Past' /\ Chronicle' /\ Mentions'
<1> DEFINE v == NextVersion(e, r, m)
           N == Len(ledger)
<1>1. TypeOK /\ clock \in Nat /\ N \in Nat /\ v \in Version
  BY PeriodAssumption, NextVersionType DEF History, TypeOK, Times
<1>2. /\ Len(ledger') = N + 1
      /\ \A i \in 1..N : ledger'[i] = ledger[i]
      /\ ledger'[N + 1] = v
      /\ 1..(N + 1) = (1..N) \cup {N + 1}
  <2>1. ledger \in Seq(Version)
    BY <1>1 DEF TypeOK
  <2> QED BY <1>1, <2>1, Appended
<1>3. /\ \A i \in 1..N : Dated(ledger[i]) \in Nat /\ Dated(ledger[i]) < clock
      /\ Dated(v) \in Nat /\ Dated(v) <= clock
  <2>1. \A w \in Version : Dated(w) \in Nat
    BY DatedType, PeriodAssumption DEF Times
  <2>2. \A i \in 1..N : ledger[i] \in Version
    BY <1>1 DEF TypeOK
  <2>3. \A i \in 1..N : Dated(ledger[i]) < clock
    BY DEF History, Past
  <2>4. Dated(v) = clock \/ \E l \in 1..N : Dated(v) = Dated(ledger[l])
    BY <1>1, NextVersionRepeatsOrIsNew DEF Rows
  <2> HIDE DEF v
  <2> QED BY <1>1, <2>1, <2>2, <2>3, <2>4
<1>4. /\ v.entity = e /\ v.material = m
      /\ \/ (\A i \in 1..N : ledger[i].entity # e) /\ Dated(v) = clock
         \/ \E l \in 1..N :
               /\ ledger[l].entity = e
               /\ \A i \in 1..N : ledger[i].entity = e => i <= l
               /\ \/ ledger[l].material = m /\ Dated(v) = Dated(ledger[l])
                  \/ ledger[l].material # m /\ Dated(v) = clock
  BY <1>1, NextVersionRepeatsOrIsNew DEF Rows
<1> HIDE DEF v, N
<1>5. Past'
  <2> SUFFICES ASSUME NEW i \in 1..(N + 1) PROVE Dated(ledger'[i]) < clock + 1
    BY <1>2 DEF Past, Dated
  <2> QED BY <1>1, <1>2, <1>3
<1>6. Mentions'
  <2> SUFFICES ASSUME NEW i \in 1..(N + 1), ledger'[i].entity \in Pdf
               PROVE  ledger'[i].material.kind = "mention"
    BY <1>2 DEF Mentions
  <2>1. CASE i \in 1..N
    BY <1>2, <2>1 DEF History, Mentions, N
  <2>2. CASE i = N + 1
    BY <1>2, <1>4, <2>2
  <2> QED BY <1>2, <2>1, <2>2
<1>7. Chronicle'
  <2>1. ASSUME NEW i \in 1..N, NEW j \in 1..N, Became(ledger, i, j) PROVE Became(ledger', i, j)
    BY <1>2, <2>1 DEF Became, N
  <2>2. ASSUME NEW i \in 1..N, NEW j \in 1..N, ledger[i].entity = ledger[j].entity
        PROVE  Follows(ledger', i, j)
    <3>1. Follows(ledger, i, j)
      BY <2>2 DEF History, Chronicle, N
    <3> QED BY <1>2, <2>1, <3>1 DEF Follows
  <2>3. ASSUME NEW i \in 1..N, ledger[i].entity = e
        PROVE  Follows(ledger', i, N + 1) /\ Follows(ledger', N + 1, i)
    <3>1. PICK l \in 1..N :
               /\ ledger[l].entity = e
               /\ i <= l
               /\ \/ ledger[l].material = m /\ Dated(v) = Dated(ledger[l])
                  \/ ledger[l].material # m /\ Dated(v) = clock
      BY <1>4, <2>3
    <3>2. Follows(ledger, i, l)
      BY <2>3, <3>1 DEF History, Chronicle, N
    <3>3. /\ Dated(ledger[i]) \in Nat /\ Dated(ledger[l]) \in Nat /\ Dated(v) \in Nat
          /\ Dated(ledger[i]) < clock /\ Dated(ledger[l]) < clock
      BY <1>3
    <3>4. Dated(ledger[i]) <= Dated(ledger[l]) /\ Dated(ledger[l]) <= Dated(v)
      BY <1>1, <3>1, <3>2, <3>3 DEF Follows
    <3>5. Dated(ledger[i]) = Dated(v) => ledger[i].material = m
      BY <1>1, <3>1, <3>2, <3>3, <3>4 DEF Follows
    <3>6. ASSUME Dated(ledger[i]) < Dated(v)
          PROVE  Became(ledger', i, N + 1)
      <4>1. ledger'[i] = ledger[i] /\ ledger'[N + 1] = v
        BY <1>2
      <4>2. CASE ledger[i].material # m
        <5>1. N + 1 \in 1..Len(ledger') /\ Dated(v) <= Dated(v)
          BY <1>2, <1>1, <3>3
        <5> QED BY <1>4, <2>3, <3>6, <4>1, <4>2, <5>1 DEF Became
      <4>3. CASE ledger[i].material = m
        <5>1. Dated(ledger[i]) < Dated(ledger[l])
          BY <1>1, <3>1, <3>2, <3>3, <3>4, <3>6, <4>3 DEF Follows
        <5>2. PICK n \in 1..N :
                     /\ ledger[n].entity = ledger[i].entity
                     /\ ledger[n].material # ledger[i].material
                     /\ Dated(ledger[i]) < Dated(ledger[n])
                     /\ Dated(ledger[n]) <= Dated(ledger[l])
          BY <3>2, <5>1 DEF Follows, Became, N
        <5>3. Dated(ledger[n]) <= Dated(v)
          BY <1>3, <3>3, <3>4, <5>2
        <5>4. n \in 1..Len(ledger') /\ ledger'[n] = ledger[n]
          BY <1>2
        <5> QED BY <4>1, <5>2, <5>3, <5>4 DEF Became
      <4> QED BY <4>2, <4>3
    <3>7. ledger'[i] = ledger[i] /\ ledger'[N + 1] = v /\ ~(N + 1 <= i)
      BY <1>1, <1>2
    <3>8. Follows(ledger', i, N + 1)
      BY <1>4, <3>3, <3>4, <3>5, <3>6, <3>7 DEF Follows
    <3>9. Follows(ledger', N + 1, i)
      <4>1. Dated(ledger[i]) <= Dated(v) /\ ~(Dated(v) < Dated(ledger[i]))
        BY <3>3, <3>4
      <4> QED BY <1>4, <3>5, <3>7, <4>1 DEF Follows
    <3> QED BY <3>8, <3>9
  <2>4. Follows(ledger', N + 1, N + 1)
    BY <1>2, <1>3 DEF Follows
  <2>5. ASSUME NEW i \in 1..(N + 1), NEW j \in 1..(N + 1), ledger'[i].entity = ledger'[j].entity
        PROVE  Follows(ledger', i, j)
    BY <1>2, <1>4, <2>2, <2>3, <2>4, <2>5
  <2>6. ASSUME NEW i \in 1..Len(ledger'), NEW j \in 1..Len(ledger'), ledger'[i].entity = ledger'[j].entity
        PROVE  Follows(ledger', i, j)
    BY <1>2, <2>5, <2>6
  <2> QED BY <2>6 DEF Chronicle, Follows, Became, Dated
<1> QED BY <1>5, <1>6, <1>7

\* A version that is in the ledger stays in it.
LEMMA StaysInLedger ==
    ASSUME TypeOK, [Next]_vars, NEW x, InLedger(x)
    PROVE  InLedger(x)'
<1>1. PICK i \in 1..Len(ledger) : x = IdentityOf(ledger[i])
  BY DEF InLedger
<1>2. i \in 1..Len(ledger') /\ ledger'[i] = ledger[i]
  <2>1. CASE ledger' = ledger
    BY <2>1
  <2>2. ASSUME NEW e \in Entities, NEW r \in Nat \cup {ContentVersion}, NEW m \in Materials,
               ledger' = Append(ledger, NextVersion(e, r, m))
        PROVE  i \in 1..Len(ledger') /\ ledger'[i] = ledger[i]
    <3>1. ledger \in Seq(Version) /\ NextVersion(e, r, m) \in Version
      BY NextVersionType DEF TypeOK
    <3> QED BY <2>2, <3>1, Appended
  <2> QED BY <2>1, <2>2, LedgerStep DEF LedgerMoves
<1> QED BY <1>1, <1>2 DEF InLedger, IdentityOf, Dated

LEMMA HistoryStep == History /\ [Next]_vars => History'
<1> SUFFICES ASSUME History, [Next]_vars PROVE History'
  OBVIOUS
<1>1. TypeOK /\ TypeOK'
  BY TypeStep DEF History
<1>2. Past' /\ Chronicle' /\ Mentions'
  <2>1. CASE ledger' = ledger /\ clock <= clock'
    <3>1. clock \in Nat /\ clock' \in Nat
      BY <1>1, PeriodAssumption DEF TypeOK, Times
    <3>2. \A i \in 1..Len(ledger) : Dated(ledger[i]) \in Nat
      BY <1>1, DatedType, PeriodAssumption DEF TypeOK, Times
    <3>3. Past'
      BY <2>1, <3>1, <3>2 DEF History, Past, Dated
    <3> QED BY <2>1, <3>3 DEF History, Chronicle, Follows, Became, Dated, Mentions
  <2>2. ASSUME NEW e \in Entities, NEW r \in Nat \cup {ContentVersion}, NEW m \in Materials,
               ledger' = Append(ledger, NextVersion(e, r, m)), clock' = clock + 1,
               e \in Pdf => m.kind = "mention"
        PROVE  Past' /\ Chronicle' /\ Mentions'
    BY <2>2, AppendedHistory
  <2> QED BY <1>1, <2>1, <2>2, LedgerStep DEF LedgerMoves
<1>3. Sourced'
  <2>1. \A x : InLedger(x) => InLedger(x)'
    BY <1>1, StaysInLedger
  <2>2. ASSUME UNCHANGED <<files, freezing>> PROVE Sourced'
    BY <2>1, <2>2 DEF History, Sourced, files, freezing
  <2>3. ASSUME NEW f \in Freezers, Freeze(f) PROVE Sourced'
    <3>1. ASSUME NEW k \in Occurrences, NEW x \in Candidates(k) PROVE InLedger(x)
      <4>1. PICK i \in UNION {Latest(e) : e \in Entities} : x = IdentityOf(ledger[i])
        BY DEF Candidates
      <4>2. i \in 1..Len(ledger)
        BY DEF Latest, Shown, PublicRows, Rows
      <4> QED BY <4>1, <4>2 DEF InLedger
    <3>2. ASSUME NEW g \in Freezers PROVE \A x \in chosen'[g] : InLedger(x)'
      <4>1. CASE \E k \in Occurrences : BeginFreeze(f, k)
        BY <1>1, <2>1, <3>1, <4>1 DEF BeginFreeze, History, Sourced, TypeOK
      <4>2. CASE ReadAppeared(f)
        BY <1>1, <2>1, <4>2 DEF ReadAppeared, History, Sourced, TypeOK
      <4>3. CASE WriteSnapshot(f)
        BY <1>1, <2>1, <4>3 DEF WriteSnapshot, History, Sourced
      <4>4. CASE WriteState(f) \/ NewRevision(f) \/ Crash(f)
        BY <1>1, <2>1, <4>4 DEF WriteState, NewRevision, Crash, Exit, History, Sourced, TypeOK
      <4> QED BY <2>3, <4>1, <4>2, <4>3, <4>4 DEF Freeze
    <3>3. ASSUME NEW k \in Occurrences PROVE \A x \in snapshot'[k] : InLedger(x)'
      <4>1. CASE WriteSnapshot(f)
        BY <1>1, <2>1, <4>1 DEF WriteSnapshot, History, Sourced, TypeOK
      <4>2. CASE ~WriteSnapshot(f)
        <5>1. snapshot' = snapshot
          BY <2>3, <4>2 DEF Freeze, BeginFreeze, ReadAppeared, WriteState, NewRevision, Crash, files
        <5> QED BY <2>1, <5>1 DEF History, Sourced
      <4> QED BY <4>1, <4>2
    <3> QED BY <3>2, <3>3 DEF Sourced
  <2> QED BY <2>2, <2>3, RegistryOrFreeze
<1> QED BY <1>1, <1>2, <1>3 DEF History

LEMMA HistoryIsInvariant == Spec => []History
<1>1. Init => Past /\ Chronicle /\ Mentions /\ Sourced
  BY DEF Init, Past, Chronicle, Mentions, Sourced
<1>2. Init /\ TypeOK => History
  BY <1>1 DEF History
<1> QED BY <1>2, TypeCorrect, HistoryStep, PTL DEF Spec

\* Information is reported again under a later date only if the article's was
\* other information in the meantime, under a date between the two: repeated
\* evidence and repeated checks are no news (record_knowledge, _freeze_biweekly).
OtherInBetween ==
    \A j, k \in written :
        \A x \in snapshot[j], y \in snapshot[k] :
            /\ y.entity = x.entity
            /\ y.material = x.material
            /\ x.at < y.at
            => \E i \in Rows(x.entity) :
                  /\ ledger[i].material # x.material
                  /\ x.at < Dated(ledger[i]) /\ Dated(ledger[i]) < y.at

LEMMA HistoryTells == History => OtherInBetween
<1> SUFFICES ASSUME History,
                    NEW j \in written, NEW k \in written,
                    NEW x \in snapshot[j], NEW y \in snapshot[k],
                    y.entity = x.entity, y.material = x.material, x.at < y.at
             PROVE  \E n \in Rows(x.entity) :
                       /\ ledger[n].material # x.material
                       /\ x.at < Dated(ledger[n]) /\ Dated(ledger[n]) < y.at
  BY DEF OtherInBetween
<1>1. InLedger(x) /\ InLedger(y)
  BY DEF History, TypeOK, Sourced
<1>2. PICK a \in 1..Len(ledger) : x = IdentityOf(ledger[a])
  BY <1>1 DEF InLedger
<1>3. PICK b \in 1..Len(ledger) : y = IdentityOf(ledger[b])
  BY <1>1 DEF InLedger
<1>4. /\ x.entity = ledger[a].entity /\ x.material = ledger[a].material /\ x.at = Dated(ledger[a])
      /\ y.entity = ledger[b].entity /\ y.material = ledger[b].material /\ y.at = Dated(ledger[b])
  BY <1>2, <1>3 DEF IdentityOf
<1>5. PICK n \in 1..Len(ledger) :
        /\ ledger[n].entity = ledger[a].entity
        /\ ledger[n].material # ledger[a].material
        /\ Dated(ledger[a]) < Dated(ledger[n])
        /\ Dated(ledger[n]) <= Dated(ledger[b])
  BY <1>4 DEF History, Chronicle, Follows, Became
<1>6. Dated(ledger[n]) # Dated(ledger[b])
  BY <1>4, <1>5 DEF History, Chronicle, Follows
<1>7. Dated(ledger[n]) \in Nat /\ Dated(ledger[b]) \in Nat
  BY DatedType, PeriodAssumption DEF History, TypeOK, Times
<1>8. Dated(ledger[n]) < Dated(ledger[b])
  BY <1>5, <1>6, <1>7
<1>9. n \in Rows(x.entity)
  BY <1>4, <1>5 DEF Rows
<1> QED BY <1>4, <1>5, <1>8, <1>9

\* No website article or PDF article is reported again for repeated evidence.
THEOREM ReportedAgainOnlyWhenOther == Spec => []OtherInBetween
BY HistoryIsInvariant, HistoryTells, PTL

\* An article of the PDFs is reported again only if its text was a different one
\* in the meantime.
THEOREM PdfNews == Spec => []PdfReportedAnew
<1>1. History => PdfReportedAnew
  <2> SUFFICES ASSUME History,
                      NEW j \in written, NEW k \in written,
                      NEW x \in snapshot[j], NEW y \in snapshot[k],
                      x.entity \in Pdf, y.entity = x.entity, y.material = x.material, x.at < y.at
               PROVE  \E v \in {ledger[i] : i \in Rows(x.entity)} :
                         /\ v.material.kind = x.material.kind
                         /\ v.material.text # x.material.text
                         /\ x.at < Dated(v) /\ Dated(v) < y.at
    BY DEF PdfReportedAnew, ReportedAnew
  <2>1. PICK n \in Rows(x.entity) :
          /\ ledger[n].material # x.material
          /\ x.at < Dated(ledger[n]) /\ Dated(ledger[n]) < y.at
    BY HistoryTells DEF OtherInBetween
  <2>2. PICK a \in 1..Len(ledger) : x = IdentityOf(ledger[a])
    BY DEF History, TypeOK, Sourced, InLedger
  <2>3. /\ ledger[a].entity = x.entity /\ ledger[a].material = x.material
        /\ ledger[n].entity = x.entity /\ n \in 1..Len(ledger)
    BY <2>2 DEF IdentityOf, Rows
  <2>4. ledger[n].material.kind = "mention" /\ x.material.kind = "mention"
    BY <2>3 DEF History, Mentions
  <2>5. ledger[n].material \in Materials /\ x.material \in Materials
    <3>1. ledger[n] \in Version /\ ledger[a] \in Version
      BY <2>3 DEF History, TypeOK
    <3>2. \A v \in Version : v.material \in Materials
      BY DEF Version
    <3> QED BY <2>3, <3>1, <3>2
  <2>6. ledger[n].material.text # x.material.text
    BY <2>1, <2>4, <2>5 DEF Materials
  <2> QED BY <2>1, <2>4, <2>6
<1> QED BY <1>1, HistoryIsInvariant, PTL
=============================================================================
