------------------------- MODULE MailDeliveryProofs -------------------------
(***************************************************************************)
(* The safety of MailDelivery for any number of senders, recipients,       *)
(* payloads, crashes and failures, and its refinement of MailPromise.      *)
(***************************************************************************)
EXTENDS MailDelivery, SequenceTheorems, TLAPS

\* A sender between Acquire and Unlock owns the lock file.
Exclusion ==
    /\ \A s \in Senders : pc[s] # "idle" => lockFile
    /\ OneOwner

\* A record of the state file agrees with what the provider accepted.
Agrees(state) ==
    \A r \in Recipients :
        /\ state.status[r] = "sent" => inbox[r] = <<state.payload>>
        /\ state.status[r] \in {"pending", "failed"} => inbox[r] = <<>>
        /\ state.status[r] \in {"sending", "unknown"} => inbox[r] \in {<<>>, <<state.payload>>}

\* Recipients are worked on in configuration order.
Ordered(state) ==
    \A r \in Recipients : state.status[r] # "pending" =>
        \A q \in 1..(r - 1) : state.status[q] = "sent"

DiskInv ==
    IF disk = NoState
    THEN \A r \in Recipients : inbox[r] = <<>>
    ELSE Agrees(disk) /\ Ordered(disk)

\* What a sender knows at each place of deliver().
Fresh(s) == mem[s] = InitialState(call[s])

SenderInv(s) ==
    /\ pc[s] = "load" => call[s] \in Payloads
    /\ pc[s] = "loop" =>
        /\ mem[s] \in DeliveryState
        /\ mem[s].payload = call[s]
        /\ ~Ambiguous(mem[s])
        /\ disk = mem[s] \/ (disk = NoState /\ Fresh(s))
    /\ pc[s] \in InFlight =>
        /\ mem[s] \in DeliveryState
        /\ mem[s].payload = call[s]
        /\ disk = mem[s]
        /\ mem[s].status[cur[s]] = "sending"
        /\ pc[s] \in {"smtp", "failed"} => inbox[cur[s]] = <<>>
        /\ pc[s] = "sent" => inbox[cur[s]] = <<mem[s].payload>>

IInv ==
    /\ TypeOK
    /\ Exclusion
    /\ DiskInv
    /\ \A s \in Senders : SenderInv(s)
-----------------------------------------------------------------------------
\* The definitions every step of the induction looks through.
USE DEF Recipients, Status, Phases, InFlight, Recording, OneOwner

\* A state file that nobody was sent from is a delivery state.
LEMMA InitialStateType ==
    ASSUME NEW p \in Payloads
    PROVE  /\ InitialState(p) \in DeliveryState
           /\ ~Ambiguous(InitialState(p))
BY DEF InitialState, DeliveryState, Ambiguous

\* Setting one recipient's status keeps a delivery state one.
LEMMA WithStatusType ==
    ASSUME NEW state \in DeliveryState, NEW r \in Recipients, NEW st \in Status
    PROVE  /\ WithStatus(state, r, st) \in DeliveryState
           /\ WithStatus(state, r, st).payload = state.payload
           /\ WithStatus(state, r, st).status = [state.status EXCEPT ![r] = st]
BY DEF WithStatus, DeliveryState

\* Nothing has been accepted, written or locked at the start.
LEMMA InitIInv == Init => IInv
<1> SUFFICES ASSUME Init PROVE IInv
  OBVIOUS
<1>1. 1 \in Recipients /\ 0 \in 0..MaxCrashes /\ 0 \in 0..MaxFailures
  BY NRecipientsAssumption, BoundsAssumption
<1>2. inbox \in [Recipients -> Seq(Payloads)]
  BY EmptySeq DEF Init
<1>3. TypeOK
  BY <1>1, <1>2 DEF Init, TypeOK
<1> QED BY <1>3 DEF Init, IInv, Exclusion, DiskInv, SenderInv

\* A call that finds no lock file starts fresh and alone.
LEMMA AcquireStep ==
    ASSUME IInv, NEW s \in Senders, NEW p \in Payloads, Acquire(s, p)
    PROVE  IInv'
<1>1. TypeOK'
  BY InitialStateType DEF IInv, TypeOK, Acquire
<1>2. Exclusion'
  BY DEF IInv, TypeOK, Exclusion, Acquire
<1>3. DiskInv'
  BY DEF IInv, DiskInv, Acquire, Agrees, Ordered
<1>4. \A t \in Senders : SenderInv(t)'
  BY DEF IInv, TypeOK, Exclusion, SenderInv, Acquire, Fresh
<1> QED BY <1>1, <1>2, <1>3, <1>4 DEF IInv

\* Loading either refuses or takes over a state file without ambiguity.
LEMMA LoadStep ==
    ASSUME IInv, NEW s \in Senders, Load(s)
    PROVE  IInv'
<1>0. call[s] \in Payloads /\ InitialState(call[s]) \in DeliveryState
  BY InitialStateType DEF IInv, SenderInv, Load
<1>1. TypeOK'
  BY <1>0 DEF IInv, TypeOK, Load
<1>2. Exclusion'
  BY DEF IInv, TypeOK, Exclusion, Load
<1>3. DiskInv'
  BY DEF IInv, DiskInv, Load, Agrees, Ordered
<1>4. ASSUME NEW t \in Senders PROVE SenderInv(t)'
  <2>1. CASE t # s
    BY <2>1, <1>2 DEF IInv, TypeOK, Exclusion, SenderInv, Load, Fresh
  <2>2. CASE t = s
    <3>1. InitialState(call[s]).payload = call[s] /\ ~Ambiguous(InitialState(call[s]))
      BY <1>0, InitialStateType DEF InitialState
    <3> QED BY <2>2, <3>1, <1>0
            DEF IInv, TypeOK, SenderInv, Load, Fresh, Refuses
  <2> QED BY <2>1, <2>2
<1> QED BY <1>1, <1>2, <1>3, <1>4 DEF IInv
\* While a sender owns the lock, the others are idle and their part of the
\* invariant holds of any later disk and inbox.
LEMMA OthersIdle ==
    ASSUME IInv, NEW s \in Senders, pc[s] # "idle", NEW t \in Senders, t # s,
           pc'[t] = pc[t]
    PROVE  pc'[t] = "idle" /\ SenderInv(t)'
BY DEF IInv, Exclusion, SenderInv

\* What a persist leaves behind, whether or not the storage fails.
LEMMA PersistEffect ==
    ASSUME TypeOK, NEW s \in Senders, NEW new \in DeliveryState,
           NEW onward \in Phases, Persist(s, new, onward)
    PROVE  /\ mem' \in [Senders -> DeliveryState \cup {NoState}] /\ mem'[s] = new
           /\ disk' \in {disk, new} /\ disk' \in DeliveryState \cup {NoState}
           /\ pc' \in [Senders -> Phases]
           /\ pc'[s] \in {onward, "unlock"}
           /\ pc'[s] = "unlock" \/ disk' = new
           /\ \A t \in Senders : t # s => pc'[t] = pc[t]
           /\ failures' \in 0..MaxFailures
<1>1. CASE /\ failures < MaxFailures
           /\ failures' = failures + 1
           /\ disk' \in {disk, new}
           /\ pc' = [pc EXCEPT ![s] = "unlock"]
  <2>1. failures' \in 0..MaxFailures
    BY <1>1, BoundsAssumption DEF TypeOK
  <2> QED BY <1>1, <2>1 DEF Persist, TypeOK
<1>2. CASE /\ disk' = new
           /\ pc' = [pc EXCEPT ![s] = onward]
           /\ UNCHANGED failures
  BY <1>2 DEF Persist, TypeOK
<1> QED BY <1>1, <1>2 DEF Persist

\* Persisting "sending" before the SMTP attempt marks the recipient in order.
LEMMA StartRecipientStep ==
    ASSUME IInv, NEW s \in Senders, StartRecipient(s)
    PROVE  IInv'
<1>1. PICK r \in Recipients :
        /\ IsNext(mem[s], r)
        /\ cur' = [cur EXCEPT ![s] = r]
        /\ Persist(s, WithStatus(mem[s], r, "sending"), "smtp")
  BY DEF StartRecipient
<1> DEFINE new == WithStatus(mem[s], r, "sending")
<1>2. /\ mem[s] \in DeliveryState
      /\ mem[s].payload = call[s]
      /\ ~Ambiguous(mem[s])
      /\ disk = mem[s] \/ (disk = NoState /\ Fresh(s))
  BY DEF IInv, SenderInv, StartRecipient
<1>3. /\ new \in DeliveryState
      /\ new.payload = mem[s].payload
      /\ new.status = [mem[s].status EXCEPT ![r] = "sending"]
  BY <1>2, WithStatusType
<1> HIDE DEF new
<1>4. mem[s].status \in [Recipients -> Status] /\ mem[s].payload \in Payloads
  BY <1>2 DEF DeliveryState
<1>5. Agrees(mem[s]) /\ Ordered(mem[s])
  <2>1. CASE disk = mem[s]
    BY <2>1, <1>2, NoStateAssumption DEF IInv, DiskInv
  <2>2. CASE disk = NoState /\ Fresh(s)
    BY <2>2 DEF IInv, DiskInv, Agrees, Ordered, Fresh, InitialState
  <2> QED BY <1>2, <2>1, <2>2
<1>6. mem[s].status[r] \in {"pending", "failed"}
  BY <1>1, <1>2, <1>4 DEF IsNext, Ambiguous
<1>7. inbox[r] = <<>>
  BY <1>5, <1>6 DEF Agrees
<1>8. Agrees(new) /\ Ordered(new)
  BY <1>1, <1>3, <1>4, <1>5, <1>7 DEF Agrees, Ordered, IsNext
<1>9. Persist(s, new, "smtp") /\ UNCHANGED <<lockFile, call, inbox, crashes>>
  BY <1>1 DEF new, StartRecipient
<1>10. pc[s] # "idle"
  BY DEF StartRecipient
<1>e. /\ mem' \in [Senders -> DeliveryState \cup {NoState}] /\ mem'[s] = new
      /\ disk' \in {disk, new} /\ disk' \in DeliveryState \cup {NoState}
      /\ pc' \in [Senders -> Phases]
      /\ pc'[s] \in {"smtp", "unlock"}
      /\ pc'[s] = "unlock" \/ disk' = new
      /\ \A t \in Senders : t # s => pc'[t] = pc[t]
      /\ failures' \in 0..MaxFailures
  BY <1>3, <1>9, PersistEffect DEF IInv
<1>11. TypeOK'
  BY <1>1, <1>9, <1>e DEF IInv, TypeOK
<1>12. Exclusion'
  BY <1>9, <1>e, <1>10 DEF IInv, Exclusion
<1>13. DiskInv'
  <2>1. inbox' = inbox
    BY <1>9
  <2>2. CASE disk' = disk
    BY <2>1, <2>2 DEF IInv, DiskInv, Agrees, Ordered
  <2>3. CASE disk' = new
    BY <2>1, <2>3, <1>3, <1>8, NoStateAssumption DEF DiskInv, Agrees, Ordered
  <2> QED BY <1>e, <2>2, <2>3
<1>14. ASSUME NEW t \in Senders PROVE SenderInv(t)'
  <2>1. CASE t # s
    BY <2>1, <1>e, <1>10, OthersIdle
  <2>2. CASE t = s
    <3>1. mem'[s] = new /\ cur'[s] = r /\ inbox'[r] = <<>>
      BY <1>1, <1>7, <1>9, <1>e DEF IInv, TypeOK
    <3>2. new.status[r] = "sending"
      BY <1>3, <1>4
    <3> QED BY <2>2, <3>1, <3>2, <1>2, <1>3, <1>9, <1>e DEF SenderInv
  <2> QED BY <2>1, <2>2
<1> QED BY <1>11, <1>12, <1>13, <1>14 DEF IInv
\* An SMTP attempt delivers at most the message of the recipient in hand.
LEMMA SmtpSendStep ==
    ASSUME IInv, NEW s \in Senders, SmtpSend(s)
    PROVE  IInv'
<1> DEFINE r == cur[s]
<1>1. /\ r \in Recipients
      /\ mem[s] \in DeliveryState
      /\ mem[s].payload \in Payloads
      /\ mem[s].payload = call[s]
      /\ disk = mem[s] /\ disk # NoState
      /\ disk.status[r] = "sending"
      /\ inbox[r] = <<>>
      /\ pc[s] # "idle"
  BY NoStateAssumption DEF IInv, TypeOK, SenderInv, SmtpSend, DeliveryState
<1>2. /\ pc' \in [Senders -> Phases]
      /\ pc'[s] \in Recording
      /\ \A t \in Senders : t # s => pc'[t] = pc[t]
      /\ UNCHANGED <<lockFile, disk, call, mem, cur, crashes>>
  BY DEF SmtpSend, Accepted, Refused, LostUnaccepted, IInv, TypeOK
<1>3. \/ inbox' = inbox /\ pc'[s] \in {"failed", "unknown"}
      \/ /\ inbox' = [inbox EXCEPT ![r] = <<mem[s].payload>>]
         /\ pc'[s] \in {"sent", "unknown"}
  <2>1. Append(<<>>, mem[s].payload) = <<mem[s].payload>>
    BY <1>1
  <2> QED BY <1>1, <2>1 DEF SmtpSend, Accepted, Refused, LostUnaccepted, IInv, TypeOK
<1>4. TypeOK'
  <2>1. failures' \in 0..MaxFailures
    BY BoundsAssumption DEF SmtpSend, Accepted, Refused, LostUnaccepted, IInv, TypeOK
  <2>2. inbox' \in [Recipients -> Seq(Payloads)]
    <3>1. <<mem[s].payload>> \in Seq(Payloads)
      BY <1>1
    <3> HIDE DEF r
    <3> QED BY <1>1, <1>3, <3>1 DEF IInv, TypeOK
  <2> QED BY <1>2, <2>1, <2>2 DEF IInv, TypeOK
<1>5. Exclusion'
  BY <1>1, <1>2 DEF IInv, Exclusion
<1>6. DiskInv'
  <2>1. Agrees(disk) /\ Ordered(disk)
    BY <1>1 DEF IInv, DiskInv
  <2>2. Agrees(disk)'
    <3>1. ASSUME NEW q \in Recipients, q # r PROVE inbox'[q] = inbox[q]
      BY <1>3, <3>1 DEF IInv, TypeOK
    <3>2. inbox'[r] \in {<<>>, <<disk.payload>>}
      BY <1>1, <1>3 DEF IInv, TypeOK
    <3> QED BY <2>1, <3>1, <3>2, <1>1, <1>2 DEF Agrees
  <2>3. Ordered(disk)'
    BY <2>1, <1>2 DEF Ordered
  <2> QED BY <1>1, <1>2, <2>2, <2>3 DEF DiskInv
<1>7. ASSUME NEW t \in Senders PROVE SenderInv(t)'
  <2>1. CASE t # s
    BY <2>1, <1>1, <1>2, OthersIdle
  <2>2. CASE t = s
    BY <2>2, <1>1, <1>2, <1>3 DEF SenderInv, IInv, TypeOK
  <2> QED BY <2>1, <2>2
<1> QED BY <1>4, <1>5, <1>6, <1>7 DEF IInv

\* Recording the outcome keeps the file truthful and in order.
LEMMA RecordStep ==
    ASSUME IInv, NEW s \in Senders, Record(s)
    PROVE  IInv'
<1> DEFINE r == cur[s]
           new == WithStatus(mem[s], r, pc[s])
           onward == IF pc[s] = "sent" THEN "loop" ELSE "unlock"
<1>1. /\ r \in Recipients
      /\ mem[s] \in DeliveryState
      /\ mem[s].payload = call[s]
      /\ disk = mem[s] /\ disk # NoState
      /\ disk.status[r] = "sending"
      /\ pc[s] \in Recording
      /\ pc[s] = "failed" => inbox[r] = <<>>
      /\ pc[s] = "sent" => inbox[r] = <<mem[s].payload>>
  BY NoStateAssumption DEF IInv, TypeOK, SenderInv, Record
<1>2. /\ new \in DeliveryState
      /\ new.payload = mem[s].payload
      /\ new.status = [mem[s].status EXCEPT ![r] = pc[s]]
      /\ mem[s].status \in [Recipients -> Status]
  <2>1. pc[s] \in Status
    BY <1>1
  <2>2. mem[s].status \in [Recipients -> Status]
    BY <1>1 DEF DeliveryState
  <2>3. mem[s] \in DeliveryState /\ r \in Recipients
    BY <1>1
  <2> HIDE DEF r, Status
  <2> QED BY <2>1, <2>2, <2>3, WithStatusType DEF new
<1>3. Persist(s, new, onward) /\ onward \in Phases
      /\ UNCHANGED <<lockFile, call, cur, inbox, crashes>>
  BY DEF Record
<1>4. Agrees(disk) /\ Ordered(disk)
  BY <1>1 DEF IInv, DiskInv
<1> HIDE DEF new, onward
<1>5. Agrees(new)
  BY <1>1, <1>2, <1>4 DEF Agrees
<1>6. Ordered(new)
  BY <1>1, <1>2, <1>4 DEF Ordered
<1>7. /\ mem' \in [Senders -> DeliveryState \cup {NoState}] /\ mem'[s] = new
      /\ disk' \in {disk, new} /\ disk' \in DeliveryState \cup {NoState}
      /\ pc' \in [Senders -> Phases]
      /\ pc'[s] \in {onward, "unlock"}
      /\ pc'[s] = "unlock" \/ disk' = new
      /\ \A t \in Senders : t # s => pc'[t] = pc[t]
      /\ failures' \in 0..MaxFailures
  BY <1>2, <1>3, PersistEffect DEF IInv
<1>8. TypeOK'
  BY <1>3, <1>7 DEF IInv, TypeOK
<1>9. Exclusion'
  BY <1>1, <1>3, <1>7 DEF IInv, Exclusion
<1>10. DiskInv'
  <2>1. CASE disk' = disk
    BY <2>1, <1>1, <1>3, <1>4 DEF DiskInv, Agrees, Ordered
  <2>2. CASE disk' = new
    BY <2>2, <1>2, <1>3, <1>5, <1>6, NoStateAssumption DEF DiskInv, Agrees, Ordered
  <2> QED BY <1>7, <2>1, <2>2
<1>11. ASSUME NEW t \in Senders PROVE SenderInv(t)'
  <2>1. CASE t # s
    BY <2>1, <1>1, <1>7, OthersIdle
  <2>2. CASE t = s /\ pc'[s] = "unlock"
    BY <2>2 DEF SenderInv
  <2>3. CASE t = s /\ pc'[s] # "unlock"
    <3>1. pc[s] = "sent" /\ pc'[s] = "loop"
      BY <2>3, <1>7 DEF onward
    <3>2. ~Ambiguous(new)
      <4>1. \A q \in Recipients : q < r => disk.status[q] = "sent"
        BY <1>1, <1>4 DEF Ordered
      <4>2. \A q \in Recipients : q > r => disk.status[q] = "pending"
        BY <1>1, <1>2, <1>4 DEF Ordered
      <4>3. ASSUME NEW q \in Recipients
            PROVE  new.status[q] \in {"sent", "pending"}
        <5>1. q < r \/ q = r \/ q > r
          BY <1>1
        <5>2. CASE q = r
          BY <5>2, <3>1, <1>2
        <5>3. CASE q # r
          BY <5>1, <5>3, <4>1, <4>2, <1>1, <1>2
        <5> QED BY <5>2, <5>3
      <4> QED BY <4>3 DEF Ambiguous
    <3> QED BY <2>3, <3>1, <3>2, <1>1, <1>2, <1>3, <1>7 DEF SenderInv
  <2> QED BY <2>1, <2>2, <2>3
<1> QED BY <1>8, <1>9, <1>10, <1>11 DEF IInv
\* Ending the loop writes nothing.
LEMMA FinishStep ==
    ASSUME IInv, NEW s \in Senders, Finish(s)
    PROVE  IInv'
<1>1. TypeOK' /\ Exclusion' /\ DiskInv'
  BY DEF IInv, TypeOK, Exclusion, DiskInv, Agrees, Ordered, Finish
<1>2. ASSUME NEW t \in Senders PROVE SenderInv(t)'
  BY DEF IInv, TypeOK, SenderInv, Fresh, Finish
<1> QED BY <1>1, <1>2 DEF IInv

\* A sender that leaves forgets its copy; nobody else was running.
LEMMA LeaveEffect ==
    ASSUME IInv, NEW s \in Senders, pc[s] # "idle", Leave(s), UNCHANGED <<disk, inbox>>
    PROVE  /\ pc' \in [Senders -> Phases]
           /\ call' \in [Senders -> Payloads \cup {NoState}]
           /\ mem' \in [Senders -> DeliveryState \cup {NoState}]
           /\ cur' \in [Senders -> Recipients]
           /\ \A t \in Senders : pc'[t] = "idle"
           /\ DiskInv'
           /\ \A t \in Senders : SenderInv(t)'
<1>1. 1 \in Recipients
  BY NRecipientsAssumption
<1>2. \A t \in Senders : pc'[t] = "idle"
  BY DEF IInv, TypeOK, Exclusion, Leave
<1>3. DiskInv'
  BY DEF IInv, DiskInv, Agrees, Ordered
<1>4. \A t \in Senders : SenderInv(t)'
  BY <1>2 DEF SenderInv
<1> QED BY <1>1, <1>2, <1>3, <1>4 DEF IInv, TypeOK, Leave

LEMMA UnlockStep ==
    ASSUME IInv, NEW s \in Senders, Unlock(s)
    PROVE  IInv'
<1>1. pc[s] # "idle" /\ Leave(s) /\ UNCHANGED <<disk, inbox, crashes, failures>>
  BY DEF Unlock
<1>2. TypeOK' /\ Exclusion'
  BY <1>1, LeaveEffect DEF IInv, TypeOK, Exclusion, Unlock
<1> QED BY <1>1, <1>2, LeaveEffect DEF IInv

LEMMA CrashStep ==
    ASSUME IInv, NEW s \in Senders, Crash(s)
    PROVE  IInv'
<1>1. pc[s] # "idle" /\ Leave(s) /\ UNCHANGED <<lockFile, disk, inbox, failures>>
  BY DEF Crash
<1>2. crashes' \in 0..MaxCrashes
  BY BoundsAssumption DEF IInv, TypeOK, Crash
<1>3. TypeOK' /\ Exclusion'
  BY <1>1, <1>2, LeaveEffect DEF IInv, TypeOK, Exclusion
<1> QED BY <1>1, <1>3, LeaveEffect DEF IInv

LEMMA ClearStaleLockStep ==
    ASSUME IInv, ClearStaleLock
    PROVE  IInv'
<1>1. TypeOK' /\ Exclusion' /\ DiskInv'
  BY DEF IInv, TypeOK, Exclusion, DiskInv, Agrees, Ordered, ClearStaleLock
<1>2. ASSUME NEW t \in Senders PROVE SenderInv(t)'
  BY DEF IInv, SenderInv, ClearStaleLock
<1> QED BY <1>1, <1>2 DEF IInv

LEMMA StutterStep ==
    ASSUME IInv, UNCHANGED vars
    PROVE  IInv'
<1>1. TypeOK' /\ Exclusion' /\ DiskInv'
  BY DEF IInv, TypeOK, Exclusion, DiskInv, Agrees, Ordered, vars
<1>2. ASSUME NEW t \in Senders PROVE SenderInv(t)'
  BY DEF IInv, SenderInv, Fresh, vars
<1> QED BY <1>1, <1>2 DEF IInv

LEMMA NextIInv == IInv /\ [Next]_vars => IInv'
<1> SUFFICES ASSUME IInv, [Next]_vars PROVE IInv'
  OBVIOUS
<1>1. CASE \E s \in Senders, p \in Payloads : Acquire(s, p)
  BY <1>1, AcquireStep
<1>2. CASE \E s \in Senders : Step(s)
  BY <1>2, LoadStep, StartRecipientStep, SmtpSendStep, RecordStep, FinishStep, UnlockStep
     DEF Step
<1>3. CASE \E s \in Senders : Crash(s)
  BY <1>3, CrashStep
<1>4. CASE ClearStaleLock
  BY <1>4, ClearStaleLockStep
<1>5. CASE UNCHANGED vars
  BY <1>5, StutterStep
<1> QED BY <1>1, <1>2, <1>3, <1>4, <1>5 DEF Next

\* The inductive invariant holds of every behaviour of deliver().
THEOREM Invariance == Spec => []IInv
BY InitIInv, NextIInv, PTL DEF Spec

-----------------------------------------------------------------------------
\* deliver() keeps its files and program counters well typed.
THEOREM TypeCorrect == Spec => []TypeOK
<1>1. IInv => TypeOK
  BY DEF IInv
<1> QED BY <1>1, Invariance, PTL

\* No two calls of deliver() for one report run between lock and unlock.
THEOREM SingleOwner == Spec => []OneOwner
<1>1. IInv => OneOwner
  BY DEF IInv, Exclusion
<1> QED BY <1>1, Invariance, PTL

\* Every inbox holds nothing or the one message the state file is bound to.
LEMMA InboxContents ==
    ASSUME IInv, NEW r \in Recipients
    PROVE  /\ inbox[r] = <<>> \/ (disk # NoState /\ inbox[r] = <<disk.payload>>)
           /\ disk # NoState => disk.status[r] \in Status
BY NoStateAssumption DEF IInv, TypeOK, DiskInv, Agrees, DeliveryState

\* No recipient is mailed the report twice.
THEOREM NoDuplicateMail == Spec => []AtMostOnce
<1>1. IInv => AtMostOnce
  <2> SUFFICES ASSUME IInv, NEW r \in Recipients PROVE Len(inbox[r]) <= 1
    BY DEF AtMostOnce
  <2>1. CASE inbox[r] = <<>>
    BY <2>1
  <2>2. CASE disk # NoState /\ inbox[r] = <<disk.payload>>
    BY <2>2
  <2> QED BY <2>1, <2>2, InboxContents
<1> QED BY <1>1, Invariance, PTL

\* All recipients of a delivery receive the same payload.
THEOREM SamePayload == Spec => []OnePayload
<1>1. IInv => OnePayload
  BY InboxContents DEF OnePayload
<1> QED BY <1>1, Invariance, PTL

\* The state file never claims a send that did not happen nor denies one.
THEOREM TruthfulState == Spec => []StateIsTruthful
<1>1. IInv => StateIsTruthful
  <2> SUFFICES ASSUME IInv, disk # NoState, NEW r \in Recipients
               PROVE  /\ disk.status[r] = "sent" => inbox[r] # <<>>
                      /\ disk.status[r] \in {"pending", "failed"} => inbox[r] = <<>>
    BY DEF StateIsTruthful
  <2>1. <<disk.payload>> # <<>>
    OBVIOUS
  <2> QED BY <2>1 DEF IInv, DiskInv, Agrees
<1> QED BY <1>1, Invariance, PTL
-----------------------------------------------------------------------------
\* Given up, no sender is past its check of the state file, so none writes.
LEMMA GivenUpStands ==
    ASSUME IInv, GivenUp, [Next]_vars
    PROVE  GivenUp' /\ UNCHANGED <<disk, inbox>>
<1>1. disk # NoState /\ Ambiguous(disk) /\ \A s \in Senders : pc[s] \notin InFlight
  BY DEF GivenUp, NobodyInFlight
<1>2. \A s \in Senders : pc[s] # "loop"
  BY <1>1 DEF IInv, SenderInv
<1>3. /\ UNCHANGED <<disk, inbox>>
      /\ \A s \in Senders : pc'[s] = pc[s] \/ pc'[s] \in {"idle", "load", "unlock"}
  <2>1. CASE \E s \in Senders, p \in Payloads : Acquire(s, p)
    BY <2>1 DEF Acquire, IInv, TypeOK
  <2>2. ASSUME NEW s \in Senders, Step(s)
        PROVE  /\ UNCHANGED <<disk, inbox>>
               /\ \A t \in Senders : pc'[t] = pc[t] \/ pc'[t] \in {"idle", "load", "unlock"}
    <3>1. Load(s) \/ Unlock(s)
      BY <2>2, <1>1, <1>2 DEF Step, StartRecipient, SmtpSend, Record, Finish
    <3>2. CASE Load(s)
      <4>1. Refuses(s)
        BY <1>1 DEF Refuses
      <4> QED BY <3>2, <4>1 DEF Load, IInv, TypeOK
    <3>3. CASE Unlock(s)
      BY <3>3 DEF Unlock, Leave, IInv, TypeOK
    <3> QED BY <3>1, <3>2, <3>3
  <2>3. CASE \E s \in Senders : Crash(s)
    BY <2>3 DEF Crash, Leave, IInv, TypeOK
  <2>4. CASE ClearStaleLock \/ UNCHANGED vars
    BY <2>4 DEF ClearStaleLock, vars
  <2> QED BY <2>1, <2>2, <2>3, <2>4 DEF Next
<1> QED BY <1>1, <1>3 DEF GivenUp, NobodyInFlight, Ambiguous

\* An ambiguous delivery stands still until an operator reconciles it.
THEOREM FailingClosed == Spec => FailsClosed
<1>1. IInv /\ [Next]_vars => [GivenUp => UNCHANGED <<disk, inbox>>]_vars
  BY GivenUpStands
<1> QED BY <1>1, Invariance, PTL DEF Spec, FailsClosed

\* GivenUp is a truth value, so it is FALSE where it does not hold.
LEMMA NotGivenUp == (~GivenUp => GivenUp = FALSE) /\ (~GivenUp' => GivenUp' = FALSE)
BY DEF GivenUp

\* Only an SMTP attempt reaches an inbox, in order and with the bound payload.
LEMMA AttemptRefines ==
    ASSUME IInv, NEW s \in Senders, SmtpSend(s)
    PROVE  [Promise!Next]_(Promise!promiseVars)
<1> DEFINE r == cur[s]
<1>1. /\ r \in Recipients
      /\ mem[s] \in DeliveryState
      /\ mem[s].payload \in Payloads
      /\ mem[s].payload = call[s]
      /\ disk = mem[s] /\ disk # NoState
      /\ disk.status[r] = "sending"
      /\ inbox[r] = <<>>
  BY NoStateAssumption DEF IInv, TypeOK, SenderInv, SmtpSend, DeliveryState
<1>2. ~GivenUp /\ ~GivenUp'
  BY DEF GivenUp, NobodyInFlight, SmtpSend, Accepted, Refused, LostUnaccepted, IInv, TypeOK
<1>3. CASE UNCHANGED inbox
  BY <1>2, <1>3, NotGivenUp DEF Promise!promiseVars
<1>4. CASE inbox' = [inbox EXCEPT ![r] = Append(@, call[s])]
  <2>1. \A q \in 1..(r - 1) : inbox[q] = <<mem[s].payload>>
    <3>1. Agrees(disk) /\ Ordered(disk)
      BY <1>1 DEF IInv, DiskInv
    <3>2. ASSUME NEW q \in 1..(r - 1) PROVE inbox[q] = <<mem[s].payload>>
      <4>1. q \in Recipients
        BY <1>1, NRecipientsAssumption
      <4>2. disk.status[q] = "sent"
        BY <1>1, <3>1 DEF Ordered
      <4> QED BY <1>1, <3>1, <4>1, <4>2 DEF Agrees
    <3> QED BY <3>2
  <2>2. inbox' = [inbox EXCEPT ![r] = <<mem[s].payload>>]
    BY <1>1, <1>4 DEF IInv, TypeOK
  <2>3. Promise!Accept(r, mem[s].payload)
    BY <1>1, <1>2, <2>1, <2>2, NotGivenUp DEF Promise!Accept
  <2> QED BY <1>1, <2>3 DEF Promise!Next, Promise!Recipients
<1> QED BY <1>3, <1>4 DEF SmtpSend, Accepted, Refused, LostUnaccepted

LEMMA StepRefines ==
    ASSUME IInv, [Next]_vars
    PROVE  [Promise!Next]_(Promise!promiseVars)
<1>1. CASE GivenUp
  <2>1. GivenUp' /\ UNCHANGED <<disk, inbox>>
    BY <1>1, GivenUpStands
  <2> QED BY <1>1, <2>1 DEF Promise!promiseVars, GivenUp, NobodyInFlight, Ambiguous
<1>2. CASE ~GivenUp /\ UNCHANGED inbox
  <2>1. CASE GivenUp'
    BY <1>2, <2>1 DEF Promise!Next, Promise!Close
  <2>2. CASE ~GivenUp'
    BY <1>2, <2>2, NotGivenUp DEF Promise!promiseVars
  <2> QED BY <2>1, <2>2
<1>3. CASE inbox' # inbox
  <2>1. PICK s \in Senders : SmtpSend(s)
    BY <1>3 DEF Next, Step, vars, Acquire, Load, StartRecipient, Record, Finish, Unlock,
                Crash, ClearStaleLock
  <2> QED BY <2>1, AttemptRefines
<1> QED BY <1>1, <1>2, <1>3

\* deliver() implements MailPromise.
THEOREM Refinement == Spec => KeepsPromise
<1>1. Init => Promise!Init
  BY DEF Init, Promise!Init, Promise!Recipients, GivenUp
<1>2. IInv /\ [Next]_vars => [Promise!Next]_(Promise!promiseVars)
  BY StepRefines
<1> QED BY <1>1, <1>2, Invariance, PTL DEF Spec, KeepsPromise, Promise!Spec
=============================================================================
