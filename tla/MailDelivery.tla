---------------------------- MODULE MailDelivery ----------------------------
(***************************************************************************)
(* deliver() of climate_delivery/delivery.py for one report digest: the    *)
(* O_EXCL lock file of io.exclusive_lock, the per-recipient state file     *)
(* <digest>.json replaced atomically around every SMTP attempt, and the    *)
(* retries of later calls.  A hard crash may come between any two steps;   *)
(* it loses the process's memory and leaves the lock file behind.          *)
(***************************************************************************)
EXTENDS Naturals, Sequences

CONSTANTS
    Senders,        \* processes that may call deliver()
    NRecipients,    \* config.recipients, numbered in configuration order
    Payloads,       \* bindings a call can carry: summary, PDF, config, message
    NoState,        \* the state file does not exist, or a sender holds no copy
    MaxCrashes,     \* bound on hard crashes
    MaxFailures     \* bound on refusals and on storage errors

ASSUME NRecipientsAssumption == NRecipients \in Nat \ {0}
ASSUME BoundsAssumption == MaxCrashes \in Nat /\ MaxFailures \in Nat

Recipients == 1..NRecipients
Status == {"pending", "sending", "sent", "failed", "unknown"}
DeliveryState == [payload : Payloads, status : [Recipients -> Status]]

ASSUME NoStateAssumption == NoState \notin DeliveryState

VARIABLES
    lockFile,       \* the lock file of this digest exists
    disk,           \* the state file, or NoState
    pc,             \* where each sender is in deliver()
    call,           \* the payload of each running call, or NoState
    mem,            \* each sender's copy of the state, or NoState
    cur,            \* the recipient a sender is working on
    inbox,          \* what the provider accepted for each recipient
    crashes,        \* hard crashes so far
    failures        \* refusals and storage errors so far

vars == <<lockFile, disk, pc, call, mem, cur, inbox, crashes, failures>>

Recording == {"sent", "failed", "unknown"}      \* SMTP returned, not yet persisted
InFlight == {"smtp"} \cup Recording
Phases == {"idle", "load", "loop", "unlock"} \cup InFlight

TypeOK ==
    /\ lockFile \in BOOLEAN
    /\ disk \in DeliveryState \cup {NoState}
    /\ pc \in [Senders -> Phases]
    /\ call \in [Senders -> Payloads \cup {NoState}]
    /\ mem \in [Senders -> DeliveryState \cup {NoState}]
    /\ cur \in [Senders -> Recipients]
    /\ inbox \in [Recipients -> Seq(Payloads)]
    /\ crashes \in 0..MaxCrashes
    /\ failures \in 0..MaxFailures

\* _initial_state: bound to this call's payload, everybody pending.
InitialState(p) == [payload |-> p, status |-> [r \in Recipients |-> "pending"]]

Ambiguous(state) == \E r \in Recipients : state.status[r] \in {"sending", "unknown"}
AllSent(state) == \A r \in Recipients : state.status[r] = "sent"

\* The recipient the loop over config.recipients comes to next.
IsNext(state, r) ==
    /\ state.status[r] # "sent"
    /\ \A q \in 1..(r - 1) : state.status[q] = "sent"

WithStatus(state, r, st) == [state EXCEPT !.status[r] = st]

Init ==
    /\ lockFile = FALSE
    /\ disk = NoState
    /\ pc = [s \in Senders |-> "idle"]
    /\ call = [s \in Senders |-> NoState]
    /\ mem = [s \in Senders |-> NoState]
    /\ cur = [s \in Senders |-> 1]
    /\ inbox = [r \in Recipients |-> <<>>]
    /\ crashes = 0
    /\ failures = 0

\* exclusive_lock: O_CREAT|O_EXCL; a call that finds the file raises and
\* changes nothing.
Acquire(s, p) ==
    /\ pc[s] = "idle"
    /\ ~lockFile
    /\ lockFile' = TRUE
    /\ pc' = [pc EXCEPT ![s] = "load"]
    /\ call' = [call EXCEPT ![s] = p]
    /\ UNCHANGED <<disk, mem, cur, inbox, crashes, failures>>

\* Mutants of Refuses: the binding check dropped, a refused recipient taken for
\* an ambiguous one.
RefusesNotRebound(s) ==
    disk # NoState /\ (Ambiguous(disk) \/ AllSent(disk))

RefusesFailed(s) ==
    disk # NoState /\ \E r \in Recipients : disk.status[r] # "pending"

\* _read_state refuses a state bound to other artifacts; deliver() refuses an
\* ambiguous one and has nothing to do when everybody was sent.
Refuses(s) ==
    /\ disk # NoState
    /\ \/ disk.payload # call[s]
       \/ Ambiguous(disk)
       \/ AllSent(disk)

Load(s) ==
    /\ pc[s] = "load"
    /\ \/ /\ Refuses(s)
          /\ pc' = [pc EXCEPT ![s] = "unlock"]
          /\ UNCHANGED mem
       \/ /\ ~Refuses(s)
          /\ pc' = [pc EXCEPT ![s] = "loop"]
          /\ mem' = [mem EXCEPT ![s] = IF disk = NoState THEN InitialState(call[s]) ELSE disk]
    /\ UNCHANGED <<lockFile, disk, call, cur, inbox, crashes, failures>>

\* _persist_state: the file is replaced and the loop goes on, or the write
\* fails -- before the replacement, or after it while the directory is synced --
\* and LockStateError ends the call.
Persist(s, new, onward) ==
    /\ mem' = [mem EXCEPT ![s] = new]
    /\ \/ /\ disk' = new
          /\ pc' = [pc EXCEPT ![s] = onward]
          /\ UNCHANGED failures
       \/ /\ failures < MaxFailures
          /\ failures' = failures + 1
          /\ disk' \in {disk, new}
          /\ pc' = [pc EXCEPT ![s] = "unlock"]

StartRecipient(s) ==
    /\ pc[s] = "loop"
    /\ \E r \in Recipients :
        /\ IsNext(mem[s], r)
        /\ cur' = [cur EXCEPT ![s] = r]
        /\ Persist(s, WithStatus(mem[s], r, "sending"), "smtp")
    /\ UNCHANGED <<lockFile, call, inbox, crashes>>

\* _smtp_send: the message was built from this call's payload and is accepted
\* (a failing cleanup after it does not matter), refused or never submitted,
\* or fails with an outcome nobody knows.
Accepted(s) ==
    /\ inbox' = [inbox EXCEPT ![cur[s]] = Append(@, call[s])]
    /\ pc' \in {[pc EXCEPT ![s] = "sent"], [pc EXCEPT ![s] = "unknown"]}
    /\ UNCHANGED failures

Refused(s) ==
    /\ failures < MaxFailures
    /\ failures' = failures + 1
    /\ pc' = [pc EXCEPT ![s] = "failed"]
    /\ UNCHANGED inbox

LostUnaccepted(s) ==
    /\ pc' = [pc EXCEPT ![s] = "unknown"]
    /\ UNCHANGED <<inbox, failures>>

SmtpSend(s) ==
    /\ pc[s] = "smtp"
    /\ Accepted(s) \/ Refused(s) \/ LostUnaccepted(s)
    /\ UNCHANGED <<lockFile, disk, call, mem, cur, crashes>>

\* Mutant of Record: an unknown outcome is recorded as a failure.
RecordUnknownAsFailed(s) ==
    /\ pc[s] \in Recording
    /\ Persist(s, WithStatus(mem[s], cur[s], IF pc[s] = "sent" THEN "sent" ELSE "failed"),
               IF pc[s] = "sent" THEN "loop" ELSE "unlock")
    /\ UNCHANGED <<lockFile, call, cur, inbox, crashes>>

\* The outcome is persisted; only a sent recipient lets the loop go on.
Record(s) ==
    /\ pc[s] \in Recording
    /\ Persist(s, WithStatus(mem[s], cur[s], pc[s]),
               IF pc[s] = "sent" THEN "loop" ELSE "unlock")
    /\ UNCHANGED <<lockFile, call, cur, inbox, crashes>>

Finish(s) ==
    /\ pc[s] = "loop"
    /\ AllSent(mem[s])
    /\ pc' = [pc EXCEPT ![s] = "unlock"]
    /\ UNCHANGED <<lockFile, disk, call, mem, cur, inbox, crashes, failures>>

\* Mutant of Leave: the call keeps its position past the last recipient.
LeavePastEnd(s) ==
    /\ pc' = [pc EXCEPT ![s] = "idle"]
    /\ call' = [call EXCEPT ![s] = NoState]
    /\ mem' = [mem EXCEPT ![s] = NoState]
    /\ cur' = [cur EXCEPT ![s] = @ + 1]

Leave(s) ==
    /\ pc' = [pc EXCEPT ![s] = "idle"]
    /\ call' = [call EXCEPT ![s] = NoState]
    /\ mem' = [mem EXCEPT ![s] = NoState]
    /\ cur' = [cur EXCEPT ![s] = 1]

Unlock(s) ==
    /\ pc[s] = "unlock"
    /\ lockFile' = FALSE
    /\ Leave(s)
    /\ UNCHANGED <<disk, inbox, crashes, failures>>

\* A hard crash: memory is gone, the lock file stays.
Crash(s) ==
    /\ pc[s] # "idle"
    /\ crashes < MaxCrashes
    /\ crashes' = crashes + 1
    /\ Leave(s)
    /\ UNCHANGED <<lockFile, disk, inbox, failures>>

\* The operator removes a lock file no living process owns.
ClearStaleLock ==
    /\ lockFile
    /\ \A s \in Senders : pc[s] = "idle"
    /\ lockFile' = FALSE
    /\ UNCHANGED <<disk, pc, call, mem, cur, inbox, crashes, failures>>

Step(s) ==
    Load(s) \/ StartRecipient(s) \/ SmtpSend(s) \/ Record(s) \/ Finish(s) \/ Unlock(s)

Next ==
    \/ \E s \in Senders, p \in Payloads : Acquire(s, p)
    \/ \E s \in Senders : Step(s) \/ Crash(s)
    \/ ClearStaleLock

Spec == Init /\ [][Next]_vars

\* A running process goes on, and whoever has to send a payload comes back, a
\* quarter of an hour later, until the lock file is not in the way.
Fairness ==
    /\ \A s \in Senders : WF_vars(Step(s))
    /\ \A p \in Payloads : SF_vars(\E s \in Senders : Acquire(s, p))

FairSpec == Spec /\ Fairness

-----------------------------------------------------------------------------
\* Safety

\* No recipient's mail is accepted twice by the provider, whatever crashes,
\* lost answers, storage errors and retries come between two calls.
AtMostOnce == \A r \in Recipients : Len(inbox[r]) <= 1

\* A retry never completes a delivery with another PDF, text or configuration
\* than the one the earlier recipients received.
OnePayload ==
    \A q, r \in Recipients :
        inbox[q] # <<>> /\ inbox[r] # <<>> => inbox[q] = inbox[r]

\* What the state file says of a recipient is what happened: "sent" was
\* accepted, and a recipient a retry may attempt (pending, failed) was not.
StateIsTruthful ==
    disk # NoState =>
        \A r \in Recipients :
            /\ disk.status[r] = "sent" => inbox[r] # <<>>
            /\ disk.status[r] \in {"pending", "failed"} => inbox[r] = <<>>

\* Two processes never are between a state read and the persist that follows.
OneOwner ==
    \A s, t \in Senders : pc[s] # "idle" /\ pc[t] # "idle" => s = t

NobodyInFlight == \A s \in Senders : pc[s] \notin InFlight
GivenUp == disk # NoState /\ Ambiguous(disk) /\ NobodyInFlight

\* Once an attempt's outcome is unknowable the delivery stands still: neither
\* the state file nor anybody's inbox changes again without an operator.
FailsClosed == [][GivenUp => UNCHANGED <<disk, inbox>>]_vars

\* Retries settle the delivery: from some time on everybody was sent, or an
\* outcome is ambiguous, or a crash left a lock file for the operator.
StaleLock == lockFile /\ \A s \in Senders : pc[s] = "idle"
Settles ==
    <>[](StaleLock \/ (disk # NoState /\ (AllSent(disk) \/ Ambiguous(disk))))

-----------------------------------------------------------------------------
\* deliver() keeps the promise of MailPromise.

Promise == INSTANCE MailPromise WITH closed <- GivenUp

KeepsPromise == Promise!Spec
=============================================================================
