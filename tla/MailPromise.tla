---------------------------- MODULE MailPromise ----------------------------
(***************************************************************************)
(* What one report delivery promises its recipients, whatever the sending  *)
(* processes, the storage and the SMTP server do: each recipient is        *)
(* accepted at most once, in the configured order, everybody receives the  *)
(* same payload, and once an outcome cannot be known nobody else is        *)
(* mailed.  climate_delivery/delivery.py implements it (MailDelivery).     *)
(***************************************************************************)
EXTENDS Naturals, Sequences

CONSTANTS
    NRecipients,    \* recipients are numbered in configuration order
    Payloads        \* the artifact, config and message bindings of a call

Recipients == 1..NRecipients

VARIABLES
    inbox,          \* [Recipients -> Seq(Payloads)]: what the provider accepted
    closed          \* TRUE once an outcome is ambiguous and nobody may be mailed

promiseVars == <<inbox, closed>>

TypeOK ==
    /\ inbox \in [Recipients -> Seq(Payloads)]
    /\ closed \in BOOLEAN

Init ==
    /\ inbox = [r \in Recipients |-> <<>>]
    /\ closed = FALSE

\* The provider takes the message for r: the first one it ever takes for r,
\* after every recipient before r, carrying the payload they received.
Accept(r, p) ==
    /\ ~closed
    /\ inbox[r] = <<>>
    /\ \A q \in 1..(r - 1) : inbox[q] = <<p>>
    /\ inbox' = [inbox EXCEPT ![r] = <<p>>]
    /\ UNCHANGED closed

\* The outcome of an attempt is ambiguous and the delivery is given up.
Close ==
    /\ ~closed
    /\ closed' = TRUE
    /\ UNCHANGED inbox

Next == Close \/ \E r \in Recipients, p \in Payloads : Accept(r, p)

Spec == Init /\ [][Next]_promiseVars
=============================================================================
