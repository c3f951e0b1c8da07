--------------------------- MODULE MCMailDelivery ---------------------------
\* MailDelivery for TLC: two overlapping senders that carry different payloads
\* and three recipients, who refuse, fail and crash twice each.
EXTENDS MailDelivery
=============================================================================
