--------------------------- MODULE DeliveryLedger ---------------------------
(***************************************************************************)
(* What the log pipeline promises about every record its queue admits: it  *)
(* is held until it is settled, it is settled once, as shipped or as lost  *)
(* under one counted reason, and a pipeline that reports a clean stop      *)
(* holds nothing and settles nothing afterwards.                           *)
(***************************************************************************)
EXTENDS Integers

VARIABLES count,   \* records admitted so far, numbered from 1
          held,    \* admitted and not settled
          landed,  \* settled as shipped
          lost,    \* settled as dropped, under a counted reason
          stopped  \* a clean stop was reported

ledgerVars == <<count, held, landed, lost, stopped>>

LedgerInit == count = 0 /\ held = {} /\ landed = {} /\ lost = {} /\ stopped = FALSE

\* The next record is admitted; older ones may overflow, and under a byte
\* budget the new one itself may.
Admit ==
    /\ ~stopped
    /\ count' = count + 1
    /\ \E out \in SUBSET (held \cup {count + 1}) :
          /\ held' = (held \cup {count + 1}) \ out
          /\ lost' = lost \cup out
    /\ UNCHANGED <<landed, stopped>>

\* An export answers, or a batch is abandoned.
Settle ==
    /\ ~stopped
    /\ \E ok \in SUBSET held, out \in SUBSET held :
          /\ ok \cap out = {}
          /\ held' = held \ (ok \cup out)
          /\ landed' = landed \cup ok
          /\ lost' = lost \cup out
    /\ UNCHANGED <<count, stopped>>

StopClean ==
    /\ held = {}
    /\ stopped' = TRUE
    /\ UNCHANGED <<count, held, landed, lost>>

LedgerNext == Admit \/ Settle \/ StopClean

LedgerSpec == LedgerInit /\ [][LedgerNext]_ledgerVars
=============================================================================
