----------------------------- MODULE StatusLedger -----------------------------
(***************************************************************************)
(* What a status store promises its callers, without the way it is built:  *)
(* for every notification the last status reported for each channel, where *)
(* a report is atomic and touches one channel.  The overall status is no   *)
(* state of its own: it is computed from the channel map.                  *)
(***************************************************************************)
EXTENDS NotificationStatus

VARIABLE ledger       \* ledger[id]: the channel map of id, None before Open

LedgerInit == ledger = [id \in Ids |-> None]

Open(id, chans) ==
    /\ ledger[id] = None
    /\ ledger' = [ledger EXCEPT ![id] = InitialRow(chans).channels]

Report(id, c, s) ==
    /\ ledger[id] # None
    /\ ledger' = [ledger EXCEPT ![id] = [@ EXCEPT ![c] = s]]

LedgerNext ==
    \E id \in Ids :
        \/ \E chans \in SUBSET Channels : Open(id, chans)
        \/ \E c \in Channels, s \in WorkerStatuses \cup Receipts : Report(id, c, s)

LedgerSpec == LedgerInit /\ [][LedgerNext]_ledger
=============================================================================
