----------------------------- MODULE NoteLedger -----------------------------
(***************************************************************************)
(* What note activation promises whoever reads a work's notes, with no     *)
(* calls, receipts, checkpoints or crashes: each work keeps an append-only *)
(* ledger; a batch freezes the ledger's length once, and may add its note  *)
(* only while the ledger still has that length.  API runs add notes freely.*)
(***************************************************************************)
EXTENDS Naturals, Sequences

CONSTANTS Batches, Works

VARIABLES
  ledger,  \* ledger[w]: who wrote each note of the work
  basis    \* basis[b][w]: the length the batch froze, none or one

ledgerVars == <<ledger, basis>>

LedgerInit ==
  /\ ledger = [w \in Works |-> <<>>]
  /\ basis = [b \in Batches |-> [w \in Works |-> {}]]

Freeze(b, w) ==
  /\ basis[b][w] = {}
  /\ basis' = [basis EXCEPT ![b][w] = {Len(ledger[w])}]
  /\ UNCHANGED ledger

Activate(b, w) ==
  /\ basis[b][w] = {Len(ledger[w])}
  /\ ledger' = [ledger EXCEPT ![w] = Append(@, b)]
  /\ UNCHANGED basis

Overwrite(w) ==
  /\ ledger' = [ledger EXCEPT ![w] = Append(@, "api")]
  /\ UNCHANGED basis

LedgerNext == \E w \in Works : Overwrite(w) \/ \E b \in Batches : Freeze(b, w) \/ Activate(b, w)

LedgerSpec == LedgerInit /\ [][LedgerNext]_ledgerVars
=============================================================================
