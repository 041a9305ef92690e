------------------------ MODULE BankReconciliation ------------------------
(***************************************************************************)
(* Reconciling the rows of imported bank statements with the transactions  *)
(* of the ledger: candidates are suggested, one of them is confirmed, or   *)
(* the row is ignored, and the statement's review is then completed.       *)
(*                                                                         *)
(* generate_match_candidates and confirm_reconciliation select their rows  *)
(* FOR UPDATE joined with the batch and the financial account, so on one   *)
(* account, which is what this module has, they run one after the other.   *)
(* The other views (ignore, complete, and voiding or editing a ledger      *)
(* transaction) open no transaction: each query and each save of theirs is *)
(* a step of its own, taken from what they read before.  A request that is *)
(* refused changes nothing and is not a step.                              *)
(***************************************************************************)
EXTENDS Naturals, FiniteSets

CONSTANTS
    Workers,   \* concurrent requests
    Rows,      \* the imported bank rows
    Batches,   \* the statements they came in
    BatchOf,   \* row -> its statement
    Txs,       \* the ledger transactions of the account
    Fits       \* pairs <<row, tx>> that agree in direction, amount and date

ASSUME ReconciliationAssumption ==
    /\ BatchOf \in [Rows -> Batches]
    /\ Fits \subseteq Rows \X Txs

VARIABLES
    row,      \* row -> status
    match,    \* row -> tx -> status of their match, or "none"
    batch,    \* batch -> status
    ledger,   \* tx -> "posted", "void", or "changed": POSTED, but edited so
              \*       that it no longer agrees with any row
    job       \* worker -> what its request has read and does next

vars == <<row, match, batch, ledger, job>>

RowStatus   == {"staged", "matched", "reconciled", "ignored"}
MatchStatus == {"none", "suggested", "confirmed", "rejected"}
BatchStatus == {"staged", "reviewed", "completed"}
LedgerState == {"posted", "changed", "void"}

Idle == [at |-> "idle"]

Jobs ==
    {Idle}
    \union [at : {"confirm", "save"}, row : Rows, tx : Txs]
    \union [at : {"reject", "ignore", "refresh"}, row : Rows, batch : BatchStatus]
    \union [at : {"complete"}, batch : Batches, to : BatchStatus]
    \union [at : {"ledger"}, tx : Txs, to : LedgerState]

Init ==
    /\ row = [r \in Rows |-> "staged"]
    /\ match = [r \in Rows |-> [t \in Txs |-> "none"]]
    /\ batch = [b \in Batches |-> "staged"]
    /\ ledger = [t \in Txs |-> "posted"]
    /\ job = [w \in Workers |-> Idle]

Continue(w, state) == job' = [job EXCEPT ![w] = state]

\* The confirmations in progress; each holds the locks of its match, its row,
\* its batch, the account and its transaction until it ends.
Confirming == {w \in Workers : job[w].at \in {"confirm", "save"}}

Unlocked == Confirming = {}

-----------------------------------------------------------------------------
\* Mutation: the check on the status of the row is dropped.
GenerateMatches_AnyRow(r) ==
    /\ Unlocked
    /\ LET candidates == {t \in Txs : <<r, t>> \in Fits /\ ledger[t] = "posted"}
       IN  /\ match' = [match EXCEPT ![r] =
                 [t \in Txs |-> IF t \in candidates THEN "suggested"
                                ELSE IF match[r][t] = "suggested" THEN "rejected"
                                ELSE match[r][t]]]
           /\ row' = [row EXCEPT ![r] = IF candidates # {} THEN "matched" ELSE "staged"]
    /\ UNCHANGED <<batch, ledger, job>>

\* generate_match_candidates: every candidate is (again) SUGGESTED, and former
\* suggestions that no longer are candidates are REJECTED.
GenerateMatches(r) ==
    /\ Unlocked
    /\ row[r] \in {"staged", "matched"}
    /\ LET candidates == {t \in Txs : <<r, t>> \in Fits /\ ledger[t] = "posted"}
       IN  /\ match' = [match EXCEPT ![r] =
                 [t \in Txs |-> IF t \in candidates THEN "suggested"
                                ELSE IF match[r][t] = "suggested" THEN "rejected"
                                ELSE match[r][t]]]
           /\ row' = [row EXCEPT ![r] = IF candidates # {} THEN "matched" ELSE "staged"]
    /\ UNCHANGED <<batch, ledger, job>>

-----------------------------------------------------------------------------
(* confirm_reconciliation                                                  *)

\* Mutation: no select_for_update.
BeginConfirm_Unlocked(w, r, t) ==
    /\ job[w] = Idle
    /\ match[r][t] \in {"suggested", "confirmed"}
    /\ row[r] = "reconciled" => match[r][t] = "confirmed"
    /\ ledger[t] = "posted"
    /\ Continue(w, [at |-> "confirm", row |-> r, tx |-> t])
    /\ UNCHANGED <<row, match, batch, ledger>>

\* Lock and load, and the checks on what was loaded.
BeginConfirm(w, r, t) ==
    /\ job[w] = Idle
    /\ Unlocked
    /\ match[r][t] \in {"suggested", "confirmed"}
    /\ row[r] = "reconciled" => match[r][t] = "confirmed"
    /\ ledger[t] = "posted"
    /\ Continue(w, [at |-> "confirm", row |-> r, tx |-> t])
    /\ UNCHANGED <<row, match, batch, ledger>>

\* The queries for another confirmed match of the row or of the transaction.
CheckOthers(w) ==
    /\ job[w].at = "confirm"
    /\ LET r == job[w].row
           t == job[w].tx
           taken == \/ \E u \in Txs \ {t}  : match[r][u] = "confirmed"
                    \/ \E s \in Rows \ {r} : match[s][t] = "confirmed"
       IN  Continue(w, IF taken THEN Idle ELSE [job[w] EXCEPT !.at = "save"])
    /\ UNCHANGED <<row, match, batch, ledger>>

\* Mutation: the row is given the status of the match.
SaveConfirm_RowConfirmed(w) ==
    /\ job[w].at = "save"
    /\ match' = [match EXCEPT ![job[w].row] =
          [t \in Txs |-> IF t = job[w].tx THEN "confirmed"
                         ELSE IF @[t] = "suggested" THEN "rejected" ELSE @[t]]]
    /\ row' = [row EXCEPT ![job[w].row] = "confirmed"]
    /\ Continue(w, Idle)
    /\ UNCHANGED <<batch, ledger>>

\* The match is CONFIRMED, its row RECONCILED, the row's other suggestions are
\* REJECTED, and the transaction commits.
SaveConfirm(w) ==
    /\ job[w].at = "save"
    /\ match' = [match EXCEPT ![job[w].row] =
          [t \in Txs |-> IF t = job[w].tx THEN "confirmed"
                         ELSE IF @[t] = "suggested" THEN "rejected" ELSE @[t]]]
    /\ row' = [row EXCEPT ![job[w].row] = "reconciled"]
    /\ Continue(w, Idle)
    /\ UNCHANGED <<batch, ledger>>

-----------------------------------------------------------------------------
(* finance_bank_ignore_row: an update and two saves, each committed alone.  *)

\* Load the row and its batch.
BeginIgnore(w, r) ==
    /\ job[w] = Idle
    /\ row[r] # "reconciled"
    /\ Continue(w, [at |-> "reject", row |-> r, batch |-> batch[BatchOf[r]]])
    /\ UNCHANGED <<row, match, batch, ledger>>

\* Mutation: every match of the row is rejected, not only the suggestions.
RejectSuggested_All(w) ==
    /\ job[w].at = "reject"
    /\ \A v \in Confirming :
          ~ (job[v].row = job[w].row /\ match[job[v].row][job[v].tx] = "suggested")
    /\ match' = [match EXCEPT ![job[w].row] =
          [t \in Txs |-> IF @[t] # "none" THEN "rejected" ELSE @[t]]]
    /\ Continue(w, [job[w] EXCEPT !.at = "ignore"])
    /\ UNCHANGED <<row, batch, ledger>>

\* The update of the suggestions waits for a confirmation that holds one.
RejectSuggested(w) ==
    /\ job[w].at = "reject"
    /\ \A v \in Confirming :
          ~ (job[v].row = job[w].row /\ match[job[v].row][job[v].tx] = "suggested")
    /\ match' = [match EXCEPT ![job[w].row] =
          [t \in Txs |-> IF @[t] = "suggested" THEN "rejected" ELSE @[t]]]
    /\ Continue(w, [job[w] EXCEPT !.at = "ignore"])
    /\ UNCHANGED <<row, batch, ledger>>

\* row.save(update_fields=["status"]), whatever the status has become
SaveIgnored(w) ==
    /\ job[w].at = "ignore"
    /\ \A v \in Confirming : job[v].row # job[w].row
    /\ row' = [row EXCEPT ![job[w].row] = "ignored"]
    /\ Continue(w, [job[w] EXCEPT !.at = "refresh"])
    /\ UNCHANGED <<match, batch, ledger>>

\* _refresh_bank_batch_status, on the batch as it was loaded
RefreshBatch(w) ==
    /\ job[w].at = "refresh"
    /\ IF job[w].batch = "staged"
       THEN /\ \A v \in Confirming : BatchOf[job[v].row] # BatchOf[job[w].row]
            /\ batch' = [batch EXCEPT ![BatchOf[job[w].row]] = "reviewed"]
       ELSE UNCHANGED batch
    /\ Continue(w, Idle)
    /\ UNCHANGED <<row, match, ledger>>

-----------------------------------------------------------------------------
(* finance_bank_complete_review                                            *)

Resolved(r) == row[r] \in {"reconciled", "ignored"}

\* Mutation: only the rows without candidates count as unresolved.
CountUnresolved_StagedOnly(w, b) ==
    /\ job[w] = Idle
    /\ LET unresolved == {r \in Rows : BatchOf[r] = b /\ row[r] = "staged"}
       IN  Continue(w, [at |-> "complete", batch |-> b,
                        to |-> IF unresolved = {} THEN "completed" ELSE "reviewed"])
    /\ UNCHANGED <<row, match, batch, ledger>>

CountUnresolved(w, b) ==
    /\ job[w] = Idle
    /\ LET unresolved == {r \in Rows : BatchOf[r] = b /\ ~ Resolved(r)}
       IN  Continue(w, [at |-> "complete", batch |-> b,
                        to |-> IF unresolved = {} THEN "completed" ELSE "reviewed"])
    /\ UNCHANGED <<row, match, batch, ledger>>

SaveReview(w) ==
    /\ job[w].at = "complete"
    /\ \A v \in Confirming : BatchOf[job[v].row] # job[w].batch
    /\ batch' = [batch EXCEPT ![job[w].batch] = job[w].to]
    /\ Continue(w, Idle)
    /\ UNCHANGED <<row, match, ledger>>

-----------------------------------------------------------------------------
(* The ledger views.  (The reversal a void may add is another transaction.) *)

\* finance_transaction_delete and finance_transaction_edit load a transaction
\* that is not VOID.  The form of an edit may change what the bank row is
\* compared with, or put it back.
BeginLedger(w, t, to) ==
    /\ job[w] = Idle
    /\ ledger[t] # "void"
    /\ Continue(w, [at |-> "ledger", tx |-> t, to |-> to])
    /\ UNCHANGED <<row, match, batch, ledger>>

\* Both save the status: a void as VOID, an edit as the POSTED it loaded, since
\* it saves every field.
SaveLedger(w) ==
    /\ job[w].at = "ledger"
    /\ \A v \in Confirming : job[v].tx # job[w].tx
    /\ ledger' = [ledger EXCEPT ![job[w].tx] = job[w].to]
    /\ Continue(w, Idle)
    /\ UNCHANGED <<row, match, batch>>

-----------------------------------------------------------------------------
Next ==
    \/ \E r \in Rows : GenerateMatches(r)
    \/ \E w \in Workers :
          \/ \E r \in Rows, t \in Txs : BeginConfirm(w, r, t)
          \/ CheckOthers(w) \/ SaveConfirm(w)
          \/ \E r \in Rows : BeginIgnore(w, r)
          \/ RejectSuggested(w) \/ SaveIgnored(w) \/ RefreshBatch(w)
          \/ \E b \in Batches : CountUnresolved(w, b)
          \/ SaveReview(w)
          \/ \E t \in Txs, to \in LedgerState : BeginLedger(w, t, to)
          \/ SaveLedger(w)

Spec == Init /\ [][Next]_vars

-----------------------------------------------------------------------------
(* Properties.                                                             *)

TypeOK ==
    /\ row \in [Rows -> RowStatus]
    /\ match \in [Rows -> [Txs -> MatchStatus]]
    /\ batch \in [Batches -> BatchStatus]
    /\ ledger \in [Txs -> LedgerState]
    /\ job \in [Workers -> Jobs]

\* "One bank row and one ledger transaction cannot be multiply confirmed",
\* whatever is confirmed, suggested again, ignored, voided or edited meanwhile.
OneConfirmation ==
    \A r, s \in Rows, t, u \in Txs :
        /\ match[r][t] = "confirmed"
        /\ match[s][u] = "confirmed"
        /\ r = s \/ t = u
        => r = s /\ t = u

\* A row with a confirmed match is never offered for matching again, and a row
\* counts as reconciled only with a confirmed match behind it.
ConfirmedRowsAreDecided ==
    \A r \in Rows :
        /\ \A t \in Txs : match[r][t] = "confirmed" => Resolved(r)
        /\ row[r] = "reconciled" => \E t \in Txs : match[r][t] = "confirmed"

\* A completed statement has no row left to decide, even though completing it
\* counts the rows first and saves later, while other requests run.
CompletedIsResolved ==
    \A r \in Rows : batch[BatchOf[r]] = "completed" => Resolved(r)

\* No request takes back a confirmation: not a new search for candidates, not
\* an ignore that read the row before it was reconciled.
ConfirmationsStay ==
    [][\A r \in Rows, t \in Txs : match[r][t] = "confirmed" => match'[r][t] = "confirmed"]_vars

=============================================================================
