----------------------- MODULE GatewayAdministration -----------------------
(***************************************************************************)
(* The settlement engine while operators work on the same rows through the *)
(* generic CRUD services: they soft-delete and restore gateway             *)
(* transactions, PATCH the columns the engine works with to any value, and *)
(* configure the provider's GL accounts.  None of these writes looks at    *)
(* what the engine is doing; each is one committed statement, so it falls  *)
(* between two awaits of the requests in flight.                           *)
(***************************************************************************)
EXTENDS GatewaySettlement

CONSTANTS
    Key,            \* provider transaction ids
    KeyOf,          \* KeyOf[t]: the provider_transaction_id of row t
    MaxEdits        \* bound on the writes of operators

VARIABLES
    edits,          \* how many there were
    reopened        \* history, in no table: the rows whose settle or refund
                    \* an operator has taken back

adminVars == <<vars, edits, reopened>>

\* The unique partial index (provider_code, provider_transaction_id) over the
\* rows that are not soft-deleted; all rows here are of one provider.
DedupIndex(rs) ==
    \A t, u \in Txn : KeyOf[t] = KeyOf[u] /\ ~rs[t].deleted /\ ~rs[u].deleted => t = u

\* Charges created earlier, some of them soft-deleted since.
AdminInit ==
    /\ rows \in [Txn -> UNION {{r, [r EXCEPT !.deleted = TRUE]} : r \in NewRow}]
    /\ DedupIndex(rows)
    /\ accounts \in NewAccounts
    /\ job = [w \in Worker |-> Idle]
    /\ ledger = [t \in Txn |-> <<>>]
    /\ published = [t \in Txn |-> <<>>]
    /\ edits = 0
    /\ reopened = {}

SoftDelete(t) ==
    /\ ~rows[t].deleted
    /\ rows' = [rows EXCEPT ![t].deleted = TRUE]
    /\ UNCHANGED <<accounts, job, ledger, published>>

\* Out of the trash, or inserted for the first time: to the engine a row that
\* is not there yet is like one in the trash.  Refused by the index when another
\* live row has the key.
Restore(t) ==
    /\ rows[t].deleted
    /\ rows' = [rows EXCEPT ![t].deleted = FALSE]
    /\ DedupIndex(rows')
    /\ UNCHANGED <<accounts, job, ledger, published>>

\* GatewayTransaction::apply_patch on the columns of the lifecycle and of the
\* links, any of them to any value its type has, whatever the row holds.  The
\* amounts, the currency and the keys are left as they are.
apply_patch(t) ==
    /\ ~rows[t].deleted
    /\ \E status \in OpenStatus \cup Terminal \cup {"failed"},
          state \in {"pending", "posted", "failed"},
          entry \in PaymentEntry \cup {None}, post \in 0 .. MaxJournals :
             rows' = [rows EXCEPT ![t].status = status, ![t].posting_state = state,
                                  ![t].payment_entry_id = entry, ![t].fee_post_id = post]
    /\ UNCHANGED <<accounts, job, ledger, published>>

\* PaymentGatewayProvider::apply_patch on the two account ids; a full update
\* that leaves one out clears it.
PatchAccounts(acc) ==
    /\ accounts' = acc
    /\ UNCHANGED <<rows, job, ledger, published>>

Edit ==
    \/ \E t \in Txn : SoftDelete(t) \/ Restore(t) \/ apply_patch(t)
    \/ \E acc \in NewAccounts : PatchAccounts(acc)

\* The rows that a step takes out of where a settle or a refund had put them.
TakenBack ==
    {t \in Txn :
        \/ rows[t].status \in Terminal /\ rows'[t].status \notin Terminal
        \/ rows[t].status = "refunded" /\ rows'[t].status # "refunded"}

AdminNext ==
    \/ Next /\ UNCHANGED <<edits, reopened>>
    \/ /\ edits < MaxEdits /\ Edit
       /\ edits' = edits + 1
       /\ reopened' = reopened \cup TakenBack

AdminSpec == AdminInit /\ [][AdminNext]_adminVars

-----------------------------------------------------------------------------
(* What must hold.                                                         *)

\* Exactly once, up to what only an operator can undo: as long as nobody takes
\* its settle or refund back by a PATCH, the ACL never hears of a row twice,
\* whatever else is deleted, restored, patched and reconfigured between the
\* awaits of the requests in flight.  A PATCH that does take it back makes the
\* row settle again, and the event is sent again.
OnceUnlessReopened ==
    \A t \in Txn \ reopened : \A i, j \in 1 .. Len(published[t]) :
        published[t][i].kind = published[t][j].kind => i = j

\* The link the engine writes is never wrong, whoever edits rows and provider
\* while the request is in flight: a settle that marks its row posted links a
\* fee journal of the row, of the recorded fee, on the fee and settlement
\* accounts some configuration had together.
PostedFeeIsBooked ==
    [][\A t \in Txn :
        edits' = edits /\ rows[t].status # "settled" /\ rows'[t].status = "settled"
        /\ rows'[t].posting_state = "posted" =>
            LET j == ledger[t][rows'[t].fee_post_id] IN
            /\ rows'[t].fee_post_id \in Booked(t, "original")
            /\ j.amount = rows[t].fee_amount
            /\ [fee |-> j.debit, settlement |-> j.credit] \in NewAccounts]_adminVars

\* A charge that failed at the provider is final to the engine: no request that
\* read it while it was open, and no later one, settles it.
FailedStaysFailed ==
    [][\A t \in Txn :
        edits' = edits /\ rows[t].status = "failed" => rows'[t].status = "failed"]_adminVars

\* A soft-deleted row neither settles nor is refunded, even by a request that
\* read it before the deletion.
DeletedDoesNotMove ==
    [][\A t \in Txn :
        edits' = edits /\ rows[t].deleted => rows'[t].status = rows[t].status]_adminVars

\* Nobody patches a row into or out of the settled statuses.
PatchesKeepPhase == [][edits' # edits => UNCHANGED Phase]_adminVars

=============================================================================
