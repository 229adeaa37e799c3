-------------------------- MODULE CatalogEmbedding ---------------------------
(* One product of the catalogue and the vector it is found by. The            *)
(* administration edits it and embeds it inside the call's transaction; an    *)
(* import marks it pending and leaves the vector to a worker job, which a     *)
(* repeating recovery job adds again when it was lost. Isolation is read      *)
(* committed: an UPDATE waits for the row lock and then sees what was         *)
(* committed, the reads before it do not wait.                                *)
EXTENDS Naturals, FiniteSets

CONSTANTS
    Wordings,           \* what code, name, description and attributes can say
    Editors,            \* administrators at work on the product
    MaxCatalogEdits,    \* bound: edits and imports in all
    MaxEmbedAttempts,   \* attempts of a job (3)
    MaxEmbedFaults      \* bound: jobs that fail, after-commit tasks that are lost

VARIABLES
    sku,                \* the committed row
    rowLock,            \* who holds the lock on it
    txOf,               \* the transactions of editors, importer and worker
    embedJob,           \* the catalog queue's job for this product, one per job id
    catalogEdits, embedFaults

catalogVars == <<sku, rowLock, txOf, embedJob, catalogEdits, embedFaults>>

Actors == Editors \cup {"import", "worker"}

NoSku == [there |-> FALSE, says |-> "nothing", vector |-> "nothing", status |-> "pending", active |-> TRUE]
NoTx == [at |-> "none", row |-> NoSku, columns |-> {}]
NoJob == [at |-> "none", attempts |-> 0]

CatalogInit ==
    /\ sku = NoSku /\ rowLock = "free"
    /\ txOf = [a \in Actors |-> NoTx]
    /\ embedJob = NoJob
    /\ catalogEdits = 0 /\ embedFaults = 0

Tx(a, tx) == txOf' = [txOf EXCEPT ![a] = tx]

\* The lock is granted to one transaction; its UPDATE starts from the committed
\* row, and nobody else sees the result before the commit.
Lock(a, at, row) ==
    /\ rowLock = "free" /\ rowLock' = a
    /\ Tx(a, [NoTx EXCEPT !.at = at, !.row = row])

Commit(a) ==
    /\ txOf[a].at = "commit"
    /\ sku' = txOf[a].row
    /\ rowLock' = IF rowLock = a THEN "free" ELSE rowLock

Rollback(a) ==
    /\ rowLock' = IF rowLock = a THEN "free" ELSE rowLock
    /\ Tx(a, NoTx)
    /\ UNCHANGED sku

\* refreshEmbedding: the vector of what the row says, or why there is none.
Embedded(row, ok) ==
    IF ok THEN [row EXCEPT !.vector = row.says, !.status = "ready"]
          ELSE [row EXCEPT !.status = "unavailable"]

Embeds(a) ==
    /\ txOf[a].at = "embed"
    /\ \E ok \in BOOLEAN : Tx(a, [txOf[a] EXCEPT !.at = "commit", !.row = Embedded(@, ok)])
    /\ UNCHANGED <<sku, rowLock, embedJob, catalogEdits, embedFaults>>

-----------------------------------------------------------------------------
(* ---------------------------- administration --------------------------- *)

MayEdit == catalogEdits < MaxCatalogEdits
CountEdit == catalogEdits' = catalogEdits + 1

\* createAdmin: prices in euro only; saved as pending and embedded at once.
CreateSku(e, says) ==
    /\ txOf[e].at = "none" /\ ~sku.there /\ MayEdit /\ CountEdit
    /\ Lock(e, "embed", [NoSku EXCEPT !.there = TRUE, !.says = says])
    /\ UNCHANGED <<sku, embedJob, embedFaults>>

\* updateAdmin: only a patch of the text is embedded again; a price or the
\* active flag leaves the vector alone.
UpdateSku(e, says) ==
    /\ txOf[e].at = "none" /\ sku.there /\ MayEdit /\ CountEdit
    /\ Lock(e, "embed", [sku EXCEPT !.says = says])
    /\ UNCHANGED <<sku, embedJob, embedFaults>>

DeactivateSku(e) ==
    /\ txOf[e].at = "none" /\ sku.there /\ sku.active /\ MayEdit /\ CountEdit
    /\ Lock(e, "commit", [sku EXCEPT !.active = FALSE])
    /\ UNCHANGED <<sku, embedJob, embedFaults>>

EditCommits(e) ==
    /\ Commit(e) /\ Tx(e, NoTx)
    /\ UNCHANGED <<embedJob, catalogEdits, embedFaults>>

\* The client leaves before the answer: the close listener rolls back.
EditUndone(e) ==
    /\ txOf[e].at \in {"embed", "commit"} /\ embedFaults < MaxEmbedFaults
    /\ embedFaults' = embedFaults + 1
    /\ Rollback(e)
    /\ UNCHANGED <<embedJob, catalogEdits>>

-----------------------------------------------------------------------------
(* -------------------------------- import ------------------------------- *)

\* One import at a time (advisory lock). save() reads the row once more and
\* writes only the columns in which it differs from the entity in memory.
ImportCompares(says) ==
    /\ txOf["import"].at = "none" /\ MayEdit /\ CountEdit
    /\ Tx("import",
          [at |-> "write", row |-> [NoSku EXCEPT !.there = TRUE, !.says = says],
           columns |-> IF ~sku.there THEN {"all"}
                       ELSE (IF sku.says # says THEN {"says"} ELSE {})
                            \cup (IF sku.status # "pending" THEN {"status"} ELSE {})])
    /\ UNCHANGED <<sku, rowLock, embedJob, embedFaults>>

Merged(row, columns) ==
    IF columns = {"all"} THEN row
    ELSE [sku EXCEPT !.says = IF "says" \in columns THEN row.says ELSE @,
                     !.status = IF "status" \in columns THEN "pending" ELSE @]

\* The UPDATE waits for the lock. An insert that meets a row created meanwhile
\* breaks the unique key and the whole import.
ImportWrites ==
    LET tx == txOf["import"] IN
    /\ tx.at = "write" /\ ~(tx.columns = {"all"} /\ sku.there)
    /\ Lock("import", "commit", Merged(tx.row, tx.columns))
    /\ UNCHANGED <<sku, embedJob, catalogEdits, embedFaults>>

ImportRefused ==
    /\ txOf["import"].at = "write" /\ txOf["import"].columns = {"all"} /\ sku.there
    /\ Rollback("import")
    /\ UNCHANGED <<embedJob, catalogEdits, embedFaults>>

ImportCommits ==
    /\ Commit("import") /\ Tx("import", [NoTx EXCEPT !.at = "enqueue"])
    /\ UNCHANGED <<embedJob, catalogEdits, embedFaults>>

-----------------------------------------------------------------------------
(* --------------------------- queue and worker -------------------------- *)

\* Mutant: a job that failed for the last time stays, so its id is taken.
LastFailureKept(attempts) == [at |-> "failed", attempts |-> attempts]

\* removeOnFail: after the last attempt the job's id is free again.
LastFailure(attempts) == NoJob

\* queue.add with the product's job id: nothing while such a job exists.
AddJob == IF embedJob = NoJob THEN [at |-> "waiting", attempts |-> 0] ELSE embedJob

\* The after-commit task; the API process may die before it.
EnqueueEmbedding ==
    /\ txOf["import"].at = "enqueue"
    /\ Tx("import", NoTx)
    /\ \/ embedJob' = AddJob /\ UNCHANGED embedFaults
       \/ embedFaults < MaxEmbedFaults /\ embedFaults' = embedFaults + 1 /\ UNCHANGED embedJob
    /\ UNCHANGED <<sku, rowLock, catalogEdits>>

\* RECOVER_PENDING, every five minutes: one job for each pending product.
RecoverPending ==
    /\ sku.there /\ sku.status = "pending" /\ embedJob = NoJob
    /\ embedJob' = AddJob
    /\ UNCHANGED <<sku, rowLock, txOf, catalogEdits, embedFaults>>

\* refreshAdminEmbedding: the row, locked, if it is still pending; otherwise the
\* job is done with a warning.
TakeJob ==
    /\ embedJob.at = "waiting" /\ txOf["worker"].at = "none" /\ rowLock = "free"
    /\ IF sku.there /\ sku.status = "pending"
       THEN Lock("worker", "embed", sku) /\ embedJob' = [embedJob EXCEPT !.at = "active"]
       ELSE embedJob' = NoJob /\ UNCHANGED <<rowLock, txOf>>
    /\ UNCHANGED <<sku, catalogEdits, embedFaults>>

JobCommits ==
    /\ Commit("worker") /\ Tx("worker", NoTx)
    /\ embedJob' = NoJob
    /\ UNCHANGED <<catalogEdits, embedFaults>>

\* The database refuses, or the worker dies: the transaction is undone and Bull
\* tries again, three times in all.
JobFails ==
    /\ embedJob.at = "active" /\ embedFaults < MaxEmbedFaults
    /\ embedFaults' = embedFaults + 1
    /\ Rollback("worker")
    /\ embedJob' = IF embedJob.attempts + 1 = MaxEmbedAttempts
                   THEN LastFailure(embedJob.attempts + 1)
                   ELSE [at |-> "waiting", attempts |-> embedJob.attempts + 1]
    /\ UNCHANGED catalogEdits

CatalogStep ==
    \/ \E a \in Actors : Embeds(a)
    \/ \E e \in Editors : EditCommits(e)
    \/ ImportWrites \/ ImportRefused \/ ImportCommits \/ EnqueueEmbedding
    \/ TakeJob \/ JobCommits

CatalogNext ==
    \/ CatalogStep \/ RecoverPending \/ JobFails
    \/ \E e \in Editors : DeactivateSku(e) \/ EditUndone(e)
    \/ \E e \in Editors, w \in Wordings : CreateSku(e, w) \/ UpdateSku(e, w)
    \/ \E w \in Wordings : ImportCompares(w)

\* Transactions end, the queue is worked off, the repeating job comes round.
CatalogFairness == WF_catalogVars(CatalogStep) /\ WF_catalogVars(RecoverPending)

-----------------------------------------------------------------------------
(* ------------------------------ properties ----------------------------- *)

\* However often the process dies between an import's commit and its enqueue,
\* and a job fails for the last time, a pending product is embedded or marked
\* unavailable in the end: it does not stay out of semantic search unnoticed.
PendingIsEmbedded ==
    sku.there /\ sku.status = "pending" ~> sku.status # "pending"
=============================================================================
