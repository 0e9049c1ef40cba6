------------------------------ MODULE GuestSave ------------------------------
(***************************************************************************)
(* Repo.Save and Repo.Update of api/internal/guest/repository.go, with the *)
(* handlers in front of them, statement by statement over PostgreSQL at    *)
(* READ COMMITTED.  An INSERT .. ON CONFLICT DO NOTHING waits while another*)
(* open transaction holds an uncommitted row with the same key; it inserts *)
(* nothing when a committed row has the key.  A transaction fails at any   *)
(* statement (error, deadline, closed connection, crash of the process)    *)
(* and is rolled back; the answer to a COMMIT that took effect may be lost.*)
(***************************************************************************)
EXTENDS GuestData

VARIABLES
    pc,        \* where each call is in Save
    input,     \* the decoded Input of each call, with the session's user
    progress,  \* guest_progress, committed rows
    wardrobe,  \* guest_wardrobe_items, committed rows
    inserted,  \* the calls whose open transaction inserted the transfer row
    held,      \* the presets each open transaction inserted an item row for
    todo,      \* the presets the loop of Save has still to insert
    saved,     \* the row the final SELECT returned
    answer     \* the HTTP answer of each call

vars == <<pc, input, progress, wardrobe, inserted, held, todo, saved, answer>>

table == <<progress, wardrobe>>

Phases == {"idle", "insert", "compare", "items", "commit", "committing", "aborting", "done"}

Init ==
    /\ pc = [n \in Attempts |-> "idle"]
    /\ input = [n \in Attempts |-> NoInput]
    /\ progress = {}
    /\ wardrobe = {}
    /\ inserted = {}
    /\ held = [n \in Attempts |-> {}]
    /\ todo = [n \in Attempts |-> {}]
    /\ saved = [n \in Attempts |-> NoRow]
    /\ answer = [n \in Attempts |-> "none"]

Goto(n, phase) == pc' = [pc EXCEPT ![n] = phase]

Reply(n, code) ==
    /\ Goto(n, "done")
    /\ answer' = [answer EXCEPT ![n] = code]

\* Handler.Save up to Begin: an invalid selection is answered without a transaction.
Receive(n, in) ==
    /\ pc[n] = "idle"
    /\ input' = [input EXCEPT ![n] = in]
    /\ IF ValidSelection(in)
          THEN Goto(n, "insert") /\ UNCHANGED answer
          ELSE Reply(n, "invalid")
    /\ UNCHANGED <<table, inserted, held, todo, saved>>

Transfer(n) == input[n].transfer

\* Who the statement n is at has to wait for: the unique keys of other open transactions.
TransferWait(n) ==
    {m \in inserted \ {n} : pc[n] = "insert" /\ Transfer(m) = Transfer(n)}

\* INSERT INTO guest_progress .. ON CONFLICT (transfer_id) DO NOTHING
InsertTransfer(n) ==
    /\ pc[n] = "insert"
    /\ TransferWait(n) = {}
    /\ IF \E row \in progress : row.transfer = Transfer(n)
          THEN Goto(n, "compare") /\ UNCHANGED <<inserted, todo>>
          ELSE /\ Goto(n, "items")
               /\ inserted' = inserted \cup {n}
               /\ todo' = [todo EXCEPT ![n] = PickedSet(input[n])]
    /\ UNCHANGED <<input, table, held, saved, answer>>

\* Mutant: only the owner of the committed row is compared.
CompareOwnerOnly(n) ==
    /\ pc[n] = "compare"
    /\ \E row \in progress :
          /\ row.transfer = Transfer(n)
          /\ IF row.user = input[n].user
                THEN Goto(n, "items") /\ UNCHANGED answer
                ELSE Reply(n, "conflict")
    /\ UNCHANGED <<input, table, inserted, held, todo, saved>>

\* No row was inserted: the committed one must be this user's, with this selection.
CompareTransfer(n) ==
    /\ pc[n] = "compare"
    /\ \E row \in progress :
          /\ row.transfer = Transfer(n)
          /\ IF SameSelection(row, input[n])
                THEN Goto(n, "items") /\ UNCHANGED answer
                ELSE Reply(n, "conflict")
    /\ UNCHANGED <<input, table, inserted, held, todo, saved>>

\* Mutant: the presets are inserted in the order they were sent in.
NextPresetAsSent(n, p) ==
    \E i \in DOMAIN input[n].picked :
        /\ p = input[n].picked[i] /\ p \in todo[n]
        /\ \A j \in 1..(i - 1) : input[n].picked[j] \notin todo[n]

\* The loop over the sorted presets has come to p.
NextPreset(n, p) == p \in todo[n] /\ \A q \in todo[n] : p <= q

ItemWait(n) ==
    {m \in Attempts \ {n} :
        /\ pc[n] = "items"
        /\ \E p \in held[m] : NextPreset(n, p)
        /\ input[m].user = input[n].user}

\* Mutant: an entry another open transaction inserts counts as already there.
InsertItemNoWait(n, p) ==
    /\ pc[n] = "items"
    /\ NextPreset(n, p)
    /\ todo' = [todo EXCEPT ![n] = @ \ {p}]
    /\ IF Owns(wardrobe, input[n].user, p) \/ ItemWait(n) # {}
          THEN UNCHANGED held
          ELSE held' = [held EXCEPT ![n] = @ \cup {p}]
    /\ UNCHANGED <<pc, input, table, inserted, saved, answer>>

\* INSERT INTO guest_wardrobe_items .. ON CONFLICT (user_id,preset_id) DO NOTHING
InsertItem(n, p) ==
    /\ pc[n] = "items"
    /\ NextPreset(n, p)
    /\ ItemWait(n) = {}
    /\ todo' = [todo EXCEPT ![n] = @ \ {p}]
    /\ IF Owns(wardrobe, input[n].user, p)
          THEN UNCHANGED held
          ELSE held' = [held EXCEPT ![n] = @ \cup {p}]
    /\ UNCHANGED <<pc, input, table, inserted, saved, answer>>

\* The rows the final SELECT sees: the committed ones and the transaction's own.
Visible(n) ==
    progress \cup (IF n \in inserted THEN {NewRow(n, input[n])} ELSE {})

\* Mutant: the answer is built from the request instead of being read back.
SelectSavedEcho(n) ==
    /\ pc[n] = "items" /\ todo[n] = {}
    /\ saved' = [saved EXCEPT ![n] = NewRow(n, input[n])]
    /\ Goto(n, "commit")
    /\ UNCHANGED <<input, table, inserted, held, todo, answer>>

\* SELECT .. FROM guest_progress WHERE transfer_id=$1 AND user_id=$2
SelectSaved(n) ==
    /\ pc[n] = "items" /\ todo[n] = {}
    /\ \E row \in Visible(n) :
          /\ row.transfer = Transfer(n) /\ row.user = input[n].user
          /\ saved' = [saved EXCEPT ![n] = row]
    /\ Goto(n, "commit")
    /\ UNCHANGED <<input, table, inserted, held, todo, answer>>

\* The open transaction of n ends: its keys are released.
Release(n) ==
    /\ inserted' = inserted \ {n}
    /\ held' = [held EXCEPT ![n] = {}]
    /\ todo' = [todo EXCEPT ![n] = {}]

\* Mutant: ON CONFLICT DO UPDATE, an entry that exists is stored afresh.
PublishAfresh(n) ==
    LET again == IF n \in inserted THEN PickedSet(input[n]) ELSE {} IN
    /\ progress' = Visible(n)
    /\ wardrobe' = {i \in wardrobe : i.user # input[n].user \/ i.preset \notin again}
                      \cup {NewItem(input[n].user, p) : p \in again}

\* What COMMIT makes visible.
Publish(n) ==
    /\ progress' = Visible(n)
    /\ wardrobe' = wardrobe \cup {NewItem(input[n].user, p) : p \in held[n]}

Commit(n) ==
    /\ pc[n] = "commit"
    /\ Publish(n)
    /\ Release(n)
    /\ Reply(n, "ok")
    /\ UNCHANGED <<input, saved>>

\* A statement fails, is cancelled, or loses its connection, and the caller is answered;
\* the server may not have ended the transaction yet, nor dropped a COMMIT it was sent.
Fail(n) ==
    /\ pc[n] \in {"insert", "compare", "items", "commit"}
    /\ Goto(n, IF pc[n] = "commit" THEN "committing" ELSE "aborting")
    /\ answer' = [answer EXCEPT ![n] = "error"]
    /\ UNCHANGED <<input, table, inserted, held, todo, saved>>

\* Mutant: the deferred Rollback is forgotten and the connection kept.
RollBackMissing(n) ==
    /\ pc[n] \in {"aborting", "committing"}
    /\ Goto(n, "done")
    /\ UNCHANGED <<input, table, inserted, held, todo, saved, answer>>

\* Mutant: the item rows are inserted through the pool, outside the transaction.
RollBackKeepsItems(n) ==
    /\ pc[n] \in {"aborting", "committing"}
    /\ Goto(n, "done")
    /\ Release(n)
    /\ wardrobe' = wardrobe \cup {NewItem(input[n].user, p) : p \in held[n]}
    /\ UNCHANGED <<input, progress, saved, answer>>

\* The deferred Rollback, or the server's own on a dead connection.
RollBack(n) ==
    /\ pc[n] \in {"aborting", "committing"}
    /\ Goto(n, "done")
    /\ Release(n)
    /\ UNCHANGED <<input, table, saved, answer>>

\* The COMMIT whose result did not reach the caller takes effect.
CommitUnseen(n) ==
    /\ pc[n] = "committing"
    /\ Publish(n)
    /\ Goto(n, "done")
    /\ Release(n)
    /\ UNCHANGED <<input, saved, answer>>

\* UPDATE guest_wardrobe_items .. WHERE id=$1 AND user_id=$2, one autocommitted statement.
Update(u, i, patch) ==
    /\ i \in wardrobe /\ i.user = u
    /\ ValidPatch(patch)
    /\ wardrobe' = (wardrobe \ {i}) \cup {Patched(i, patch)}
    /\ UNCHANGED <<pc, input, progress, inserted, held, todo, saved, answer>>

\* The steps a call takes by itself once it was received.
Step(n) ==
    \/ InsertTransfer(n)
    \/ CompareTransfer(n)
    \/ \E p \in todo[n] : InsertItem(n, p)
    \/ SelectSaved(n)
    \/ Commit(n)
    \/ RollBack(n)

Next ==
    \/ \E n \in Attempts : \E in \in Inputs : Receive(n, in)
    \/ \E n \in Attempts : Step(n) \/ Fail(n) \/ CommitUnseen(n)
    \/ \E u \in Users : \E i \in wardrobe : \E patch \in Patches : Update(u, i, patch)

Spec == Init /\ [][Next]_vars

\* A received call keeps running: the handler's goroutine is scheduled, PostgreSQL executes
\* a statement that waits for nobody, and it ends the transaction of a connection that is
\* gone.  Nothing makes a client send a call.
FairSpec == Spec /\ \A n \in Attempts : WF_vars(Step(n))

-----------------------------------------------------------------------------

TypeOK ==
    /\ pc \in [Attempts -> Phases]
    /\ input \in [Attempts -> Inputs \cup {NoInput}]
    /\ progress \subseteq Rows
    /\ wardrobe \subseteq ItemRows
    /\ inserted \subseteq Attempts
    /\ held \in [Attempts -> SUBSET Presets]
    /\ todo \in [Attempts -> SUBSET Presets]
    /\ saved \in [Attempts -> Rows \cup {NoRow}]
    /\ answer \in [Attempts -> Answers]

\* A saved answer is durable and true (Repo.Save's "commits .. together"): its row is stored,
\* belongs to the caller, holds the selection sent, and each of its presets is in the wardrobe.
AckedIsStored ==
    \A n \in Attempts : answer[n] = "ok" =>
        /\ saved[n] \in progress
        /\ saved[n].transfer = input[n].transfer
        /\ SameSelection(saved[n], input[n])
        /\ \A p \in PickedSet(input[n]) : Owns(wardrobe, input[n].user, p)

\* Retries of one transfer, concurrent ones and those after a lost answer included, are all
\* answered with one and the same row, for one and the same user.
RetriesAgree ==
    \A m, n \in Attempts :
        answer[m] = "ok" /\ answer[n] = "ok" /\ input[m].transfer = input[n].transfer
            => saved[m] = saved[n] /\ input[m].user = input[n].user

\* Transfers and entries appear and disappear together: a wardrobe holds exactly the presets
\* of its owner's transfers, whatever failed, was rolled back or was deduplicated.
WardrobeIsUnionOfTransfers ==
    \A u \in Users : \A p \in Presets :
        Owns(wardrobe, u, p)
            <=> \E row \in progress : row.user = u /\ p \in PickedSet(row)

\* The unique keys: one row for a transfer, one entry for a user's preset.
KeysAreUnique ==
    /\ \A r1, r2 \in progress : r1.transfer = r2.transfer => r1 = r2
    /\ \A i, j \in wardrobe : i.user = j.user /\ i.preset = j.preset => i = j

WaitsFor(m, n) == n \in TransferWait(m) \cup ItemWait(m)

\* "Fixed lock order prevents deadlocks when independent saves overlap presets": no group of
\* open transactions in which each waits for another one of the group.
NoWaitCycle ==
    \A S \in SUBSET Attempts :
        S # {} => \E m \in S : \A n \in S : ~WaitsFor(m, n)

\* Saves only add: no step of a save resets the status or favorite an owner gave an entry.
EditsSurviveSaves == [][pc' # pc => wardrobe \subseteq wardrobe']_vars

\* Every received call ends, and with it the keys it held.
EveryCallEnds == \A n \in Attempts : pc[n] = "insert" ~> pc[n] = "done"

\* What a caller was shown: the row of an accepted call, nothing before that.
Shown == [n \in Attempts |-> IF answer[n] = "ok" THEN saved[n] ELSE NoRow]

Ledger == INSTANCE GuestLedger WITH request <- input, shown <- Shown

\* The transaction implements the atomic, idempotent save.
ImplementsLedger == Ledger!Spec
==============================================================================
