----------------------------- MODULE GuestLedger -----------------------------
(***************************************************************************)
(* What POST /guest/progress and PATCH /guest/wardrobe-items promise: a    *)
(* transfer is accepted at most once and as a whole, every accepted answer *)
(* shows the row that was accepted, and anything else is refused.          *)
(* GuestSave shows that the statement-by-statement transaction of the API  *)
(* implements this module.                                                 *)
(***************************************************************************)
EXTENDS GuestData

VARIABLES
    request,   \* the input of each call
    progress,  \* guest_progress, committed rows
    wardrobe,  \* guest_wardrobe_items, committed rows
    answer,    \* the outcome of each call, as the caller sees it
    shown      \* the row an accepted call answered with

lvars == <<request, progress, wardrobe, answer, shown>>

Init ==
    /\ request = [n \in Attempts |-> NoInput]
    /\ progress = {}
    /\ wardrobe = {}
    /\ answer = [n \in Attempts |-> "none"]
    /\ shown = [n \in Attempts |-> NoRow]

Ask(n, in) ==
    /\ request[n] = NoInput
    /\ request' = [request EXCEPT ![n] = in]
    /\ UNCHANGED <<progress, wardrobe, shown>>
    /\ \/ UNCHANGED answer
       \/ ~ValidSelection(in) /\ answer' = [answer EXCEPT ![n] = "invalid"]

Pending(n) == request[n] \in Inputs /\ answer[n] = "none"

\* The whole save at once: the transfer and the entries still missing.
Apply(n) ==
    LET in == request[n] IN
    /\ ValidSelection(in)
    /\ \A row \in progress : row.transfer # in.transfer
    /\ progress' = progress \cup {NewRow(n, in)}
    /\ wardrobe' = wardrobe \cup
          {NewItem(in.user, p) : p \in {q \in PickedSet(in) : ~Owns(wardrobe, in.user, q)}}

\* A retry of what was already accepted changes nothing.
Repeat(n) ==
    /\ \E row \in progress : row.transfer = request[n].transfer /\ SameSelection(row, request[n])
    /\ UNCHANGED <<progress, wardrobe>>

Accept(n) ==
    /\ Pending(n)
    /\ Apply(n) \/ Repeat(n)
    /\ answer' = [answer EXCEPT ![n] = "ok"]
    /\ \E row \in progress' :
          /\ row.transfer = request[n].transfer
          /\ shown' = [shown EXCEPT ![n] = row]
    /\ UNCHANGED request

\* The caller is told nothing definite; the save may still take effect, now or later.
Lose(n) ==
    /\ Pending(n)
    /\ answer' = [answer EXCEPT ![n] = "error"]
    /\ UNCHANGED <<request, progress, wardrobe, shown>>

ApplyLate(n) ==
    /\ request[n] \in Inputs /\ answer[n] = "error"
    /\ Apply(n)
    /\ UNCHANGED <<request, answer, shown>>

Refuse(n) ==
    /\ Pending(n)
    /\ \E row \in progress : row.transfer = request[n].transfer /\ ~SameSelection(row, request[n])
    /\ answer' = [answer EXCEPT ![n] = "conflict"]
    /\ UNCHANGED <<request, progress, wardrobe, shown>>

Edit(i, patch) ==
    /\ ValidPatch(patch)
    /\ wardrobe' = (wardrobe \ {i}) \cup {Patched(i, patch)}
    /\ UNCHANGED <<request, progress, answer, shown>>

Next ==
    \/ \E n \in Attempts : \E in \in Inputs : Ask(n, in)
    \/ \E n \in Attempts : Accept(n) \/ Lose(n) \/ ApplyLate(n) \/ Refuse(n)
    \/ \E i \in wardrobe : \E patch \in Patches : Edit(i, patch)

Spec == Init /\ [][Next]_lvars
==============================================================================
