------------------------------ MODULE GuestData ------------------------------
(***************************************************************************)
(* The data of the guest-progress API (api/internal/guest/model.go and     *)
(* api/migrations/0004_guest_progress.sql), shared by the specification of *)
(* what it promises (GuestLedger) and of what it does (GuestSave).         *)
(* A preset is its position in the catalog's identifier order.             *)
(***************************************************************************)
EXTENDS Naturals, Sequences

CONSTANTS
    Users,       \* profiles.id values
    Transfers,   \* transfer identifiers chosen by browsers
    CatalogSize, \* number of presets in the embedded catalog
    WardrobeOf,  \* the wardrobe of each catalog preset
    Wardrobes,   \* the wardrobe names clients may send
    Picks,       \* the "picked" lists clients may send
    MaxPicked,   \* longest list accepted
    Statuses,    \* item statuses the schema accepts
    Patches,     \* item patches clients may send
    Attempts,    \* HTTP calls of the save endpoint (a retry is a new call)
    NoInput,     \* the input of a call that was not made yet
    NoRow,       \* the row of a call that was not answered with one
    Keep         \* a field a patch leaves out

Presets == 1..CatalogSize

Inputs == [transfer : Transfers, user : Users, wardrobe : Wardrobes, picked : Picks]

Rows == [id : Attempts, transfer : Transfers, user : Users,
         wardrobe : Wardrobes, picked : Picks]

ItemRows == [user : Users, preset : Presets, status : Statuses, favorite : BOOLEAN]

ASSUME CatalogAssumption == CatalogSize \in Nat
ASSUME WardrobeAssumption == WardrobeOf \in [Presets -> {"female", "male"}]
ASSUME PicksAssumption == Picks \subseteq Seq(Nat)
ASSUME StatusAssumption == "uncapsulated" \in Statuses
ASSUME PatchAssumption == \A patch \in Patches : patch.favorite \in BOOLEAN \cup {Keep}
ASSUME SentinelAssumption == NoRow \notin Rows

Answers == {"none", "ok", "conflict", "invalid", "error"}

PickedSet(in) == {in.picked[i] : i \in DOMAIN in.picked}

\* Input.snapshots: every identifier is in the catalog, once, and of the wardrobe.
ValidSelection(in) ==
    /\ in.wardrobe \in {"female", "male", "mixed"}
    /\ Len(in.picked) \in 1..MaxPicked
    /\ \A i \in DOMAIN in.picked :
          /\ in.picked[i] \in Presets
          /\ in.wardrobe # "mixed" => WardrobeOf[in.picked[i]] = in.wardrobe
          /\ \A j \in DOMAIN in.picked : in.picked[i] = in.picked[j] => i = j

Owns(items, u, p) == \E i \in items : i.user = u /\ i.preset = p

NewRow(n, in) ==
    [id |-> n, transfer |-> in.transfer, user |-> in.user,
     wardrobe |-> in.wardrobe, picked |-> in.picked]

\* The row a new wardrobe entry starts as (column defaults).
NewItem(u, p) == [user |-> u, preset |-> p, status |-> "uncapsulated", favorite |-> FALSE]

SameSelection(row, in) ==
    row.user = in.user /\ row.wardrobe = in.wardrobe /\ row.picked = in.picked

\* validPatch: at least one field, the status one of the schema's.
ValidPatch(patch) ==
    /\ patch.status # Keep \/ patch.favorite # Keep
    /\ patch.status # Keep => patch.status \in Statuses

\* SET status = COALESCE($3, status), favorite = COALESCE($4, favorite)
Patched(i, patch) ==
    [i EXCEPT !.status = IF patch.status = Keep THEN @ ELSE patch.status,
              !.favorite = IF patch.favorite = Keep THEN @ ELSE patch.favorite]
==============================================================================
