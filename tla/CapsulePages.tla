---------------------------- MODULE CapsulePages ----------------------------
(***************************************************************************)
(* The guided journey and the capsule page in one tab.  The end of a       *)
(* creation is a timer of the journey that survives the page: wherever the *)
(* user has gone, it sends the tab to the capsule page.                    *)
(***************************************************************************)
EXTENDS GuidedJourney, CapsuleResult

VARIABLES
    page,   \* the page the tab shows
    strays, \* running timers of visits of the journey that are over
    moving  \* a navigation to the capsule page is under way

vars == <<journeyVars, result, page, strays, moving>>

Init ==
    /\ page = "elsewhere" /\ strays = 0 /\ moving = FALSE
    /\ Fresh /\ timers = 0 /\ Closed

\* Journey: its own state is lost with the page, its timers are not.
CloseJourney ==
    /\ OpenFresh
    /\ timers' = 0
    /\ strays' = strays + timers

\* The user goes to another page of the app.
GoElsewhere ==
    /\ page # "elsewhere"
    /\ page' = "elsewhere"
    /\ moving' = FALSE
    /\ CloseJourney /\ Close

GoToJourney ==
    /\ page = "elsewhere"
    /\ page' = "guided-journey"
    /\ moving' = FALSE
    /\ OpenFresh \/ OpenFromSearch
    /\ UNCHANGED <<timers, strays, result>>

GoToResult ==
    /\ page = "elsewhere"
    /\ page' = "capsule-result"
    /\ moving' = FALSE
    /\ \E c \in Capsules : OpenResult(c)
    /\ UNCHANGED <<journeyVars, strays>>

Journey ==
    /\ page = "guided-journey"
    /\ UserStep
    /\ strays + timers' <= MaxTimers
    /\ UNCHANGED <<result, page, strays, moving>>

\* The timer ends with the journey open: it says "created" and asks for the capsule page.
Created ==
    /\ page = "guided-journey"
    /\ TimerEnds
    /\ moving' = TRUE
    /\ UNCHANGED <<result, page, strays>>

\* The timer of an earlier visit ends: only the navigation is left of it.
StrayEnds ==
    /\ strays > 0
    /\ strays' = strays - 1
    /\ moving' = TRUE
    /\ UNCHANGED <<journeyVars, result, page>>

\* The capsule page arrives; if it is already shown it keeps its state.
Arrive ==
    /\ moving
    /\ moving' = FALSE
    /\ page' = "capsule-result"
    /\ IF page = "capsule-result" THEN UNCHANGED <<journeyVars, result, strays>>
       ELSE CloseJourney /\ \E c \in Capsules : OpenResult(c)

Edit ==
    /\ page = "capsule-result"
    /\ EditStep
    /\ UNCHANGED <<journeyVars, page, strays, moving>>

Next == GoElsewhere \/ GoToJourney \/ GoToResult \/ Journey \/ Created \/ StrayEnds \/ Arrive \/ Edit

Spec == Init /\ [][Next]_vars

-----------------------------------------------------------------------------
TypeOK ==
    /\ JourneyTypeOK /\ ResultTypeOK
    /\ page \in {"elsewhere", "guided-journey", "capsule-result"}
    /\ strays \in 0..MaxTimers /\ moving \in BOOLEAN

\* Adding an item to the capsule, in any state of the page, takes no look away.
AddingNeverLosesALook == [][page = "capsule-result" /\ page' = page => AddingTakesNothing]_vars
=============================================================================
