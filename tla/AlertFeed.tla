------------------------------ MODULE AlertFeed ------------------------------
(***************************************************************************)
(* What the transport promises to the coordinator, whatever it does with   *)
(* sockets, requests and timers: it shows maps the provider really         *)
(* published, while it is open it catches up with the provider, and once   *)
(* it is closed what it showed last stays.                                 *)
(***************************************************************************)
EXTENDS Integers

CONSTANTS MaxVersion, NoMap

VARIABLES
    truth,   \* newest map of the provider
    shown,   \* last map handed to the listener, or NoMap
    open     \* start() was called and stop() was not

feedState == <<truth, shown, open>>

FeedInit == truth = 0 /\ shown = NoMap /\ open = TRUE

\* The provider publishes.
Publish ==
    /\ truth < MaxVersion
    /\ truth' = truth + 1
    /\ UNCHANGED <<shown, open>>

\* The listener receives some published map.
Show ==
    /\ open
    /\ shown' \in 0 .. truth
    /\ UNCHANGED <<truth, open>>

Close ==
    /\ open
    /\ open' = FALSE
    /\ UNCHANGED <<truth, shown>>

FeedNext == Publish \/ Show \/ Close

\* The listener receives the newest map.
CatchUp == Show /\ shown # truth /\ shown' = truth

FeedSafety == FeedInit /\ [][FeedNext]_feedState
FeedSpec   == FeedSafety /\ WF_feedState(CatchUp)
=============================================================================
