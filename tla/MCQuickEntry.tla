---------------------------- MODULE MCQuickEntry ----------------------------
(* One merchant like any other, one to be confirmed every time.            *)
EXTENDS QuickEntry, TLC

MCPreferredOf == "shop" :> <<>> @@ "market" :> <<2>>

(* Two purchases, two calls in flight.                                     *)
MCScenarios ==
    {[entries |-> 2, edits |-> 0, calls |-> 2, ahead |-> TRUE, drops |-> FALSE]}
=============================================================================
