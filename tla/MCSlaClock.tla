------------------------------ MODULE MCSlaClock ------------------------------
(* Small instances of SlaClock: a calendar with a closed period, a short    *)
(* workflow with one waiting status of each kind, and reopening.            *)
EXTENDS SlaClock, FiniteSets, TLC

MCKinds  == {"first_response", "resolution"}
MCTarget == [first_response |-> 2, resolution |-> 3]

(* Business hours: instants 0, 1, 3, 4, ... are open; 2 is closed.          *)
MCClosed  == {2}
MCElapsed == [t \in 0 .. Horizon |-> Cardinality({u \in 0 .. t - 1 : u \notin MCClosed})]

MCEdges ==
  { <<"new", "in_progress">>,
    <<"in_progress", "waiting_requester">>, <<"waiting_requester", "in_progress">>,
    <<"in_progress", "waiting_it">>, <<"waiting_it", "in_progress">>,
    <<"waiting_requester", "waiting_it">>,
    <<"in_progress", "resolved">>, <<"resolved", "reopened">>,
    <<"reopened", "in_progress">> }

MCWaiting == ("waiting_requester" :> "paused_requester") @@ ("waiting_it" :> "paused_it")
=============================================================================
