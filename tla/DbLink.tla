------------------------------- MODULE DbLink -------------------------------
(***************************************************************************)
(* The kiosk's view of PostgreSQL: DbState.is_online and the watch loop    *)
(* that keeps it, beside the real reachability of the server, which the    *)
(* program only learns from the calls it makes.                            *)
(*                                                                         *)
(* The flag is written from two sides: the watch loop swaps in what its    *)
(* last probe saw, and every failing call stores FALSE.  A probe and its   *)
(* swap are two steps, so a swap may overwrite a newer mark_offline.       *)
(***************************************************************************)

VARIABLES
    pgUp,      \* PostgreSQL answers (the environment's, never read directly)
    online,    \* DbState.is_online
    probe      \* "asleep", or what the last SELECT 1 of the watch loop saw

linkVars == <<pgUp, online, probe>>

LinkTypeOK ==
    /\ pgUp \in BOOLEAN
    /\ online \in BOOLEAN
    /\ probe \in {"asleep", "answered", "unanswered"}

\* A process that has just started: AtomicBool::new(false), no probe yet.
LinkInit ==
    /\ pgUp \in BOOLEAN
    /\ online = FALSE
    /\ probe = "asleep"

PgGoesDown == pgUp  /\ pgUp' = FALSE /\ UNCHANGED <<online, probe>>
PgComesUp  == ~pgUp /\ pgUp' = TRUE  /\ UNCHANGED <<online, probe>>

\* probe(): SELECT 1 under PING_TIMEOUT, reconnecting a missing pool first.
Probe ==
    /\ probe = "asleep"
    /\ probe' = IF pgUp THEN "answered" ELSE "unanswered"
    /\ UNCHANGED <<pgUp, online>>

\* watch_loop: is_online.swap(online_now), then sleep.
SwapOnline ==
    /\ probe # "asleep"
    /\ online' = (probe = "answered")
    /\ probe' = "asleep"
    /\ UNCHANGED pgUp

\* The only transition that makes the watch loop spawn run_sync.
Reconnects == ~online /\ probe = "answered"

\* A call that PostgreSQL did not answer: mark_offline.  pgUp may still have
\* been TRUE when the statement ran; then the reply is what was lost and the
\* connection is gone.
CallFails == pgUp' = FALSE /\ online' = FALSE /\ UNCHANGED probe
=============================================================================
