---------------------------- MODULE SessionEpochs ----------------------------
(***************************************************************************)
(* What the daemon promises about its debug sessions, whatever goroutine   *)
(* does the work (SessionID in internal/daemon/session.go, App.dap in      *)
(* internal/daemon/app.go): sessions follow one another, each is attached  *)
(* to an adapter at most once, and a session that lost its adapter never   *)
(* gets one again.                                                         *)
(***************************************************************************)
EXTENDS Integers

VARIABLES
    epoch,   \* the number of the current session
    phase    \* "fresh": no adapter yet; "attached"; "over": adapter gone

Init == epoch = 0 /\ phase = "fresh"

\* A new attach request resets the session, in whatever phase the old one is.
Renew == epoch' = epoch + 1 /\ phase' = "fresh"

Attach == phase = "fresh" /\ phase' = "attached" /\ UNCHANGED epoch

Lose == phase = "attached" /\ phase' = "over" /\ UNCHANGED epoch

Next == Renew \/ Attach \/ Lose

Spec == Init /\ [][Next]_<<epoch, phase>>
=============================================================================
