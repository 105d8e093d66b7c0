---------------------------- MODULE Incarnation ----------------------------
(***************************************************************************)
(* The life of one executor, as its manager may rely on it: it starts or   *)
(* fails to, polls while its context lasts, leaves only when it is told to,*)
(* and holds at most one batch.  It is told to end first by its context    *)
(* and then by its stop channel, and neither is taken back.  Module        *)
(* Executor, with everything inside, lives like this, and so does each     *)
(* incarnation of QueryManager.                                            *)
(***************************************************************************)
VARIABLES
  place,      \* "starting", "failed", "select", "holding" a batch, "telling" of
              \* a failure, "leaving", or "ended"
  cancelled,  \* its context is cancelled
  stopped     \* its stop channel is closed

life == <<place, cancelled, stopped>>

Born == place = "starting" /\ cancelled = FALSE /\ stopped = FALSE

Move(from, to) == place = from /\ place' = to /\ UNCHANGED <<cancelled, stopped>>

Starts == Move("starting", "select")
Fails  == Move("starting", "failed")

Fetches == ~cancelled /\ Move("select", "holding")
Settles == Move("holding", "select")

(* A poll fails before it holds a batch, or cannot send the one it holds;  *)
(* telling so may wait for a client, and so may telling the end.           *)
Errs   == Move("select", "telling")
Unsent == Move("holding", "telling")
Told   == Move("telling", "select")
Leaves == (cancelled \/ stopped) /\ Move("select", "leaving")
Ends   == Move("leaving", "ended")

IsCancelled ==
  /\ place # "starting"
  /\ cancelled' = TRUE
  /\ UNCHANGED <<place, stopped>>

(* What never ran has no stop channel to close. *)
IsStopped ==
  /\ cancelled
  /\ place \notin {"starting", "failed"}
  /\ stopped' = TRUE
  /\ UNCHANGED <<place, cancelled>>

Live ==
  \/ Starts \/ Fails \/ Fetches \/ Settles \/ Errs \/ Unsent \/ Told
  \/ Leaves \/ Ends \/ IsCancelled \/ IsStopped

LifeSpec == Born /\ [][Live]_life
=============================================================================
