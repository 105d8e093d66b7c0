------------------------------ MODULE Metrics ------------------------------
(***************************************************************************)
(* GET /metrics (metrics in internal/httpapi/handler.go) beside a          *)
(* QueryManager at work.  The handler takes its readings one after         *)
(* another: two counters, which no lock protects, the list of queries, and *)
(* the states of their executors.                                          *)
(*                                                                         *)
(* CountRunning is a faulty version of CountListed, used by nothing.       *)
(***************************************************************************)
EXTENDS QueryManager

VARIABLE scrape  \* how far the handler is, and what it has read

mvars == <<vars, scrape>>

NoReadings ==
  [step |-> "idle", moves |-> 0, in |-> 0, out |-> 0, active |-> 0, states |-> 0]

MetricsInit == Init /\ scrape = NoReadings

(* How often the table has changed. *)
Moves == registered + unregistered

ScrapeRegistered ==
  /\ scrape.step = "idle"
  /\ scrape' = [scrape EXCEPT !.step = "in", !.moves = Moves, !.in = registered]
  /\ UNCHANGED vars

ScrapeUnregistered ==
  /\ scrape.step = "in"
  /\ scrape' = [scrape EXCEPT !.step = "counted", !.out = unregistered]
  /\ UNCHANGED vars

CountRunning == Cardinality({i \in Incs : exec[i] \in Running})
CountListed  == Cardinality(Registered)

ScrapeList ==
  /\ scrape.step = "counted"
  /\ lock = None
  /\ scrape' = [scrape EXCEPT !.step = "listed", !.active = CountListed]
  /\ UNCHANGED vars

(* An executor that failed to start has no state to give. *)
Stateful == {id \in Registered : exec[queries[id]] # "failed"}

ScrapeStates ==
  /\ scrape.step = "listed"
  /\ lock = None
  /\ scrape' = [scrape EXCEPT !.step = "full", !.states = Cardinality(Stateful)]
  /\ UNCHANGED vars

Answer ==
  /\ scrape.step = "full"
  /\ scrape' = NoReadings
  /\ UNCHANGED vars

MetricsNext ==
  \/ Next /\ UNCHANGED scrape
  \/ ScrapeRegistered
  \/ ScrapeUnregistered
  \/ ScrapeList
  \/ ScrapeStates
  \/ Answer

MetricsSpec == MetricsInit /\ [][MetricsNext]_mvars
-----------------------------------------------------------------------------
(***************************************************************************)
(* The readings belong to different moments.  They disagree by no more     *)
(* than the registrations and removals completed meanwhile, and the        *)
(* executors that failed to start.                                         *)
(***************************************************************************)
Apart(a, b, n) == a - b <= n /\ b - a <= n

MetricsExplained ==
  LET meanwhile == Moves - scrape.moves
      failed    == Cardinality({i \in Incs : exec[i] = "failed"})
  IN  scrape.step = "full" =>
        /\ Apart(scrape.active, scrape.in - scrape.out, meanwhile)
        /\ Apart(scrape.active, scrape.states, meanwhile + failed)
=============================================================================
