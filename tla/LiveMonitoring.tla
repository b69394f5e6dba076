--------------------------- MODULE LiveMonitoring ---------------------------
(***************************************************************************)
(* LiveMonitoring: monitoring runs (scheduler.py, monitoring.py) that read *)
(* the status of one auction through the browser controller and persist    *)
(* every check (monitoring_storage.py).  Each caller of the controller is  *)
(* a run; another application may write to the same database.              *)
(***************************************************************************)
EXTENDS BrowserController

CONSTANT MaxChecks   \* bound: the database is full

ASSUME ChecksAssumption == MaxChecks \in Nat /\ None \notin Status

VARIABLES
  run,          \* where each run is
  stopAsked,    \* its stop event
  baseline,     \* last_known_status in its monitoring CSV
  checks,       \* monitoring_checks, in the order of the rows
  transitions,  \* monitoring_status_transitions
  latest        \* monitoring_latest_status, None without a row

storedVars == <<checks, transitions, latest>>
runVars == <<run, stopAsked, baseline>>
vars == <<controllerVars, runVars, storedVars>>

MInit ==
  /\ Init
  /\ run = [c \in Caller |-> "off"]
  /\ stopAsked = [c \in Caller |-> FALSE]
  /\ baseline \in [Caller -> Status]
  /\ checks = << >> /\ transitions = << >> /\ latest = None

-----------------------------------------------------------------------------
(* persist: one transaction. *)

\* Mutant: the transaction trusts the status the run has started from.
EffectiveFromCsv(given) == given

Effective(given) == IF latest = None THEN given ELSE latest

PersistError(given) ==
  LET previous == Effective(given) IN
  /\ checks' = Append(checks, [previous |-> previous, current |-> previous, result |-> "Error"])
  /\ UNCHANGED <<transitions, latest>>

PersistStatus(given, status) ==
  LET previous == Effective(given)
      changed == previous # status
  IN /\ checks' = Append(checks, [previous |-> previous, current |-> status,
                                  result |-> IF changed THEN "Changed" ELSE "Success"])
     /\ transitions' = IF changed
                       THEN Append(transitions, [check |-> Len(checks) + 1,
                                                 previous |-> previous, current |-> status])
                       ELSE transitions
     /\ latest' = status

Persist(given, answer) ==
  /\ Len(checks) < MaxChecks
  /\ IF answer \in Status THEN PersistStatus(given, answer) ELSE PersistError(given)

\* Another application on the same database persists a check.
OtherPersists ==
  /\ \E given \in Status, answer \in Status \cup {"notFound"} : Persist(given, answer)
  /\ UNCHANGED <<controllerVars, runVars>>

-----------------------------------------------------------------------------
(* A run: run_forever, check_record. *)

StartRun(c) ==
  /\ run[c] = "off"
  /\ run' = [run EXCEPT ![c] = "check"]
  /\ stopAsked' = [stopAsked EXCEPT ![c] = FALSE]
  /\ baseline' \in {[baseline EXCEPT ![c] = s] : s \in Status}
  /\ UNCHANGED <<controllerVars, storedVars>>

StopRun(c) ==
  /\ run[c] # "off" /\ ~stopAsked[c]
  /\ stopAsked' = [stopAsked EXCEPT ![c] = TRUE]
  /\ UNCHANGED <<controllerVars, run, baseline, storedVars>>

\* A check after the stop event is Skipped, and persist ignores it.
Skip(c) ==
  /\ run[c] = "check" /\ stopAsked[c]
  /\ run' = [run EXCEPT ![c] = "wait"]
  /\ UNCHANGED <<controllerVars, stopAsked, baseline, storedVars>>

CheckRecord(c) ==
  /\ run[c] = "check" /\ ~stopAsked[c]
  /\ run' = [run EXCEPT ![c] = "lookup"]
  /\ UNCHANGED <<controllerVars, stopAsked, baseline, storedVars>>

LookupStep(c) ==
  /\ run[c] = "lookup"
  /\ CallStep(c)
  /\ UNCHANGED <<runVars, storedVars>>

\* The call is over: its exception or its status is used.
LeaveLookup(c, place) ==
  /\ run[c] = "lookup"
  /\ Return(c)
  /\ run' = [run EXCEPT ![c] = place]
  /\ UNCHANGED <<stopAsked, baseline>>

\* A status, or an auction that is absent from a valid table: the run goes on.
RecordCheck(c) ==
  /\ LeaveLookup(c, "wait")
  /\ Outcome(c) \in Status \cup {"notFound"}
  /\ Persist(baseline[c], Outcome(c))

\* Every other failure of the page is persisted and ends the run.
RecordFailure(c) ==
  /\ LeaveLookup(c, "off")
  /\ Outcome(c) \notin Status \cup {"notFound"}
  /\ Persist(baseline[c], Outcome(c))

\* The transaction fails and is rolled back: the run ends.
PersistFails(c) ==
  /\ LeaveLookup(c, "off")
  /\ UNCHANGED storedVars

\* Mutant: the loop does not ask the stop event.
IntervalUnasked(c) ==
  /\ run[c] = "wait"
  /\ run' = [run EXCEPT ![c] = "check"]
  /\ UNCHANGED <<controllerVars, stopAsked, baseline, storedVars>>

\* The event is set, or the interval is over.
Interval(c) ==
  /\ run[c] = "wait"
  /\ run' = [run EXCEPT ![c] = IF stopAsked[c] THEN "off" ELSE "check"]
  /\ UNCHANGED <<controllerVars, stopAsked, baseline, storedVars>>

-----------------------------------------------------------------------------
RunStep(c) ==
  \/ Skip(c) \/ CheckRecord(c) \/ LookupStep(c)
  \/ RecordCheck(c) \/ RecordFailure(c) \/ PersistFails(c) \/ Interval(c)

Next ==
  \/ (Work \/ World) /\ UNCHANGED <<runVars, storedVars>>
  \/ \E c \in Caller : RunStep(c) \/ StartRun(c) \/ StopRun(c)
  \/ OtherPersists

Spec == MInit /\ [][Next]_vars

\* Every call of the worker and of a run has a timeout of its own.
FairSpec ==
  /\ Spec
  /\ WF_vars(Work /\ UNCHANGED <<runVars, storedVars>>)
  /\ \A c \in Caller : WF_vars(RunStep(c))

-----------------------------------------------------------------------------
Check == [previous: Status, current: Status, result: {"Success", "Changed", "Error"}]

TypeOK ==
  /\ ControllerTypeOK
  /\ run \in [Caller -> {"off", "check", "lookup", "wait"}]
  /\ stopAsked \in [Caller -> BOOLEAN]
  /\ baseline \in [Caller -> Status]
  /\ checks \in Seq(Check)
  /\ transitions \in Seq([check: Nat \ {0}, previous: Status, current: Status])
  /\ latest \in Status \cup {None}

Seen(n) == \E k \in 1..n : checks[k].result # "Error"

\* From the first successful one on, whatever the CSV of a run says and
\* whichever application writes, a check starts where the one before it ended.
ChecksChain ==
  /\ \A n \in 2..Len(checks) : Seen(n - 1) => checks[n].previous = checks[n - 1].current
  /\ latest = IF Seen(Len(checks)) THEN checks[Len(checks)].current ELSE None

\* The transitions are exactly the checks that changed the status, in order.
TransitionsAreChanges ==
  /\ {transitions[n].check : n \in DOMAIN transitions}
       = {k \in DOMAIN checks : checks[k].previous # checks[k].current}
  /\ \A n \in DOMAIN transitions :
       LET k == transitions[n].check IN
       /\ transitions[n].previous = checks[k].previous
       /\ transitions[n].current = checks[k].current
       /\ \A i \in 1..(n - 1) : transitions[i].check < k

\* The three tables tell one history of the auction, whichever runs and
\* applications have written it: the checks chain, latest is where the last of
\* them ended, and only a change of the status made a transition.
StatusHistory == ChecksChain /\ TransitionsAreChanges

\* A run that was asked to stop ends, wherever the browser and its lookup are.
RunEnds == \A c \in Caller : (stopAsked[c] /\ run[c] # "off") ~> (run[c] = "off")

=============================================================================
