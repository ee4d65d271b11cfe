---------------------------- MODULE StatusMetrics ----------------------------
(***************************************************************************)
(* metrics/statusMetrics.go: the counters of one topic.  The handlers of   *)
(* messages and the requests they send record under a lock.  A reader      *)
(* copies the map of topics under the lock and then reads the counters     *)
(* without it, one after the other.                                        *)
(***************************************************************************)
EXTENDS Naturals, FiniteSets

CONSTANTS
  Recorders,  \* goroutines that call AddIndexingData
  Readers,    \* requests to the web server
  MaxRecords  \* bound on the number of records

ASSUME MetricsAssumption == MaxRecords \in Nat /\ "free" \notin Recorders

VARIABLES
  operations,  \* OperationsCount
  errors,      \* TotalErrorsCount
  lock,        \* the recorder that has the lock, or "free"
  recorder,    \* recorder[h]: state of AddIndexingData
  reader       \* reader[r]: state of a request and what it has read

metricsVars == <<operations, errors, lock, recorder, reader>>

\* How a recorded operation ended: well, without an answer, or with a status
\* code that is an error.
Outcomes == {"ok", "gotError", "isErrorCode"}
NotRecording == [pc |-> "idle", outcome |-> "ok"]
Endpoints == {"metrics", "prometheus-metrics"}
NotReading == [pc |-> "idle", endpoint |-> "metrics", operations |-> 0, errors |-> 0]

MetricsInit ==
  /\ operations = 0 /\ errors = 0
  /\ lock = "free"
  /\ recorder = [h \in Recorders |-> NotRecording]
  /\ reader = [r \in Readers |-> NotReading]

\* The process is gone, and its counters with it.
MetricsReset ==
  /\ operations' = 0 /\ errors' = 0
  /\ lock' = "free"
  /\ recorder' = [h \in Recorders |-> NotRecording]
  /\ reader' = [r \in Readers |-> NotReading]

\* AddIndexingData, field by field.
Lock(h, outcome) ==
  /\ recorder[h].pc = "idle" /\ lock = "free"
  /\ operations < MaxRecords
  /\ lock' = h
  /\ recorder' = [recorder EXCEPT ![h] = [pc |-> "operations", outcome |-> outcome]]
  /\ UNCHANGED <<operations, errors, reader>>

CountOperation(h) ==
  /\ recorder[h].pc = "operations"
  /\ operations' = operations + 1
  /\ recorder' = [recorder EXCEPT ![h].pc = "errors"]
  /\ UNCHANGED <<errors, lock, reader>>

CountError(h) ==
  /\ recorder[h].pc = "errors"
  /\ errors' = IF recorder[h].outcome = "ok" THEN errors ELSE errors + 1
  /\ recorder' = [recorder EXCEPT ![h].pc = "codes"]
  /\ UNCHANGED <<operations, lock, reader>>

\* A write to the map ErrorsCount, whose values are left out, if there is a
\* code; the lock is released.
CountCode(h) ==
  /\ recorder[h].pc = "codes"
  /\ recorder' = [recorder EXCEPT ![h] = NotRecording]
  /\ lock' = "free"
  /\ UNCHANGED <<operations, errors, reader>>

\* getAllUnprotected copies the pointers to the counters.
GetAll(r, endpoint) ==
  /\ reader[r].pc = "idle" /\ lock = "free"
  /\ reader' = [reader EXCEPT ![r] = [NotReading EXCEPT !.pc = "first", !.endpoint = endpoint]]
  /\ UNCHANGED <<operations, errors, lock, recorder>>

\* Mutant: the text has the operations before the errors, as the JSON does.
operationsFirst(r) == TRUE

\* The JSON encoder visits the fields in the order of the struct; the text for
\* Prometheus has the errors first.
ReadsOperationsFirst(r) == reader[r].endpoint = "metrics"

ReadCounter(r) ==
  /\ reader[r].pc \in {"first", "second"}
  /\ LET isOperations == (reader[r].pc = "first") = ReadsOperationsFirst(r)
         next == IF reader[r].pc = "first" THEN "second" ELSE "codes"
     IN  reader' = [reader EXCEPT ![r] =
           IF isOperations THEN [@ EXCEPT !.pc = next, !.operations = operations]
                           ELSE [@ EXCEPT !.pc = next, !.errors = errors]]
  /\ UNCHANGED <<operations, errors, lock, recorder>>

\* The map ErrorsCount is iterated; then the answer is sent.
IterateCodes(r) ==
  /\ reader[r].pc = "codes"
  /\ reader' = [reader EXCEPT ![r].pc = "answered"]
  /\ UNCHANGED <<operations, errors, lock, recorder>>

EndRequest(r) ==
  /\ reader[r].pc = "answered"
  /\ reader' = [reader EXCEPT ![r] = NotReading]
  /\ UNCHANGED <<operations, errors, lock, recorder>>

Serve(r) == (\E endpoint \in Endpoints : GetAll(r, endpoint)) \/ ReadCounter(r) \/ IterateCodes(r) \/ EndRequest(r)

\* The runtime may notice that a map is written while it is iterated, and
\* then ends the process.
ConcurrentMapAccess ==
  /\ \E r \in Readers : reader[r].pc = "codes"
  /\ \E h \in Recorders : recorder[h].pc = "codes" /\ recorder[h].outcome = "isErrorCode"
=============================================================================
