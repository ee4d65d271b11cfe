--------------------------- MODULE IndexerProcess ---------------------------
(***************************************************************************)
(* The process of cmd/elasticindexer from its start to its end: the set-up *)
(* of the cluster, the web server with the metrics, the request for the    *)
(* settings, the handlers of messages, the signals, and a restart by the   *)
(* operator.  Another starter, an indexer or the tool indices-creator,     *)
(* sets the same cluster up meanwhile.                                     *)
(***************************************************************************)
EXTENDS ElasticSetup, StatusMetrics

CONSTANTS
  self,         \* the starter whose whole process is modelled
  MaxRestarts,  \* bound on the number of restarts
  MaxSignals    \* bound on the number of signals, over all restarts

ASSUME ProcessAssumption ==
  self \in Starters /\ ~IsCreator[self] /\ MaxRestarts \in Nat /\ MaxSignals \in Nat

VARIABLES
  main,       \* where startIndexer is
  web,        \* the http server
  timer,      \* the timer of requestSettings
  interrupt,  \* number of signals in the channel interrupt
  signals,    \* number of signals sent
  restarts    \* number of restarts

processVars == <<main, web, timer, interrupt, signals, restarts>>
vars == <<setupVars, metricsVars, processVars>>

\* The payload handler is set and the process lives.
Handling == main \notin {"create indexer", "exited"}
\* signal.Notify was called.
Notified == main \in {"select", "send", "wait", "close host", "close web server"}

Init ==
  /\ SetupInit
  /\ MetricsInit
  /\ main = "create indexer"
  /\ web = "none" /\ timer = "running"
  /\ interrupt = 0 /\ signals = 0 /\ restarts = 0
-----------------------------------------------------------------------------
\* NewElasticProcessor inside CreateWsIndexer; then the payload handler is set.
CreateWsIndexer ==
  /\ main = "create indexer"
  /\ \/ SetupStep(self) /\ UNCHANGED main
     \/ SetUp(self) /\ main' = "start web server" /\ UNCHANGED setupVars
  /\ UNCHANGED <<metricsVars, web, timer, interrupt, signals, restarts>>

\* What is left of a process that ended.
ProcessEnds ==
  /\ main' = "exited"
  /\ web' = "none" /\ timer' = "running" /\ interrupt' = 0
  /\ MetricsReset

CreateWsIndexerFails ==
  /\ main = "create indexer"
  /\ CreateFails(self)
  /\ ProcessEnds
  /\ UNCHANGED <<signals, restarts>>

\* StartHttpServer; the interface may be "off" in the configuration.
StartHttpServer ==
  /\ main = "start web server"
  /\ main' = "notify"
  /\ web' \in {"none", "starting"}
  /\ UNCHANGED <<setupVars, metricsVars, timer, interrupt, signals, restarts>>

\* loadApiConfig, CreateWebServer or StartHttpServer returns an error.
StartHttpServerFails ==
  /\ main = "start web server"
  /\ ProcessEnds
  /\ UNCHANGED <<setupVars, signals, restarts>>

\* The goroutine httpServer.Start: an error of ListenAndServe is only logged.
ListenAndServe ==
  /\ web = "starting"
  /\ web' \in {"listening", "failed"}
  /\ UNCHANGED <<setupVars, metricsVars, main, timer, interrupt, signals, restarts>>

Notify ==
  /\ main = "notify"
  /\ main' = "select"
  /\ timer' = "running"
  /\ UNCHANGED <<setupVars, metricsVars, web, interrupt, signals, restarts>>

TimerFires ==
  /\ main = "select" /\ timer = "running"
  /\ timer' = "fired"
  /\ UNCHANGED <<setupVars, metricsVars, main, web, interrupt, signals, restarts>>

\* Mutant: the select of requestSettings has no case for the channel.
selectTimerOnly == main = "select" /\ FALSE

\* The two cases of the select.
SelectsClose == main = "select" /\ interrupt > 0

SelectTimer ==
  /\ main = "select" /\ timer = "fired"
  /\ main' = "send"
  /\ UNCHANGED <<setupVars, metricsVars, web, timer, interrupt, signals, restarts>>

SelectClose ==
  /\ SelectsClose
  /\ main' = "close host"
  /\ interrupt' = 0
  /\ UNCHANGED <<setupVars, metricsVars, web, timer, signals, restarts>>

\* host.Send: there may be no connection yet, and it is tried again.
Send ==
  /\ main = "send"
  /\ \/ main' = "wait" /\ UNCHANGED timer
     \/ main' = "select" /\ timer' = "running"
  /\ UNCHANGED <<setupVars, metricsVars, web, interrupt, signals, restarts>>

Interrupted ==
  /\ main = "wait" /\ interrupt > 0
  /\ main' = "close host"
  /\ interrupt' = 0
  /\ UNCHANGED <<setupVars, metricsVars, web, timer, signals, restarts>>

\* wsHost.Close, whose error is only logged.
CloseHost ==
  /\ main = "close host"
  /\ main' = "close web server"
  /\ UNCHANGED <<setupVars, metricsVars, web, timer, interrupt, signals, restarts>>

\* webServer.Close waits for the requests, for a second at most; then the
\* program ends.
CloseWebServer ==
  /\ main = "close web server"
  /\ ProcessEnds
  /\ UNCHANGED <<setupVars, signals, restarts>>
-----------------------------------------------------------------------------
\* SIGINT or SIGTERM.  The runtime does not wait for room in the channel.
Signal ==
  /\ main # "exited" /\ signals < MaxSignals
  /\ signals' = signals + 1
  /\ \/ /\ Notified
        /\ interrupt' = 1
        /\ UNCHANGED <<setupVars, metricsVars, main, web, timer>>
     \/ /\ ~Notified
        /\ setup' = [setup EXCEPT ![self] = NotStarted]
        /\ ProcessEnds
        /\ UNCHANGED <<cluster, mapOrder, failures, aliasLost>>
  /\ UNCHANGED restarts

\* The runtime ends a process that reads and writes a map at the same time.
Crash ==
  /\ Handling /\ ConcurrentMapAccess
  /\ ProcessEnds
  /\ UNCHANGED <<setupVars, signals, restarts>>

Restart ==
  /\ main = "exited" /\ restarts < MaxRestarts
  /\ restarts' = restarts + 1
  /\ main' = "create indexer"
  /\ setup' = [setup EXCEPT ![self] = NotStarted]
  /\ UNCHANGED <<cluster, mapOrder, failures, aliasLost, metricsVars, web, timer, interrupt, signals>>

\* A handler of messages: its request to the cluster, recorded in the metrics
\* by the transport.  After wsHost.Close no new message comes.
StartRequest(h) ==
  /\ Handling /\ main # "close web server"
  /\ \E outcome \in Outcomes : Lock(h, outcome)
  /\ \E x \in IndexNames : WriteTo(x)
  /\ UNCHANGED <<mapOrder, setup, failures, aliasLost, processVars>>

Record(h) ==
  /\ Handling
  /\ CountOperation(h) \/ CountError(h) \/ CountCode(h)
  /\ UNCHANGED <<setupVars, processVars>>

ServeRequest(r) ==
  /\ Handling
  /\ web = "listening"
  /\ Serve(r)
  /\ UNCHANGED <<setupVars, processVars>>

OtherStarts(p) ==
  /\ p # self
  /\ SetupStep(p) \/ CreateFails(p)
  /\ UNCHANGED <<metricsVars, processVars>>

Main ==
  \/ CreateWsIndexer \/ CreateWsIndexerFails \/ StartHttpServer \/ StartHttpServerFails \/ Notify
  \/ SelectTimer \/ SelectClose \/ Send \/ Interrupted \/ CloseHost \/ CloseWebServer

Next ==
  \/ Main \/ ListenAndServe \/ TimerFires \/ Signal \/ Crash \/ Restart
  \/ \E h \in Recorders : StartRequest(h) \/ Record(h)
  \/ \E r \in Readers : ServeRequest(r)
  \/ \E p \in Starters : OtherStarts(p)

Spec == Init /\ [][Next]_vars

\* The main goroutine runs, and a select takes a case that stays ready: the
\* runtime picks one of the ready cases at random.
FairSpec == Spec /\ WF_vars(Main) /\ SF_vars(SelectClose) /\ WF_vars(TimerFires)
-----------------------------------------------------------------------------
\* When a starter says that the cluster is set up, every index it handles was
\* made from its template and has its alias, and no write has created an index
\* in the place of an alias, whatever the other starters do, whichever of them
\* were killed half way, and whichever requests failed.  The tool
\* indices-creator is excepted where its alias request failed.
SetupComplete == \A p \in Starters : SetUp(p) => Ready(p)

\* An answer for Prometheus, whose counters are read one by one while handlers
\* count, never has more errors than operations.
ScrapeConsistent ==
  \A r \in Readers :
    reader[r].pc = "answered" /\ reader[r].endpoint = "prometheus-metrics"
      => reader[r].errors <= reader[r].operations

\* A signal that came after signal.Notify ends the process, also while the
\* observer cannot be reached and the settings are requested again and again.
ShutdownEnds == (Notified /\ interrupt > 0) ~> main = "exited"
=============================================================================
