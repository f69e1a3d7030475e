----------------------------- MODULE McpServer ------------------------------
(***************************************************************************)
(* opencdc-mcp: the tool handlers of McpService, the AppState they share,  *)
(* the background task of run_snapshot and the shutdown in main.           *)
(*                                                                         *)
(* rmcp runs every request in a task of its own, so handlers interleave at *)
(* their await points.  Each action is the code between two of them.  The  *)
(* sections under the `connectors' lock contain no await point but the     *)
(* uncontended active_sinks lock of shutdown_all, so each is one step.     *)
(* Replies carry no state of the server and are not modelled.              *)
(***************************************************************************)
EXTENDS Naturals, Sequences, FiniteSets, FiniteSetsExt, SequencesExt

CONSTANTS
    Requests,       \* slots for requests the client has outstanding at once
    Names,          \* connector names
    Tools,          \* the tools the client uses
    TableCounts,    \* lengths of the table lists given to snapshot_start
    MaxConcurrent,  \* OPENCDC_MAX_CONCURRENT_TOOLS; the code accepts 0
    HasRegistry,    \* whether a schema registry URL is configured
    MaxSnapshots    \* bound: snapshot_start requests

AllTools ==
    {"connector_list", "connector_register", "connector_remove",
     "connector_status", "snapshot_start", "schema_registry_subjects",
     "schema_registry_get"}

ASSUME McpAssumption ==
    /\ Tools \subseteq AllTools
    /\ TableCounts \subseteq Nat /\ IsFiniteSet(TableCounts)
    /\ MaxConcurrent \in Nat
    /\ IsFiniteSet(Requests)
    /\ IsFiniteSet(Names)
    /\ HasRegistry \in BOOLEAN
    /\ MaxSnapshots \in Nat

VARIABLES
    phase,      \* main(): "serving", "closing", "stopped" or "exited"
    connectors, \* AppState::connectors
    total,      \* AppState::total_events_received
    retired,    \* events counted by connectors removed since
    tasks,      \* tasks[n][k]: live snapshot tasks for name n and k tables
    permits,    \* free permits of AppState::rate_limiter
    queue,      \* requests waiting for a permit, first come first served
    pc,         \* where the handler of each request is
    call,       \* what each request asks for
    asked       \* snapshot_start requests so far

stateVars   == <<connectors, total, retired>>
limiterVars == <<permits, queue>>
vars == <<phase, stateVars, tasks, limiterVars, pc, call, asked>>

Absent == [status |-> "absent", received |-> 0, offset |-> "none"]
Fresh  == [status |-> "Stopped", received |-> 0, offset |-> "none"]
NoCall == [tool |-> "none"]

\* Only snapshot_start looks at a table list.
Calls ==
    [tool : Tools \ {"snapshot_start"}, name : Names, tables : {0}]
    \cup [tool : Tools \cap {"snapshot_start"}, name : Names, tables : TableCounts]

Registered(n)   == connectors[n].status # "absent"
Snapshotting(n) == connectors[n].status = "Snapshotting"
InProgress(r)   == pc[r] \notin {"idle", "waiting"}

Init ==
    /\ phase = "serving"
    /\ connectors = [n \in Names |-> Absent]
    /\ total = 0 /\ retired = 0
    /\ tasks = [n \in Names |-> [k \in TableCounts |-> 0]]
    /\ permits = MaxConcurrent /\ queue = <<>>
    /\ pc = [r \in Requests |-> "idle"]
    /\ call = [r \in Requests |-> NoCall]
    /\ asked = 0

-----------------------------------------------------------------------------
(* The rate limiter: a fair tokio semaphore.                               *)

\* A request arrives and its handler asks for a permit.  The service loop may
\* still hand out requests after main has left it.
Submit(r) ==
    /\ phase # "exited"
    /\ pc[r] = "idle"
    /\ \E c \in Calls :
        /\ IF c.tool = "snapshot_start"
           THEN asked < MaxSnapshots /\ asked' = asked + 1
           ELSE UNCHANGED asked
        /\ call' = [call EXCEPT ![r] = c]
    /\ \/ /\ permits > 0
          /\ permits' = permits - 1
          /\ pc' = [pc EXCEPT ![r] = "permit"]
          /\ UNCHANGED queue
       \/ /\ permits = 0
          /\ queue' = Append(queue, r)
          /\ pc' = [pc EXCEPT ![r] = "waiting"]
          /\ UNCHANGED permits
    /\ UNCHANGED <<phase, stateVars, tasks>>

\* Wrong variant: the permit is forgotten when the handler returns.
ReleaseLeaks(r) ==
    /\ phase # "exited"
    /\ pc[r] = "done"
    /\ pc' = [pc EXCEPT ![r] = "idle"]
    /\ call' = [call EXCEPT ![r] = NoCall]
    /\ UNCHANGED <<phase, stateVars, tasks, limiterVars, asked>>

\* Wrong variant: the next request is let in and the permit freed as well.
ReleaseTwice(r) ==
    /\ phase # "exited"
    /\ pc[r] = "done"
    /\ permits' = permits + 1
    /\ IF queue = <<>>
       THEN pc' = [pc EXCEPT ![r] = "idle"] /\ UNCHANGED queue
       ELSE /\ pc' = [pc EXCEPT ![r] = "idle", ![Head(queue)] = "permit"]
            /\ queue' = Tail(queue)
    /\ call' = [call EXCEPT ![r] = NoCall]
    /\ UNCHANGED <<phase, stateVars, tasks, asked>>

\* The handler returns and drops its permit: the longest waiting request gets
\* it, if there is one.
Release(r) ==
    /\ phase # "exited"
    /\ pc[r] = "done"
    /\ \/ /\ queue = <<>>
          /\ permits' = permits + 1
          /\ pc' = [pc EXCEPT ![r] = "idle"]
          /\ UNCHANGED queue
       \/ /\ queue # <<>>
          /\ pc' = [pc EXCEPT ![r] = "idle", ![Head(queue)] = "permit"]
          /\ queue' = Tail(queue)
          /\ UNCHANGED permits
    /\ call' = [call EXCEPT ![r] = NoCall]
    /\ UNCHANGED <<phase, stateVars, tasks, asked>>

-----------------------------------------------------------------------------
(* The handlers, from the moment they hold a permit.                       *)

\* Handler r leaves `from' for `to'.
Step(r, from, to) ==
    /\ phase # "exited"
    /\ pc[r] = from
    /\ pc' = [pc EXCEPT ![r] = to]
    /\ UNCHANGED <<phase, limiterVars, call, asked>>

\* connector_list and connector_status only read, whatever they find.
ConnectorList(r) ==
    /\ call[r].tool = "connector_list"
    /\ Step(r, "permit", "done")
    /\ UNCHANGED <<stateVars, tasks>>

ConnectorStatus(r) ==
    /\ call[r].tool = "connector_status"
    /\ Step(r, "permit", "done")
    /\ UNCHANGED <<stateVars, tasks>>

\* Wrong variant: registering again replaces the entry.
RegisterReplaces(r) ==
    /\ call[r].tool = "connector_register"
    /\ Step(r, "permit", "done")
    /\ connectors' = [connectors EXCEPT ![call[r].name] = Fresh]
    /\ UNCHANGED <<total, retired, tasks>>

\* connector_register keeps an entry that exists.
ConnectorRegister(r) ==
    LET n == call[r].name IN
    /\ call[r].tool = "connector_register"
    /\ Step(r, "permit", "done")
    /\ connectors' = IF Registered(n) THEN connectors
                     ELSE [connectors EXCEPT ![n] = Fresh]
    /\ UNCHANGED <<total, retired, tasks>>

\* connector_remove; a snapshot task of the connector lives on.
ConnectorRemove(r) ==
    LET n == call[r].name IN
    /\ call[r].tool = "connector_remove"
    /\ Step(r, "permit", "done")
    /\ retired' = retired + connectors[n].received
    /\ connectors' = [connectors EXCEPT ![n] = Absent]
    /\ UNCHANGED <<total, tasks>>

\* snapshot_start reads the status and lets go of the lock.  What the entry
\* may be by the time it is used is decided by the other handlers.
CheckStatus(r) ==
    LET status == connectors[call[r].name].status IN
    /\ call[r].tool = "snapshot_start"
    /\ Step(r, "permit", IF status \in {"Running", "Stopped"} THEN "checked" ELSE "done")
    /\ UNCHANGED <<stateVars, tasks>>

\* run_snapshot sets the status, whatever it is now.
MarkSnapshotting(r) ==
    LET n == call[r].name IN
    /\ Step(r, "checked", "marked")
    /\ connectors' = IF Registered(n)
                     THEN [connectors EXCEPT ![n].status = "Snapshotting"]
                     ELSE connectors
    /\ UNCHANGED <<total, retired, tasks>>

\* Wrong variant: there is nothing to spawn for an empty table list.
SpawnSkipsEmpty(r) ==
    /\ Step(r, "marked", "done")
    /\ tasks' = IF call[r].tables = 0 THEN tasks
                ELSE [tasks EXCEPT ![call[r].name][call[r].tables] = @ + 1]
    /\ UNCHANGED stateVars

\* run_snapshot spawns the task, whether or not the connector is still there.
SpawnSnapshot(r) ==
    /\ Step(r, "marked", "done")
    /\ tasks' = [tasks EXCEPT ![call[r].name][call[r].tables] = @ + 1]
    /\ UNCHANGED stateVars

\* The schema registry tools hold their permit during the HTTP request.
CallRegistry(r) ==
    /\ call[r].tool \in {"schema_registry_subjects", "schema_registry_get"}
    /\ Step(r, "permit", IF HasRegistry THEN "calling" ELSE "done")
    /\ UNCHANGED <<stateVars, tasks>>

\* The registry answers, fails, or its client times out.
RegistryAnswers(r) ==
    /\ Step(r, "calling", "done")
    /\ UNCHANGED <<stateVars, tasks>>

-----------------------------------------------------------------------------
(* The background task of run_snapshot, after its sleep.                   *)

\* A snapshot counts ten events for each of k tables, or of one for none.
EventsOf(k) == IF k = 0 THEN 10 ELSE 10 * k

SnapshotDone(n, k) ==
    [status |-> "Running",
     received |-> connectors[n].received + EventsOf(k),
     offset |-> "snapshot_done"]

\* Task of name n and k tables ends.
TaskEnds(n, k) ==
    /\ phase # "exited"
    /\ tasks[n][k] > 0
    /\ tasks' = [tasks EXCEPT ![n][k] = @ - 1]
    /\ UNCHANGED <<phase, retired, limiterVars, pc, call, asked>>

\* Wrong variant: the total is counted even if the connector is gone.
CompleteCountsAlways(n, k) ==
    /\ TaskEnds(n, k)
    /\ connectors' = IF Registered(n) THEN [connectors EXCEPT ![n] = SnapshotDone(n, k)]
                     ELSE connectors
    /\ total' = total + EventsOf(k)

\* Wrong variant: a removed connector is entered again.
CompleteInserts(n, k) ==
    /\ TaskEnds(n, k)
    /\ connectors' = [connectors EXCEPT ![n] = SnapshotDone(n, k)]
    /\ total' = total + EventsOf(k)

\* Wrong variant: the counters are updated, the status is left to others.
CompleteLeavesStatus(n, k) ==
    /\ TaskEnds(n, k)
    /\ IF Registered(n)
       THEN /\ connectors' = [connectors EXCEPT ![n].received = @ + EventsOf(k),
                                                ![n].offset = "snapshot_done"]
            /\ total' = total + EventsOf(k)
       ELSE UNCHANGED <<connectors, total>>

CompleteSnapshot(n, k) ==
    /\ TaskEnds(n, k)
    /\ \/ /\ Registered(n)
          /\ connectors' = [connectors EXCEPT ![n] = SnapshotDone(n, k)]
          /\ total' = total + EventsOf(k)
       \/ /\ ~Registered(n)
          /\ UNCHANGED <<connectors, total>>

-----------------------------------------------------------------------------
(* main().                                                                 *)

\* The transport closes or SIGINT arrives.
StopServing ==
    /\ phase = "serving"
    /\ phase' = "closing"
    /\ UNCHANGED <<stateVars, tasks, limiterVars, pc, call, asked>>

\* Tasks and handlers are not told, nor waited for.
ShutdownAll ==
    /\ phase = "closing"
    /\ phase' = "stopped"
    /\ connectors' = [n \in Names |->
                         IF Registered(n) THEN [connectors[n] EXCEPT !.status = "Stopped"]
                         ELSE connectors[n]]
    /\ UNCHANGED <<total, retired, tasks, limiterVars, pc, call, asked>>

\* main returns and the runtime drops every task where it is.
Exit ==
    /\ phase = "stopped"
    /\ phase' = "exited"
    /\ UNCHANGED <<stateVars, tasks, limiterVars, pc, call, asked>>

-----------------------------------------------------------------------------

Handler(r) ==
    \/ Release(r)
    \/ ConnectorList(r) \/ ConnectorStatus(r)
    \/ ConnectorRegister(r) \/ ConnectorRemove(r)
    \/ CheckStatus(r) \/ MarkSnapshotting(r) \/ SpawnSnapshot(r)
    \/ CallRegistry(r) \/ RegistryAnswers(r)

Main == StopServing \/ ShutdownAll \/ Exit

Next ==
    \/ \E r \in Requests : Submit(r) \/ Handler(r)
    \/ \E n \in Names, k \in TableCounts : CompleteSnapshot(n, k)
    \/ Main

Spec == Init /\ [][Next]_vars

(***************************************************************************)
(* Fairness: the tokio runtime runs every task that is ready, the sleep of *)
(* a snapshot task ends, and the registry's client has a timeout.  Nothing *)
(* makes the client send a request or close the transport, so Submit and   *)
(* StopServing are not fair.                                               *)
(***************************************************************************)
FairSpec ==
    /\ Spec
    /\ \A r \in Requests : WF_vars(Handler(r))
    /\ \A n \in Names, k \in TableCounts : WF_vars(CompleteSnapshot(n, k))
    /\ WF_vars(ShutdownAll \/ Exit)

-----------------------------------------------------------------------------
(* Properties.                                                             *)

HasTask(n)   == \E k \in TableCounts : tasks[n][k] > 0
LiveTasks(n) == SumFunction(tasks[n])
Counts       == [n \in Names |-> connectors[n].received]
Working      == {r \in Requests : InProgress(r)}
Marking(n)   == {r \in Requests : pc[r] = "marked" /\ call[r].name = n}

\* Every variable keeps its type.
TypeOK ==
    /\ phase \in {"serving", "closing", "stopped", "exited"}
    /\ connectors \in [Names ->
          [status : {"absent", "Stopped", "Snapshotting", "Running"},
           received : Nat, offset : {"none", "snapshot_done"}]]
    /\ total \in Nat
    /\ retired \in Nat
    /\ tasks \in [Names -> [TableCounts -> Nat]]
    /\ permits \in 0..MaxConcurrent
    /\ queue \in Seq(Requests)
    /\ pc \in [Requests -> {"idle", "waiting", "permit", "checked", "marked",
                            "calling", "done"}]
    /\ call \in [Requests -> Calls \cup {NoCall}]
    /\ asked \in Nat

\* No more tools run at once than the rate limiter allows, no permit is lost
\* by any way a handler returns, and none is free while a request waits.
RateLimited ==
    /\ Cardinality(Working) + permits = MaxConcurrent
    /\ queue # <<>> => permits = 0
    /\ {r \in Requests : pc[r] = "waiting"} = ToSet(queue)

\* /metrics counts exactly the events of the connectors, those removed since
\* included: a snapshot that ends after its connector was removed, or removed
\* and registered again, is counted at both places or at neither.
TotalAccounted ==
    total = retired + SumFunction(Counts)

\* A connector reported as Snapshotting has a task that will change that, or a
\* handler about to spawn it, whatever other handlers did meanwhile.
SnapshottingHasTask ==
    \A n \in Names : Snapshotting(n) => HasTask(n) \/ Marking(n) # {}

\* A name that appears among the connectors is a fresh registration: no late
\* snapshot task or status update brings a removed connector back.
NoResurrection ==
    [][\A n \in Names : ~Registered(n) /\ Registered(n)' => connectors'[n] = Fresh]_vars

\* While a connector stays registered its count never decreases and its
\* offset is not forgotten, registering it again included.
ProgressKept ==
    [][\A n \in Names : Registered(n) /\ Registered(n)' =>
          /\ connectors'[n].received >= connectors[n].received
          /\ connectors[n].offset = "snapshot_done"
                => connectors'[n].offset = "snapshot_done"]_vars

\* Every request is answered, unless the process ends first.
Answered ==
    \A r \in Requests : pc[r] # "idle" ~> (pc[r] = "idle" \/ phase = "exited")

\* A connector does not stay Snapshotting for ever.
SnapshotsEnd ==
    \A n \in Names : Snapshotting(n) ~> (~Snapshotting(n) \/ phase = "exited")

\* snapshot_start refuses a connector that has a snapshot in progress:
\* "expected": "Running or Stopped".
OneSnapshot ==
    phase = "serving" =>
        \A n \in Names : LiveTasks(n) + Cardinality(Marking(n)) <= 1

\* The status of a registered connector says so when a snapshot task is at
\* work on it: "runs a background task and properly tracks state".
StatusTracksTask ==
    phase = "serving" =>
        \A n \in Names : Registered(n) /\ HasTask(n) => Snapshotting(n)

-----------------------------------------------------------------------------
(* The inductive invariants behind the properties above.                   *)

\* What the handlers at work were asked, and how the rest of them wait.
Admission ==
    /\ RateLimited
    /\ \A i, j \in 1..Len(queue) : i # j => queue[i] # queue[j]
    /\ \A r \in Requests :
        /\ pc[r] # "idle" => call[r] \in Calls
        /\ pc[r] \in {"checked", "marked"} => call[r].tool = "snapshot_start"

\* A name without an entry counts nothing, so that entering it adds nothing.
BlankCounts == \A n \in Names : ~Registered(n) => connectors[n].received = 0

\* With one permit and no connector_remove: a handler of snapshot_start that
\* passed its check is alone, and what it checked stays true.
SerialServing ==
    /\ \A n \in Names : HasTask(n) => Snapshotting(n)
    /\ \A n \in Names : \A j, k \in TableCounts :
          tasks[n][j] > 0 /\ tasks[n][k] > 0 => j = k /\ tasks[n][k] = 1
    /\ \A r \in Requests : pc[r] \in {"checked", "marked"} =>
          ~HasTask(call[r].name)
    /\ \A r \in Requests : pc[r] = "checked" => Registered(call[r].name)
    /\ \A r \in Requests : pc[r] = "marked" => Snapshotting(call[r].name)

Serial == phase = "serving" => SerialServing

=============================================================================
