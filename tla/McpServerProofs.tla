-------------------------- MODULE McpServerProofs ---------------------------
(***************************************************************************)
(* Proofs about McpServer, for every number of requests, names and permits: *)
(* the rate limiter, the tasks behind a Snapshotting status, what late     *)
(* tasks may not do, and that one permit serialises snapshots.             *)
(***************************************************************************)
EXTENDS McpServer, DataInduction

USE DEF vars, stateVars, limiterVars

\* Where the handler of a request that holds a permit may be.
Active == {"permit", "checked", "marked", "calling", "done"}

ConnectorType ==
    [status : {"absent", "Stopped", "Snapshotting", "Running"},
     received : Nat, offset : {"none", "snapshot_done"}]

\* A handler that is at work has a known request.
LEMMA CallFacts ==
  ASSUME TypeOK, Admission, NEW r \in Requests, pc[r] # "idle"
  PROVE  /\ call[r] \in Calls
         /\ call[r].name \in Names
         /\ call[r].tool = "snapshot_start" => call[r].tables \in TableCounts
<1>1. call[r] \in Calls
  BY DEF Admission
<1>2. QED
  BY <1>1 DEF Calls

\* A snapshot counts at least the events of one table.
LEMMA EventsType == ASSUME NEW k \in TableCounts PROVE EventsOf(k) \in Nat
  BY McpAssumption DEF EventsOf

\* The requests at work are finitely many.
LEMMA WorkingFinite ==
  /\ IsFiniteSet(Working)
  /\ Cardinality(Working) \in Nat
<1>1. Working \in SUBSET Requests
  BY DEF Working
<1>2. IsFiniteSet(Working)
  BY <1>1, McpAssumption, FS_Subset
<1>3. QED
  BY <1>2, FS_CardinalityType

-----------------------------------------------------------------------------
(* Admission and TypeOK.                                                   *)

\* A handler step that keeps its permit keeps the limiter's books.
LEMMA StepKeepsAdmission ==
  ASSUME TypeOK, Admission, NEW r \in Requests,
         NEW from \in Active, NEW to \in Active, Step(r, from, to),
         to \in {"checked", "marked"} => call[r].tool = "snapshot_start"
  PROVE  /\ Admission'
         /\ pc' \in [Requests -> {"idle", "waiting"} \cup Active]
<1>1. /\ pc[r] = from /\ pc' = [pc EXCEPT ![r] = to]
      /\ UNCHANGED <<phase, permits, queue, call, asked>>
  BY DEF Step
<1>2. pc \in [Requests -> {"idle", "waiting"} \cup Active]
  BY DEF TypeOK, Active
<1>3. pc' \in [Requests -> {"idle", "waiting"} \cup Active]
  BY <1>1, <1>2
<1>4. \A q \in Requests : (pc'[q] = pc[q]) \/ (q = r /\ pc[q] = from /\ pc'[q] = to)
  BY <1>1, <1>2
<1>5. Working' = Working
  BY <1>4 DEF Working, InProgress, Active
<1>6. {q \in Requests : pc[q] = "waiting"}' = {q \in Requests : pc[q] = "waiting"}
  BY <1>4 DEF Active
<1>7. RateLimited'
  BY <1>1, <1>5, <1>6 DEF Admission, RateLimited, ToSet
<1>8. ASSUME NEW q \in Requests
      PROVE  /\ pc'[q] # "idle" => call'[q] \in Calls
             /\ pc'[q] \in {"checked", "marked"} => call'[q].tool = "snapshot_start"
  BY <1>1, <1>4 DEF Admission, Active
<1>9. QED
  BY <1>1, <1>3, <1>7, <1>8 DEF Admission

\* A request that finds a free permit takes it, another one queues up.
LEMMA SubmitKeepsAdmission ==
  ASSUME TypeOK, Admission, NEW r \in Requests, Submit(r)
  PROVE  TypeOK' /\ Admission'
<1>1. /\ pc[r] = "idle" /\ permits \in Nat /\ permits <= MaxConcurrent
      /\ MaxConcurrent \in Nat
      /\ UNCHANGED <<phase, connectors, total, retired, tasks>>
  BY McpAssumption DEF Submit, TypeOK
<1>2. PICK c \in Calls : call' = [call EXCEPT ![r] = c]
  BY DEF Submit
<1>3. asked' \in Nat
  BY DEF Submit, TypeOK
<1>4. call' \in [Requests -> Calls \cup {NoCall}] /\ call'[r] = c
      /\ \A q \in Requests \ {r} : call'[q] = call[q]
  BY <1>2 DEF TypeOK
<1>5. CASE permits > 0 /\ permits' = permits - 1 /\ pc' = [pc EXCEPT ![r] = "permit"]
           /\ UNCHANGED queue
  <2>1. /\ pc' \in [Requests -> {"idle", "waiting"} \cup Active]
        /\ pc'[r] = "permit" /\ \A q \in Requests \ {r} : pc'[q] = pc[q]
    BY <1>5 DEF TypeOK, Active
  <2>2. Working' = Working \cup {r} /\ r \notin Working
    BY <1>1, <2>1 DEF Working, InProgress
  <2>3. Cardinality(Working') = Cardinality(Working) + 1
    BY <2>2, WorkingFinite, FS_AddElement
  <2>4. {q \in Requests : pc[q] = "waiting"}' = {q \in Requests : pc[q] = "waiting"}
    BY <1>1, <2>1
  <2>5. RateLimited'
    BY <1>1, <1>5, <2>3, <2>4, WorkingFinite DEF Admission, RateLimited, ToSet
  <2>6. ASSUME NEW q \in Requests
        PROVE  /\ pc'[q] # "idle" => call'[q] \in Calls
               /\ pc'[q] \in {"checked", "marked"} => call'[q].tool = "snapshot_start"
    BY <1>4, <2>1 DEF Admission
  <2>7. QED
    BY <1>1, <1>3, <1>4, <1>5, <2>1, <2>5, <2>6 DEF Admission, TypeOK, Active
<1>6. CASE permits = 0 /\ queue' = Append(queue, r) /\ pc' = [pc EXCEPT ![r] = "waiting"]
           /\ UNCHANGED permits
  <2>1. /\ pc' \in [Requests -> {"idle", "waiting"} \cup Active]
        /\ pc'[r] = "waiting" /\ \A q \in Requests \ {r} : pc'[q] = pc[q]
    BY <1>6 DEF TypeOK, Active
  <2>2. Working' = Working
    BY <1>1, <2>1 DEF Working, InProgress
  <2>3. /\ queue \in Seq(Requests) /\ queue' \in Seq(Requests)
        /\ Len(queue) \in Nat /\ Len(queue') = Len(queue) + 1
        /\ \A i \in 1..Len(queue') :
              queue'[i] = IF i <= Len(queue) THEN queue[i] ELSE r
    BY <1>6 DEF TypeOK
  <2>4. \A i \in 1..Len(queue) : queue[i] \in Requests /\ pc[queue[i]] = "waiting"
    BY <2>3 DEF Admission, RateLimited, ToSet
  <2>5. \A i \in 1..Len(queue) : queue[i] # r
    BY <1>1, <2>4
  <2>6. \A i, j \in 1..Len(queue') : i # j => queue'[i] # queue'[j]
    BY <2>3, <2>5 DEF Admission
  <2>7. {q \in Requests : pc'[q] = "waiting"} = ToSet(queue')
    <3>1. {q \in Requests : pc'[q] = "waiting"}
             = {q \in Requests : pc[q] = "waiting"} \cup {r}
      BY <2>1
    <3>2. ToSet(queue') = ToSet(queue) \cup {r}
      <4>1. DOMAIN queue = 1..Len(queue) /\ DOMAIN queue' = 1..Len(queue')
        BY <2>3
      <4>2. Len(queue) + 1 \in 1..Len(queue') /\ queue'[Len(queue) + 1] = r
        BY <2>3
      <4>3. \A i \in 1..Len(queue) : i \in 1..Len(queue') /\ queue'[i] = queue[i]
        BY <2>3
      <4>4. \A i \in 1..Len(queue') : i \in 1..Len(queue) \/ queue'[i] = r
        BY <2>3
      <4>5. QED
        BY <4>1, <4>2, <4>3, <4>4 DEF ToSet
    <3>3. QED
      BY <3>1, <3>2 DEF Admission, RateLimited
  <2>8. RateLimited'
    BY <1>6, <2>2, <2>7 DEF Admission, RateLimited
  <2>9. ASSUME NEW q \in Requests
        PROVE  /\ pc'[q] # "idle" => call'[q] \in Calls
               /\ pc'[q] \in {"checked", "marked"} => call'[q].tool = "snapshot_start"
    BY <1>4, <2>1 DEF Admission
  <2>10. QED
    BY <1>1, <1>3, <1>4, <1>6, <2>1, <2>3, <2>6, <2>8, <2>9 DEF Admission, TypeOK, Active
<1>7. QED
  BY <1>5, <1>6 DEF Submit

\* A returning handler frees its permit or hands it to the head of the queue.
LEMMA ReleaseKeepsAdmission ==
  ASSUME TypeOK, Admission, NEW r \in Requests, Release(r)
  PROVE  TypeOK' /\ Admission'
<1>1. /\ pc[r] = "done" /\ permits \in Nat /\ permits <= MaxConcurrent
      /\ MaxConcurrent \in Nat
      /\ UNCHANGED <<phase, connectors, total, retired, tasks, asked>>
      /\ call' = [call EXCEPT ![r] = NoCall]
  BY McpAssumption DEF Release, TypeOK
<1>2. /\ call' \in [Requests -> Calls \cup {NoCall}]
      /\ \A q \in Requests \ {r} : call'[q] = call[q]
  BY <1>1 DEF TypeOK
<1>3. /\ r \in Working
      /\ Cardinality(Working \ {r}) = Cardinality(Working) - 1
      /\ IsFiniteSet(Working \ {r})
      /\ Cardinality(Working \ {r}) \in Nat
      /\ Cardinality(Working) + permits = MaxConcurrent
      /\ Cardinality(Working) \in Nat
  <2>1. r \in Working
    BY <1>1 DEF Working, InProgress
  <2>2. QED
    BY <2>1, WorkingFinite, FS_RemoveElement, FS_CardinalityType
       DEF Admission, RateLimited
<1>4. CASE queue = <<>> /\ permits' = permits + 1 /\ pc' = [pc EXCEPT ![r] = "idle"]
           /\ UNCHANGED queue
  <2>1. /\ pc' \in [Requests -> {"idle", "waiting"} \cup Active]
        /\ pc'[r] = "idle" /\ \A q \in Requests \ {r} : pc'[q] = pc[q]
    BY <1>4 DEF TypeOK, Active
  <2>2. Working' = Working \ {r}
    BY <1>1, <2>1 DEF Working, InProgress
  <2>3. {q \in Requests : pc[q] = "waiting"}' = {q \in Requests : pc[q] = "waiting"}
    BY <1>1, <2>1
  <2>4. RateLimited'
    BY <1>1, <1>3, <1>4, <2>2, <2>3 DEF Admission, RateLimited, ToSet
  <2>5. permits' \in 0..MaxConcurrent
    BY <1>1, <1>3, <1>4
  <2>6. ASSUME NEW q \in Requests
        PROVE  /\ pc'[q] # "idle" => call'[q] \in Calls
               /\ pc'[q] \in {"checked", "marked"} => call'[q].tool = "snapshot_start"
    BY <1>2, <2>1 DEF Admission
  <2>7. QED
    BY <1>1, <1>2, <1>4, <2>1, <2>4, <2>5, <2>6 DEF Admission, TypeOK, Active
<1>5. CASE queue # <<>> /\ pc' = [pc EXCEPT ![r] = "idle", ![Head(queue)] = "permit"]
           /\ queue' = Tail(queue) /\ UNCHANGED permits
  <2>1. /\ queue \in Seq(Requests) /\ queue' \in Seq(Requests)
        /\ Len(queue) \in Nat \ {0} /\ Len(queue') = Len(queue) - 1
        /\ Head(queue) = queue[1]
        /\ \A i \in 1..Len(queue') : queue'[i] = queue[i + 1]
    BY <1>5 DEF TypeOK
  <2> DEFINE h == Head(queue)
  <2>2. \A i \in 1..Len(queue) : queue[i] \in Requests /\ pc[queue[i]] = "waiting"
    BY <2>1 DEF Admission, RateLimited, ToSet
  <2>3. h \in Requests /\ pc[h] = "waiting" /\ h # r
    BY <1>1, <2>1, <2>2
  <2> HIDE DEF h
  <2>4. /\ pc' \in [Requests -> {"idle", "waiting"} \cup Active]
        /\ pc'[r] = "idle" /\ pc'[h] = "permit"
        /\ \A q \in Requests \ {r, h} : pc'[q] = pc[q]
    BY <1>5, <2>3 DEF TypeOK, Active, h
  <2>5. Working' = (Working \ {r}) \cup {h} /\ h \notin Working \ {r}
    BY <1>1, <2>3, <2>4 DEF Working, InProgress
  <2>6. Cardinality(Working') = Cardinality(Working)
    BY <1>3, <2>5, FS_AddElement
  <2>7. \A i, j \in 1..Len(queue') : i # j => queue'[i] # queue'[j]
    BY <2>1 DEF Admission
  <2>8. {q \in Requests : pc'[q] = "waiting"} = ToSet(queue')
    <3>1. {q \in Requests : pc'[q] = "waiting"}
             = {q \in Requests : pc[q] = "waiting"} \ {h}
      BY <1>1, <2>3, <2>4
    <3>2. ToSet(queue') = ToSet(queue) \ {h}
      <4>1. DOMAIN queue = 1..Len(queue) /\ DOMAIN queue' = 1..Len(queue')
        BY <2>1
      <4>2. h = queue[1] /\ 1 \in 1..Len(queue)
        BY <2>1 DEF h
      <4>3. \A i \in 1..Len(queue') : /\ i + 1 \in 1..Len(queue)
                                      /\ queue'[i] = queue[i + 1]
                                      /\ queue[i + 1] # h
        BY <2>1, <4>2 DEF Admission
      <4>4. \A i \in 1..Len(queue) :
               i = 1 \/ (i - 1 \in 1..Len(queue') /\ queue'[i - 1] = queue[i])
        BY <2>1
      <4>5. ASSUME NEW x \in ToSet(queue')
            PROVE  x \in ToSet(queue) \ {h}
        BY <4>1, <4>3 DEF ToSet
      <4>6. ASSUME NEW x \in ToSet(queue) \ {h}
            PROVE  x \in ToSet(queue')
        BY <4>1, <4>2, <4>4 DEF ToSet
      <4>7. QED
        BY <4>5, <4>6
    <3>3. QED
      BY <3>1, <3>2 DEF Admission, RateLimited
  <2>9. RateLimited'
    BY <1>5, <2>1, <2>6, <2>8 DEF Admission, RateLimited
  <2>10. ASSUME NEW q \in Requests
         PROVE  /\ pc'[q] # "idle" => call'[q] \in Calls
                /\ pc'[q] \in {"checked", "marked"} => call'[q].tool = "snapshot_start"
    BY <1>2, <2>3, <2>4 DEF Admission
  <2>11. QED
    BY <1>1, <1>2, <1>5, <2>1, <2>4, <2>7, <2>9, <2>10 DEF Admission, TypeOK, Active
<1>6. QED
  BY <1>4, <1>5 DEF Release

\* Steps of the background and of main leave the limiter alone.
LEMMA OthersKeepAdmission ==
  ASSUME Admission, UNCHANGED <<permits, queue, pc, call>>
  PROVE  Admission'
  BY DEF Admission, RateLimited, Working, InProgress, ToSet

Typed == TypeOK /\ Admission

\* Initially nobody is at work.
LEMMA InitTyped == Init => Typed
<1> SUFFICES ASSUME Init PROVE Typed
  OBVIOUS
<1>1. Working = {} /\ {r \in Requests : pc[r] = "waiting"} = {}
  BY DEF Init, Working, InProgress
<1>2. queue = <<>> /\ Len(queue) = 0 /\ ToSet(queue) = {} /\ queue \in Seq(Requests)
  BY DEF Init, ToSet
<1>3. permits = MaxConcurrent /\ MaxConcurrent \in Nat
  BY McpAssumption DEF Init
<1>4. RateLimited
  BY <1>1, <1>2, <1>3, FS_EmptySet DEF RateLimited
<1>5. Admission
  BY <1>2, <1>4 DEF Admission, Init
<1>6. TypeOK
  BY <1>2, <1>3 DEF TypeOK, Init, Absent
<1>7. QED
  BY <1>5, <1>6 DEF Typed

\* Every step preserves the types and the limiter's books.
LEMMA NextTyped == Typed /\ [Next]_vars => Typed'
<1> SUFFICES ASSUME TypeOK, Admission, [Next]_vars PROVE TypeOK' /\ Admission'
  BY DEF Typed
<1> USE DEF Active
<1>1. ASSUME NEW r \in Requests, Submit(r)
      PROVE  TypeOK' /\ Admission'
  BY <1>1, SubmitKeepsAdmission
<1>2. ASSUME NEW r \in Requests, Release(r)
      PROVE  TypeOK' /\ Admission'
  BY <1>2, ReleaseKeepsAdmission
<1>3. ASSUME NEW r \in Requests, NEW from \in Active, NEW to \in Active,
             Step(r, from, to),
             to \in {"checked", "marked"} => call[r].tool = "snapshot_start",
             connectors' \in [Names -> ConnectorType],
             retired' \in Nat, total' \in Nat,
             tasks' \in [Names -> [TableCounts -> Nat]]
      PROVE  TypeOK' /\ Admission'
  <2>1. Admission' /\ pc' \in [Requests -> {"idle", "waiting"} \cup Active]
    BY <1>3, StepKeepsAdmission
  <2>2. TypeOK'
    BY <1>3, <2>1 DEF TypeOK, Step, ConnectorType
  <2>3. QED
    BY <2>1, <2>2
<1>4. ASSUME NEW r \in Requests, ConnectorList(r) \/ ConnectorStatus(r)
      PROVE  TypeOK' /\ Admission'
  BY <1>3, <1>4 DEF ConnectorList, ConnectorStatus, TypeOK, ConnectorType
<1>5. ASSUME NEW r \in Requests, ConnectorRegister(r)
      PROVE  TypeOK' /\ Admission'
  <2>1. connectors' \in [Names -> ConnectorType]
    BY <1>5 DEF ConnectorRegister, TypeOK, ConnectorType, Fresh
  <2>2. QED
    BY <1>3, <1>5, <2>1 DEF ConnectorRegister, TypeOK
<1>6. ASSUME NEW r \in Requests, ConnectorRemove(r)
      PROVE  TypeOK' /\ Admission'
  <2>1. call[r].name \in Names
    BY <1>6, CallFacts DEF ConnectorRemove, Step
  <2>2. connectors' \in [Names -> ConnectorType]
    BY <1>6 DEF ConnectorRemove, TypeOK, ConnectorType, Absent
  <2>3. retired' \in Nat
    BY <1>6, <2>1 DEF ConnectorRemove, TypeOK
  <2>4. QED
    BY <1>3, <1>6, <2>2, <2>3 DEF ConnectorRemove, TypeOK
<1>7. ASSUME NEW r \in Requests, CheckStatus(r)
      PROVE  TypeOK' /\ Admission'
  BY <1>3, <1>7 DEF CheckStatus, TypeOK, ConnectorType
<1>8. ASSUME NEW r \in Requests, MarkSnapshotting(r)
      PROVE  TypeOK' /\ Admission'
  <2>1. connectors' \in [Names -> ConnectorType]
    <3> DEFINE n == call[r].name
    <3>1. connectors \in [Names -> ConnectorType]
      BY DEF TypeOK, ConnectorType
    <3>2. n \in Names => [connectors[n] EXCEPT !.status = "Snapshotting"] \in ConnectorType
      BY <3>1 DEF ConnectorType
    <3>3. \/ connectors' = [connectors EXCEPT ![n] = [connectors[n] EXCEPT !.status = "Snapshotting"]]
          \/ connectors' = connectors
      BY <1>8 DEF MarkSnapshotting
    <3> HIDE DEF n
    <3>4. QED
      BY <3>1, <3>2, <3>3
  <2>2. call[r].tool = "snapshot_start"
    BY <1>8 DEF MarkSnapshotting, Step, Admission
  <2>3. QED
    BY <1>3, <1>8, <2>1, <2>2 DEF MarkSnapshotting, TypeOK
<1>9. ASSUME NEW r \in Requests, SpawnSnapshot(r)
      PROVE  TypeOK' /\ Admission'
  <2>0. call[r].name \in Names /\ call[r].tables \in TableCounts
    BY <1>9, CallFacts DEF SpawnSnapshot, Step, Admission
  <2>1. tasks' \in [Names -> [TableCounts -> Nat]]
    BY <1>9, <2>0 DEF SpawnSnapshot, TypeOK
  <2>2. QED
    BY <1>3, <1>9, <2>1 DEF SpawnSnapshot, TypeOK, ConnectorType
<1>10. ASSUME NEW r \in Requests, CallRegistry(r) \/ RegistryAnswers(r)
       PROVE  TypeOK' /\ Admission'
  BY <1>3, <1>10 DEF CallRegistry, RegistryAnswers, TypeOK, ConnectorType
<1>11. ASSUME NEW n \in Names, NEW k \in TableCounts, CompleteSnapshot(n, k)
       PROVE  TypeOK' /\ Admission'
  <2>1. /\ tasks[n][k] \in Nat /\ tasks[n][k] > 0
        /\ tasks' = [tasks EXCEPT ![n][k] = @ - 1]
        /\ UNCHANGED <<phase, retired, permits, queue, pc, call, asked>>
    BY <1>11 DEF CompleteSnapshot, TaskEnds, TypeOK
  <2>2. tasks' \in [Names -> [TableCounts -> Nat]]
    BY <2>1 DEF TypeOK
  <2>3. SnapshotDone(n, k) \in ConnectorType /\ total + EventsOf(k) \in Nat
    BY EventsType DEF TypeOK, SnapshotDone, ConnectorType
  <2>4. connectors' \in [Names -> ConnectorType] /\ total' \in Nat
    <3>1. connectors \in [Names -> ConnectorType] /\ total \in Nat
      BY DEF TypeOK, ConnectorType
    <3>2. \/ UNCHANGED <<connectors, total>>
          \/ /\ connectors' = [connectors EXCEPT ![n] = SnapshotDone(n, k)]
             /\ total' = total + EventsOf(k)
      BY <1>11 DEF CompleteSnapshot
    <3>3. QED
      BY <2>3, <3>1, <3>2
  <2>5. QED
    BY <2>1, <2>2, <2>4, OthersKeepAdmission DEF TypeOK, ConnectorType
<1>12. CASE Main
  <2>1. connectors' \in [Names -> ConnectorType]
    <3>1. \A n \in Names : connectors[n] \in ConnectorType
      BY DEF TypeOK, ConnectorType
    <3>2. \A n \in Names : [connectors[n] EXCEPT !.status = "Stopped"] \in ConnectorType
      BY <3>1 DEF ConnectorType
    <3>3. CASE ShutdownAll
      BY <3>1, <3>2, <3>3 DEF ShutdownAll
    <3>4. CASE UNCHANGED connectors
      BY <3>4 DEF TypeOK, ConnectorType
    <3>5. QED
      BY <1>12, <3>3, <3>4 DEF Main, StopServing, Exit
  <2>2. /\ phase' \in {"serving", "closing", "stopped", "exited"}
        /\ UNCHANGED <<total, retired, tasks, permits, queue, pc, call, asked>>
    BY <1>12 DEF Main, StopServing, ShutdownAll, Exit
  <2>3. QED
    BY <2>1, <2>2, OthersKeepAdmission DEF TypeOK, ConnectorType
<1>13. CASE UNCHANGED vars
  BY <1>13, OthersKeepAdmission DEF TypeOK
<1>14. QED
  BY <1>1, <1>2, <1>4, <1>5, <1>6, <1>7, <1>8, <1>9, <1>10, <1>11, <1>12, <1>13
     DEF Next, Handler

\* The types and the limiter's books hold in every reachable state.
LEMMA McpInvariant == Spec => []Typed
  BY InitTyped, NextTyped, PTL DEF Spec

\* Every variable keeps its type: no count, permit or task number goes below
\* zero, whichever handlers, tasks and shutdown steps interleave.
THEOREM McpTypeCorrect == Spec => []TypeOK
<1>1. Typed => TypeOK
  BY DEF Typed
<1>2. QED
  BY <1>1, McpInvariant, PTL

\* At most MaxConcurrent tools run at once, no permit is ever lost, and none
\* lies idle while a request waits.
THEOREM LimiterCorrect == Spec => []RateLimited
<1>1. Typed => RateLimited
  BY DEF Typed, Admission
<1>2. QED
  BY <1>1, McpInvariant, PTL

\* A request that waits is let in only when it has waited longest, and never
\* leaves the queue in another way; nobody enters it but at its end, and nobody
\* passes by it.
InTurn ==
    /\ queue' \in {queue, Tail(queue)} \/ \E r \in Requests : queue' = Append(queue, r)
    /\ \A r \in Requests : pc[r] = "waiting" /\ pc'[r] # "waiting" =>
          pc'[r] = "permit" /\ queue # <<>> /\ r = Head(queue) /\ queue' = Tail(queue)
    /\ \A r \in Requests : pc[r] = "idle" /\ pc'[r] = "permit" => queue = <<>>

LEMMA StepInTurn == ASSUME Typed, [Next]_vars PROVE InTurn
<1>0. /\ TypeOK
      /\ queue # <<>> => permits = 0 /\ pc[Head(queue)] = "waiting"
  <2>1. TypeOK /\ (queue # <<>> => permits = 0)
    BY DEF Typed, Admission, RateLimited
  <2>2. {r \in Requests : pc[r] = "waiting"} = ToSet(queue)
    BY DEF Typed, Admission, RateLimited
  <2>3. queue # <<>> => Head(queue) \in ToSet(queue)
    BY <2>1 DEF TypeOK, ToSet
  <2>4. QED
    BY <2>1, <2>2, <2>3
<1> USE <1>0 DEF TypeOK, InTurn
<1>1. ASSUME NEW r \in Requests, Submit(r) PROVE InTurn
  BY <1>1 DEF Submit
<1>2. ASSUME NEW r \in Requests, Release(r) PROVE InTurn
  <2>1. CASE queue = <<>>
    BY <1>2, <2>1 DEF Release
  <2>2. CASE queue # <<>>
    <3>1. Head(queue) \in Requests
      BY <2>2
    <3>2. /\ pc' = [pc EXCEPT ![r] = "idle", ![Head(queue)] = "permit"]
          /\ queue' = Tail(queue) /\ pc[r] = "done"
      BY <1>2, <2>2 DEF Release
    <3>3. ASSUME NEW q \in Requests, pc[q] = "waiting", pc'[q] # "waiting"
          PROVE  q = Head(queue) /\ pc'[q] = "permit"
      BY <3>1, <3>2, <3>3
    <3>4. QED
      BY <2>2, <3>2, <3>3
  <2>3. QED
    BY <2>1, <2>2
<1>3. ASSUME NEW r \in Requests, NEW from \in Active, NEW to \in Active, Step(r, from, to)
      PROVE  InTurn
  BY <1>3 DEF Step, Active
<1>4. ASSUME NEW r \in Requests, Handler(r) PROVE InTurn
  <2>1. CASE Release(r)
    BY <1>2, <2>1
  <2>2. CASE ConnectorList(r) \/ ConnectorStatus(r) \/ ConnectorRegister(r) \/ ConnectorRemove(r)
    <3>1. Step(r, "permit", "done")
      BY <2>2 DEF ConnectorList, ConnectorStatus, ConnectorRegister, ConnectorRemove
    <3>2. QED
      BY <1>3, <3>1 DEF Active
  <2>3. CASE CheckStatus(r)
    <3>1. Step(r, "permit", "checked") \/ Step(r, "permit", "done")
      BY <2>3 DEF CheckStatus
    <3>2. QED
      BY <1>3, <3>1 DEF Active
  <2>4. CASE MarkSnapshotting(r)
    BY <1>3, <2>4 DEF MarkSnapshotting, Active
  <2>5. CASE SpawnSnapshot(r)
    BY <1>3, <2>5 DEF SpawnSnapshot, Active
  <2>6. CASE CallRegistry(r)
    <3>1. Step(r, "permit", "calling") \/ Step(r, "permit", "done")
      BY <2>6 DEF CallRegistry
    <3>2. QED
      BY <1>3, <3>1 DEF Active
  <2>7. CASE RegistryAnswers(r)
    BY <1>3, <2>7 DEF RegistryAnswers, Active
  <2>8. QED
    BY <1>4, <2>1, <2>2, <2>3, <2>4, <2>5, <2>6, <2>7 DEF Handler
<1>5. ASSUME NEW n \in Names, NEW k \in TableCounts, CompleteSnapshot(n, k) PROVE InTurn
  BY <1>5 DEF CompleteSnapshot, TaskEnds
<1>6. CASE Main
  BY <1>6 DEF Main, StopServing, ShutdownAll, Exit
<1>7. CASE UNCHANGED vars
  BY <1>7
<1>8. QED
  BY <1>1, <1>4, <1>5, <1>6, <1>7 DEF Next

\* Requests get their permits first come, first served, whatever the handlers in
\* between did and however many permits there are.
THEOREM ServedInTurn == Spec => [][InTurn]_vars
<1>1. Typed /\ [Next]_vars => [InTurn]_vars
  BY StepInTurn
<1>2. QED
  BY <1>1, McpInvariant, PTL DEF Spec

\* With OPENCDC_MAX_CONCURRENT_TOOLS=0 no tool ever runs, and a request that
\* waits does so for ever: StopServing ends the server, and it is not answered.
THEOREM NoPermitsNoAnswer ==
  ASSUME MaxConcurrent = 0
  PROVE  Spec => /\ [](\A r \in Requests : pc[r] \in {"idle", "waiting"})
                 /\ [][\A r \in Requests : pc[r] = "waiting" => pc'[r] = "waiting"]_vars
<1> DEFINE Idle == \A r \in Requests : pc[r] \in {"idle", "waiting"}
<1>1. ASSUME Typed PROVE Idle
  <2>1. IsFiniteSet(Working)
    BY McpAssumption, FS_Subset DEF Working
  <2>2. Cardinality(Working) + permits = 0 /\ permits \in Nat /\ Cardinality(Working) \in Nat
    <3>1. Cardinality(Working) \in Nat
      BY <2>1, FS_CardinalityType
    <3>2. QED
      BY <1>1, <3>1 DEF Typed, TypeOK, Admission, RateLimited
  <2>3. Working = {}
    BY <2>1, <2>2, FS_EmptySet
  <2>4. QED
    BY <2>3 DEF Working, InProgress
<1>2. ASSUME Typed, Typed', [Next]_vars
      PROVE  \A r \in Requests : pc[r] = "waiting" => pc'[r] = "waiting"
  <2>1. InTurn
    BY <1>2, StepInTurn
  <2>2. Idle'
    BY <1>1, <1>2, PTL
  <2>3. QED
    BY <2>1, <2>2 DEF InTurn
<1>3. QED
  BY <1>1, <1>2, McpInvariant, PTL DEF Spec

-----------------------------------------------------------------------------
(* What a step may do to one connector.                                    *)

\* Registered, removed, marked, completed, stopped, or left alone.
LEMMA ConnectorKinds ==
  ASSUME TypeOK, Admission, [Next]_vars, NEW n \in Names
  PROVE  \/ connectors'[n] = connectors[n]
         \/ ~Registered(n) /\ connectors'[n] = Fresh
         \/ connectors'[n] = Absent
         \/ /\ Registered(n)
            /\ connectors'[n] = [connectors[n] EXCEPT !.status = "Snapshotting"]
            /\ \E r \in Requests : MarkSnapshotting(r) /\ call[r].name = n
         \/ \E k \in TableCounts :
               Registered(n) /\ connectors'[n] = SnapshotDone(n, k)
         \/ Registered(n) /\ connectors'[n] = [connectors[n] EXCEPT !.status = "Stopped"]
<1>0. connectors \in [Names -> ConnectorType]
  BY DEF TypeOK, ConnectorType
<1>1. ASSUME NEW r \in Requests, ConnectorRegister(r)
      PROVE  connectors'[n] = connectors[n] \/ (~Registered(n) /\ connectors'[n] = Fresh)
  BY <1>0, <1>1 DEF ConnectorRegister
<1>2. ASSUME NEW r \in Requests, ConnectorRemove(r)
      PROVE  connectors'[n] = connectors[n] \/ connectors'[n] = Absent
  BY <1>0, <1>2 DEF ConnectorRemove
<1>3. ASSUME NEW r \in Requests, MarkSnapshotting(r), connectors'[n] # connectors[n]
      PROVE  /\ Registered(n) /\ call[r].name = n
             /\ connectors'[n] = [connectors[n] EXCEPT !.status = "Snapshotting"]
  BY <1>0, <1>3 DEF MarkSnapshotting
<1>4. ASSUME NEW m \in Names, NEW k \in TableCounts, CompleteSnapshot(m, k),
             connectors'[n] # connectors[n]
      PROVE  Registered(n) /\ connectors'[n] = SnapshotDone(n, k)
  BY <1>0, <1>4 DEF CompleteSnapshot
<1>5. CASE ShutdownAll
  BY <1>0, <1>5 DEF ShutdownAll
<1>6. CASE UNCHANGED connectors
  BY <1>6
<1>7. ASSUME [Next]_vars, ~ShutdownAll, connectors' # connectors
      PROVE  \/ \E r \in Requests :
                   ConnectorRegister(r) \/ ConnectorRemove(r) \/ MarkSnapshotting(r)
             \/ \E m \in Names, k \in TableCounts : CompleteSnapshot(m, k)
  BY <1>7 DEF Next, Handler, Main, Submit, Release, ConnectorList, ConnectorStatus,
              CheckStatus, SpawnSnapshot, CallRegistry, RegistryAnswers,
              StopServing, Exit
<1>8. QED
  BY <1>1, <1>2, <1>3, <1>4, <1>5, <1>6, <1>7

\* Nothing but a registration makes a connector appear.
THEOREM NoLateReturn == Spec => NoResurrection
<1>1. ASSUME TypeOK, Admission, [Next]_vars, NEW n \in Names,
             ~Registered(n), Registered(n)'
      PROVE  connectors'[n] = Fresh
  <2>1. connectors'[n] # connectors[n] /\ connectors'[n] # Absent
    BY <1>1 DEF Registered, Absent
  <2>2. QED
    BY <1>1, <2>1, ConnectorKinds, Zenon
<1>2. Typed /\ [Next]_vars =>
         [\A n \in Names : ~Registered(n) /\ Registered(n)' => connectors'[n] = Fresh]_vars
  BY <1>1 DEF Typed
<1>3. QED
  BY <1>2, McpInvariant, PTL DEF Spec, NoResurrection

\* A registered connector loses neither its count nor its offset.
THEOREM ProgressIsKept == Spec => ProgressKept
<1>1. ASSUME TypeOK, Admission, [Next]_vars, NEW n \in Names,
             Registered(n), Registered(n)'
      PROVE  /\ connectors'[n].received >= connectors[n].received
             /\ connectors[n].offset = "snapshot_done"
                   => connectors'[n].offset = "snapshot_done"
  <2>1. connectors[n] \in ConnectorType
    BY <1>1 DEF TypeOK, ConnectorType
  <2>2. connectors[n].received \in Nat
    BY <2>1 DEF ConnectorType
  <2>4. ASSUME NEW st \in {"Snapshotting", "Stopped"}, connectors'[n] = [connectors[n] EXCEPT !.status = st]
        PROVE  /\ connectors'[n].received = connectors[n].received
               /\ connectors'[n].offset = connectors[n].offset
    BY <2>1, <2>4 DEF ConnectorType
  <2>5. ASSUME NEW k \in TableCounts, connectors'[n] = SnapshotDone(n, k)
        PROVE  /\ connectors'[n].received >= connectors[n].received
               /\ connectors'[n].offset = "snapshot_done"
    BY <2>2, <2>5, EventsType DEF SnapshotDone
  <2>6. connectors'[n] # Absent
    BY <1>1 DEF Registered, Absent
  <2>7. \/ connectors'[n] = connectors[n]
        \/ \E st \in {"Snapshotting", "Stopped"} :
              connectors'[n] = [connectors[n] EXCEPT !.status = st]
        \/ \E k \in TableCounts : connectors'[n] = SnapshotDone(n, k)
    BY <1>1, <2>6, ConnectorKinds, Zenon
  <2>8. ASSUME connectors'[n] = connectors[n]
        PROVE  /\ connectors'[n].received >= connectors[n].received
               /\ connectors'[n].offset = connectors[n].offset
    BY <2>2, <2>8
  <2>9. QED
    BY <2>2, <2>4, <2>5, <2>7, <2>8
<1>2. Typed /\ [Next]_vars =>
         [\A n \in Names : Registered(n) /\ Registered(n)' =>
             /\ connectors'[n].received >= connectors[n].received
             /\ connectors[n].offset = "snapshot_done"
                   => connectors'[n].offset = "snapshot_done"]_vars
  BY <1>1 DEF Typed
<1>3. QED
  BY <1>2, McpInvariant, PTL DEF Spec, ProgressKept

-----------------------------------------------------------------------------
(* What is behind a Snapshotting status.                                   *)

\* A handler about to spawn a task stays that until it has spawned it.
MarkKept == \A q \in Requests :
    pc[q] = "marked" => pc'[q] = "marked" /\ call'[q] = call[q]

\* Tasks of n are still there.
TasksKept(n) == tasks'[n] = tasks[n]

\* Only the spawn ends the wait for it.
LEMMA MarkedStays ==
  ASSUME TypeOK, Admission, [Next]_vars,
         ~\E r \in Requests : SpawnSnapshot(r)
  PROVE  MarkKept
<1>1. ASSUME NEW r \in Requests, Submit(r)
      PROVE  MarkKept
  BY <1>1 DEF Submit, MarkKept, TypeOK
<1>2. ASSUME NEW r \in Requests, Release(r)
      PROVE  MarkKept
  <2>1. queue # <<>> => Head(queue) \in Requests /\ pc[Head(queue)] = "waiting"
    <3>1. ASSUME queue # <<>>
          PROVE  Head(queue) \in ToSet(queue)
      <4>1. queue \in Seq(Requests)
        BY DEF TypeOK
      <4>2. 1 \in DOMAIN queue /\ Head(queue) = queue[1]
        BY <3>1, <4>1
      <4>3. QED
        BY <4>2 DEF ToSet
    <3>2. QED
      BY <3>1 DEF Admission, RateLimited
  <2>2. QED
    BY <1>2, <2>1 DEF Release, MarkKept, TypeOK
<1>3. ASSUME NEW r \in Requests, NEW from \in Active \ {"marked"}, NEW to, Step(r, from, to)
      PROVE  MarkKept
  BY <1>3 DEF Step, MarkKept, TypeOK
<1>4. CASE UNCHANGED <<pc, call>>
  BY <1>4 DEF MarkKept
<1>5. ASSUME NEW r \in Requests, Handler(r)
      PROVE  MarkKept
  BY <1>2, <1>3, <1>5 DEF Handler, ConnectorList, ConnectorStatus, ConnectorRegister,
     ConnectorRemove, CheckStatus, MarkSnapshotting, CallRegistry, RegistryAnswers, Active
<1>6. QED
  BY <1>1, <1>4, <1>5 DEF Next, CompleteSnapshot, TaskEnds, Main, StopServing,
                          ShutdownAll, Exit

\* Tasks start at a spawn and stop when they complete.
LEMMA TasksStay ==
  ASSUME TypeOK, Admission, [Next]_vars, NEW n \in Names,
         ~\E r \in Requests : SpawnSnapshot(r)
  PROVE  TasksKept(n) \/ \E k \in TableCounts : CompleteSnapshot(n, k)
<1>1. ASSUME NEW m \in Names, NEW k \in TableCounts, CompleteSnapshot(m, k), m # n
      PROVE  TasksKept(n)
  BY <1>1 DEF CompleteSnapshot, TaskEnds, TasksKept, TypeOK
<1>2. CASE UNCHANGED tasks
  BY <1>2 DEF TasksKept
<1>3. QED
  BY <1>1, <1>2 DEF Next, Handler, Main, Submit, Release, ConnectorList,
     ConnectorStatus, ConnectorRegister, ConnectorRemove, CheckStatus,
     MarkSnapshotting, CallRegistry, RegistryAnswers, StopServing, ShutdownAll, Exit

\* What a spawn does to the tasks.
LEMMA SpawnEffect ==
  ASSUME TypeOK, Admission, NEW r \in Requests, SpawnSnapshot(r)
  PROVE  /\ call[r].name \in Names /\ call[r].tables \in TableCounts
         /\ pc[r] = "marked" /\ pc' = [pc EXCEPT ![r] = "done"]
         /\ UNCHANGED <<call, connectors, phase>>
         /\ tasks'[call[r].name][call[r].tables] = tasks[call[r].name][call[r].tables] + 1
         /\ \A n \in Names, k \in TableCounts :
               \/ n = call[r].name /\ k = call[r].tables
               \/ tasks'[n][k] = tasks[n][k]
<1>1. pc[r] = "marked" /\ call[r].name \in Names /\ call[r].tables \in TableCounts
  BY CallFacts DEF SpawnSnapshot, Step, Admission
<1>2. tasks \in [Names -> [TableCounts -> Nat]]
  BY DEF TypeOK
<1>3. QED
  BY <1>1, <1>2 DEF SpawnSnapshot, Step

\* A connector reported as Snapshotting has a task, or will have one at once.
THEOREM SnapshotsAreBacked == Spec => []SnapshottingHasTask
<1>1. Init => SnapshottingHasTask
  BY DEF Init, SnapshottingHasTask, Snapshotting, Absent
<1>2. Typed /\ SnapshottingHasTask /\ [Next]_vars => SnapshottingHasTask'
  <2> SUFFICES ASSUME TypeOK, Admission, SnapshottingHasTask, [Next]_vars,
                      NEW n \in Names, Snapshotting(n)'
               PROVE  HasTask(n)' \/ Marking(n)' # {}
    BY DEF Typed, SnapshottingHasTask
  <2>1. connectors[n] \in ConnectorType
    BY DEF TypeOK, ConnectorType
  <2>2. \/ Snapshotting(n)
        \/ \E r \in Requests : MarkSnapshotting(r) /\ call[r].name = n
    <3>1. connectors'[n].status = "Snapshotting"
      BY DEF Snapshotting
    <3>2. /\ connectors'[n] # Fresh /\ connectors'[n] # Absent
          /\ \A k \in TableCounts : connectors'[n] # SnapshotDone(n, k)
      BY <3>1 DEF Fresh, Absent, SnapshotDone
    <3>3. connectors'[n] # [connectors[n] EXCEPT !.status = "Stopped"]
      BY <2>1, <3>1 DEF ConnectorType
    <3>4. connectors'[n] = connectors[n] => Snapshotting(n)
      BY <3>1 DEF Snapshotting
    <3>5. QED
      BY <3>2, <3>3, <3>4, ConnectorKinds, Zenon
  <2>3. ASSUME NEW r \in Requests, MarkSnapshotting(r), call[r].name = n
        PROVE  Marking(n)' # {}
    BY <2>3 DEF MarkSnapshotting, Step, Marking, TypeOK
  <2>4. ASSUME NEW r \in Requests, SpawnSnapshot(r), Snapshotting(n)
        PROVE  HasTask(n)' \/ Marking(n)' # {}
    <3>1. CASE call[r].name = n
      <4>1. tasks'[n][call[r].tables] > 0 /\ call[r].tables \in TableCounts
        BY <2>4, <3>1, SpawnEffect DEF TypeOK
      <4>2. QED
        BY <4>1 DEF HasTask
    <3>2. CASE call[r].name # n /\ HasTask(n)
      BY <2>4, <3>2, SpawnEffect DEF HasTask
    <3>3. ASSUME NEW q \in Marking(n), call[r].name # n
          PROVE  q \in Marking(n)'
      BY <2>4, <3>3, SpawnEffect DEF Marking, TypeOK
    <3>4. QED
      BY <2>4, <3>1, <3>2, <3>3 DEF SnapshottingHasTask
  <2>5. ASSUME ~\E r \in Requests : SpawnSnapshot(r), Snapshotting(n)
        PROVE  HasTask(n)' \/ Marking(n)' # {}
    <3>1. MarkKept
      BY <2>5, MarkedStays
    <3>2. ~\E k \in TableCounts : CompleteSnapshot(n, k)
      BY <2>1, <2>5 DEF CompleteSnapshot, Registered, Snapshotting, SnapshotDone, TypeOK
    <3>3. TasksKept(n)
      BY <2>5, <3>2, TasksStay
    <3>4. HasTask(n) => HasTask(n)'
      BY <3>3 DEF TasksKept, HasTask
    <3>5. Marking(n) # {} => Marking(n)' # {}
      BY <3>1 DEF MarkKept, Marking
    <3>6. QED
      BY <2>5, <3>4, <3>5 DEF SnapshottingHasTask
  <2>6. QED
    BY <2>2, <2>3, <2>4, <2>5
<1>3. QED
  BY <1>1, <1>2, McpInvariant, PTL DEF Spec

-----------------------------------------------------------------------------
(* The events counted.                                                     *)

LEMMA CountsType == ASSUME TypeOK PROVE Counts \in [Names -> Int]
BY DEF TypeOK, Counts

\* One connector changes: the sum changes by as much as its count.
LEMMA CountsChange ==
  ASSUME TypeOK, TypeOK', NEW n \in Names,
         \A m \in Names : m # n => connectors'[m].received = connectors[m].received
  PROVE  SumFunction(Counts)' =
            SumFunction(Counts) + (connectors'[n].received - connectors[n].received)
<1> DEFINE F == Counts
           G == [m \in Names |-> connectors'[m].received]
<1>1. F \in [Names -> Int] /\ G \in [Names -> Int]
  BY DEF TypeOK, Counts
<1>2. \A m \in Names : m # n => G[m] = F[m]
  BY DEF Counts
<1>3. SumFunction(G) = SumFunction(F) + (G[n] - F[n])
  <2> HIDE DEF F, G
  <2>1. QED
    BY <1>1, <1>2, McpAssumption, SumChange
<1>4. Counts' = G
  BY DEF Counts
<1>5. SumFunction(Counts)' = SumFunction(G)
  BY <1>4
<1>6. G[n] = connectors'[n].received /\ F[n] = connectors[n].received
  BY DEF Counts
<1>7. QED
  BY <1>3, <1>5, <1>6

\* No count changes, and neither does the sum.
LEMMA CountsKept ==
  ASSUME \A n \in Names : connectors'[n].received = connectors[n].received
  PROVE  SumFunction(Counts)' = SumFunction(Counts)
<1>1. Counts' = Counts
  BY DEF Counts
<1>2. QED
  BY <1>1

LEMMA NextBlank ==
  ASSUME Typed, BlankCounts, [Next]_vars
  PROVE  BlankCounts'
<1> SUFFICES ASSUME NEW n \in Names, ~Registered(n)'
             PROVE  connectors'[n].received = 0
  BY DEF BlankCounts
<1>1. connectors'[n].status = "absent"
  BY DEF Registered
<1>2. CASE connectors'[n] = connectors[n]
  BY <1>1, <1>2 DEF BlankCounts, Registered
<1>3. CASE connectors'[n] = Absent
  BY <1>3 DEF Absent
<1>4. connectors'[n] # Fresh
  BY <1>1 DEF Fresh
<1>5. connectors[n] \in ConnectorType
  BY DEF Typed, TypeOK, ConnectorType
<1>6. /\ connectors'[n] # [connectors[n] EXCEPT !.status = "Snapshotting"]
      /\ connectors'[n] # [connectors[n] EXCEPT !.status = "Stopped"]
  BY <1>1, <1>5 DEF ConnectorType
<1>7. \A k \in TableCounts : connectors'[n] # SnapshotDone(n, k)
  BY <1>1 DEF SnapshotDone
<1>8. QED
  BY <1>2, <1>3, <1>4, <1>6, <1>7, ConnectorKinds, Zenon DEF Typed

LEMMA NextAccounted ==
  ASSUME Typed, Typed', BlankCounts, TotalAccounted, [Next]_vars
  PROVE  TotalAccounted'
<1>0. /\ TypeOK /\ TypeOK' /\ Admission
      /\ SumFunction(Counts) \in Int /\ total \in Nat /\ retired \in Nat
      /\ \A n \in Names : connectors[n] \in ConnectorType
  BY CountsType, SumType, McpAssumption DEF Typed, TypeOK, ConnectorType
<1>1. ASSUME UNCHANGED <<total, retired>>,
             \A n \in Names : connectors'[n].received = connectors[n].received
      PROVE  TotalAccounted'
  BY <1>1, CountsKept DEF TotalAccounted
<1>2. ASSUME NEW r \in Requests, ConnectorRegister(r)
      PROVE  TotalAccounted'
  <2> DEFINE n == call[r].name
  <2>1. n \in Names
    BY <1>0, <1>2, CallFacts DEF ConnectorRegister, Step
  <2>2. CASE Registered(n)
    BY <1>1, <1>2, <2>2 DEF ConnectorRegister
  <2>3. CASE ~Registered(n)
    <3>1. /\ connectors' = [connectors EXCEPT ![n] = Fresh]
          /\ connectors[n].received = 0
          /\ UNCHANGED <<total, retired>>
      BY <1>2, <2>1, <2>3 DEF ConnectorRegister, BlankCounts
    <3>2. \A m \in Names : connectors'[m].received = connectors[m].received
      BY <1>0, <3>1 DEF Fresh, TypeOK
    <3>3. QED
      BY <1>1, <3>1, <3>2
  <2>4. QED
    BY <2>2, <2>3
<1>3. ASSUME NEW r \in Requests, ConnectorRemove(r)
      PROVE  TotalAccounted'
  <2> DEFINE n == call[r].name
  <2>1. n \in Names
    BY <1>0, <1>3, CallFacts DEF ConnectorRemove, Step
  <2>2. /\ connectors'[n].received = 0 /\ connectors[n].received \in Nat
        /\ \A m \in Names : m # n => connectors'[m].received = connectors[m].received
        /\ retired' = retired + connectors[n].received /\ total' = total
    BY <1>0, <1>3, <2>1 DEF ConnectorRemove, TypeOK, Absent
  <2> HIDE DEF n
  <2>3. SumFunction(Counts)' = SumFunction(Counts) + (0 - connectors[n].received)
    BY <1>0, <2>1, <2>2, CountsChange
  <2>4. QED
    BY <1>0, <2>2, <2>3 DEF TotalAccounted
<1>4. ASSUME NEW r \in Requests, MarkSnapshotting(r)
      PROVE  TotalAccounted'
  <2>1. \A n \in Names : connectors'[n].received = connectors[n].received
    BY <1>0, <1>4 DEF MarkSnapshotting, TypeOK
  <2>2. QED
    BY <1>1, <1>4, <2>1 DEF MarkSnapshotting
<1>5. ASSUME NEW n \in Names, NEW k \in TableCounts, CompleteSnapshot(n, k)
      PROVE  TotalAccounted'
  <2>1. CASE UNCHANGED <<connectors, total>>
    BY <1>1, <1>5, <2>1 DEF CompleteSnapshot, TaskEnds
  <2>2. CASE connectors' = [connectors EXCEPT ![n] = SnapshotDone(n, k)]
             /\ total' = total + EventsOf(k)
    <3>1. /\ connectors'[n].received = connectors[n].received + EventsOf(k)
          /\ connectors[n].received \in Nat /\ EventsOf(k) \in Nat
          /\ \A m \in Names : m # n => connectors'[m].received = connectors[m].received
      BY <1>0, <2>2, EventsType DEF SnapshotDone, TypeOK
    <3>2. SumFunction(Counts)' = SumFunction(Counts)
             + ((connectors[n].received + EventsOf(k)) - connectors[n].received)
      BY <1>0, <3>1, CountsChange
    <3>3. retired' = retired
      BY <1>5 DEF CompleteSnapshot, TaskEnds
    <3>4. QED
      BY <1>0, <2>2, <3>1, <3>2, <3>3 DEF TotalAccounted
  <2>3. QED
    BY <1>5, <2>1, <2>2 DEF CompleteSnapshot
<1>6. CASE ShutdownAll
  <2>1. \A n \in Names : connectors'[n].received = connectors[n].received
    BY <1>0, <1>6 DEF ShutdownAll, ConnectorType
  <2>2. QED
    BY <1>1, <1>6, <2>1 DEF ShutdownAll
<1>7. CASE UNCHANGED <<connectors, total, retired>>
  BY <1>1, <1>7
<1>8. ASSUME NEW r \in Requests,
             \/ Submit(r) \/ Release(r) \/ ConnectorList(r) \/ ConnectorStatus(r)
             \/ CheckStatus(r) \/ SpawnSnapshot(r) \/ CallRegistry(r) \/ RegistryAnswers(r)
      PROVE  TotalAccounted'
  BY <1>7, <1>8 DEF Submit, Release, ConnectorList, ConnectorStatus, CheckStatus,
                    SpawnSnapshot, CallRegistry, RegistryAnswers
<1>9. CASE StopServing \/ Exit
  BY <1>7, <1>9 DEF StopServing, Exit
<1>10. CASE UNCHANGED vars
  BY <1>7, <1>10
<1>11. QED
  BY <1>2, <1>3, <1>4, <1>5, <1>6, <1>8, <1>9, <1>10 DEF Next, Handler, Main

\* The total of /metrics is the sum of the connectors' counts and of the counts
\* of those removed since: no event is counted at one place only, whether its
\* connector is removed, registered again or shut down meanwhile.
THEOREM EveryEventCounted == Spec => []TotalAccounted
<1>1. Init => BlankCounts /\ TotalAccounted
  <2> SUFFICES ASSUME Init PROVE BlankCounts /\ TotalAccounted
    OBVIOUS
  <2>1. Counts \in [Names -> Int] /\ \A n \in Names : Counts[n] = 0
    BY DEF Init, Absent, Counts
  <2>2. SumFunction(Counts) = 0
    BY <2>1, McpAssumption, SumOfZeros
  <2>3. QED
    BY <2>2 DEF Init, Absent, BlankCounts, TotalAccounted
<1>2. Typed /\ Typed' /\ BlankCounts /\ TotalAccounted /\ [Next]_vars
         => BlankCounts' /\ TotalAccounted'
  BY NextBlank, NextAccounted
<1>3. QED
  BY <1>1, <1>2, McpInvariant, PTL DEF Spec

-----------------------------------------------------------------------------
(* One permit and no connector_remove.                                     *)

OneTool == MaxConcurrent = 1 /\ "connector_remove" \notin Tools

\* With one permit there is one handler at work.
LEMMA Alone ==
  ASSUME OneTool, TypeOK, Admission, NEW r \in Requests, NEW q \in Requests,
         InProgress(r), InProgress(q)
  PROVE  r = q
<1>1. r \in Working /\ q \in Working
  BY DEF Working
<1>2. Cardinality(Working) <= 1
  BY WorkingFinite DEF OneTool, Admission, RateLimited, TypeOK
<1>3. /\ IsFiniteSet(Working \ {r})
      /\ Cardinality(Working \ {r}) = Cardinality(Working) - 1
      /\ Cardinality(Working \ {r}) \in Nat
  BY <1>1, WorkingFinite, FS_RemoveElement, FS_CardinalityType
<1>4. Working \ {r} = {}
  BY <1>2, <1>3, WorkingFinite, FS_EmptySet
<1>5. QED
  BY <1>1, <1>4

\* A step that leaves connectors and tasks alone, and brings no handler to the
\* middle of snapshot_start, preserves Serial.
LEMMA SerialFrame ==
  ASSUME SerialServing, UNCHANGED <<connectors, tasks>>,
         \A q \in Requests : pc'[q] \in {"checked", "marked"} =>
            pc'[q] = pc[q] /\ call'[q] = call[q]
  PROVE  SerialServing'
  BY DEF SerialServing, HasTask, Snapshotting, Registered

\* Steps of a handler that end before, or bypass, the middle of snapshot_start.
LEMMA StepIsFrame ==
  ASSUME TypeOK, NEW r \in Requests, NEW from, NEW to, Step(r, from, to),
         to \notin {"checked", "marked"}
  PROVE  \A q \in Requests : pc'[q] \in {"checked", "marked"} =>
            q # r /\ pc'[q] = pc[q] /\ call'[q] = call[q]
  BY DEF Step, TypeOK

\* Every step preserves Serial.
LEMMA NextSerial ==
  ASSUME OneTool, TypeOK, Admission, SerialServing, [Next]_vars, phase' = "serving"
  PROVE  SerialServing'
<1> USE DEF Active
<1>1. ASSUME NEW r \in Requests, Submit(r)
      PROVE  SerialServing'
  <2>1. \A q \in Requests : pc'[q] \in {"checked", "marked"} =>
            pc'[q] = pc[q] /\ call'[q] = call[q]
    BY <1>1 DEF Submit, TypeOK
  <2>2. UNCHANGED <<connectors, tasks>>
    BY <1>1 DEF Submit
  <2>3. QED
    BY <2>1, <2>2, SerialFrame
<1>2. ASSUME NEW r \in Requests, Release(r)
      PROVE  SerialServing'
  <2>1. queue # <<>> => Head(queue) \in Requests /\ pc[Head(queue)] = "waiting"
    <3>1. queue # <<>> => Head(queue) \in ToSet(queue)
      BY DEF ToSet, TypeOK
    <3>2. QED
      BY <3>1 DEF Admission, RateLimited
  <2>2. \A q \in Requests : pc'[q] \in {"checked", "marked"} =>
            pc'[q] = pc[q] /\ call'[q] = call[q]
    BY <1>2, <2>1 DEF Release, TypeOK
  <2>3. UNCHANGED <<connectors, tasks>>
    BY <1>2 DEF Release
  <2>4. QED
    BY <2>2, <2>3, SerialFrame
<1>3. ASSUME NEW r \in Requests,
             \/ ConnectorList(r) \/ ConnectorStatus(r)
             \/ CallRegistry(r) \/ RegistryAnswers(r)
      PROVE  SerialServing'
  BY <1>3, StepIsFrame, SerialFrame
     DEF ConnectorList, ConnectorStatus, CallRegistry, RegistryAnswers
<1>4. ASSUME NEW r \in Requests, ConnectorRegister(r)
      PROVE  SerialServing'
  <2> DEFINE n == call[r].name
  <2>1. \A q \in Requests : pc'[q] \in {"checked", "marked"} =>
            pc'[q] = pc[q] /\ call'[q] = call[q]
    BY <1>4, StepIsFrame DEF ConnectorRegister
  <2>2. CASE Registered(n)
    BY <1>4, <2>1, <2>2, SerialFrame DEF ConnectorRegister
  <2>3. CASE ~Registered(n)
    <3>1. \A m \in Names : Registered(m) => connectors'[m] = connectors[m]
      BY <1>4, <2>3 DEF ConnectorRegister, TypeOK
    <3>2. \A m \in Names : Snapshotting(m) => Registered(m)
      BY DEF Snapshotting, Registered
    <3>3. tasks' = tasks
      BY <1>4 DEF ConnectorRegister
    <3>4. \A q \in Requests : pc'[q] \in {"checked", "marked"} => call[q].name \in Names
      BY <2>1, CallFacts
    <3>5. QED
      BY <2>1, <3>1, <3>2, <3>3, <3>4 DEF SerialServing, HasTask, Snapshotting, Registered
  <2>4. QED
    BY <2>2, <2>3
<1>5. ASSUME NEW r \in Requests, ConnectorRemove(r)
      PROVE  SerialServing'
  <2>1. call[r] \in Calls /\ call[r].tool = "connector_remove"
    BY <1>5, CallFacts DEF ConnectorRemove, Step
  <2>2. QED
    BY <2>1 DEF Calls, OneTool
<1>6. ASSUME NEW r \in Requests, CheckStatus(r)
      PROVE  SerialServing'
  <2> DEFINE n == call[r].name
  <2>1. /\ n \in Names
        /\ UNCHANGED <<connectors, tasks, call>>
        /\ \A q \in Requests \ {r} : pc'[q] = pc[q]
        /\ pc'[r] \in {"checked", "marked"} =>
              pc'[r] = "checked" /\ connectors[n].status \in {"Running", "Stopped"}
    BY <1>6, CallFacts DEF CheckStatus, Step, TypeOK
  <2>2. pc'[r] \in {"checked", "marked"} => Registered(n) /\ ~HasTask(n)
    BY <2>1 DEF SerialServing, Registered, Snapshotting
  <2>3. QED
    BY <2>1, <2>2 DEF SerialServing, HasTask, Snapshotting, Registered
<1>7. ASSUME NEW r \in Requests, MarkSnapshotting(r)
      PROVE  SerialServing'
  <2> DEFINE n == call[r].name
  <2>1. /\ pc[r] = "checked" /\ n \in Names /\ Registered(n) /\ ~HasTask(n)
        /\ UNCHANGED <<tasks, call>>
        /\ connectors' = [connectors EXCEPT ![n].status = "Snapshotting"]
        /\ pc'[r] = "marked"
        /\ \A q \in Requests \ {r} : pc'[q] = pc[q]
    BY <1>7, CallFacts DEF MarkSnapshotting, Step, TypeOK, SerialServing
  <2>2. /\ connectors'[n].status = "Snapshotting"
        /\ \A m \in Names \ {n} : connectors'[m] = connectors[m]
    BY <2>1 DEF TypeOK
  <2>3. \A q \in Requests \ {r} : pc'[q] \notin {"checked", "marked"}
    BY <2>1, Alone DEF InProgress
  <2>4. QED
    BY <2>1, <2>2, <2>3 DEF SerialServing, HasTask, Snapshotting, Registered
<1>8. ASSUME NEW r \in Requests, SpawnSnapshot(r)
      PROVE  SerialServing'
  <2> DEFINE n == call[r].name
             k == call[r].tables
  <2>1. /\ pc[r] = "marked" /\ n \in Names /\ k \in TableCounts
        /\ UNCHANGED <<call, connectors>>
        /\ pc'[r] = "done" /\ \A q \in Requests \ {r} : pc'[q] = pc[q]
        /\ tasks'[n][k] = tasks[n][k] + 1
        /\ \A m \in Names, j \in TableCounts :
              (m = n /\ j = k) \/ tasks'[m][j] = tasks[m][j]
    BY <1>8, SpawnEffect DEF TypeOK
  <2>2. Snapshotting(n) /\ ~HasTask(n)
    BY <2>1 DEF SerialServing
  <2>3. \A j \in TableCounts : tasks[n][j] = 0
    BY <2>1, <2>2 DEF HasTask, TypeOK
  <2>4. \A q \in Requests : pc'[q] \notin {"checked", "marked"}
    BY <2>1, Alone DEF InProgress
  <2>5. \A m \in Names : HasTask(m)' => m = n \/ HasTask(m)
    BY <2>1 DEF HasTask
  <2>6. \A m \in Names : HasTask(m)' => Snapshotting(m)'
    BY <2>1, <2>2, <2>5 DEF SerialServing, Snapshotting
  <2>7. ASSUME NEW m \in Names, NEW i \in TableCounts, NEW j \in TableCounts,
               tasks'[m][i] > 0, tasks'[m][j] > 0
        PROVE  i = j /\ tasks'[m][j] = 1
    <3>1. CASE m = n
      BY <2>1, <2>3, <2>7, <3>1
    <3>2. CASE m # n
      BY <2>1, <2>7, <3>2 DEF SerialServing
    <3>3. QED
      BY <3>1, <3>2
  <2>8. QED
    BY <2>4, <2>6, <2>7 DEF SerialServing
<1>9. ASSUME NEW n \in Names, NEW k \in TableCounts, CompleteSnapshot(n, k)
      PROVE  SerialServing'
  <2>1. /\ tasks[n][k] > 0 /\ UNCHANGED <<pc, call>>
        /\ tasks'[n][k] = tasks[n][k] - 1
        /\ \A m \in Names, j \in TableCounts :
              (m = n /\ j = k) \/ tasks'[m][j] = tasks[m][j]
        /\ \A m \in Names \ {n} : connectors'[m] = connectors[m]
    BY <1>9 DEF CompleteSnapshot, TaskEnds, TypeOK
  <2>2. HasTask(n)
    BY <2>1 DEF HasTask
  <2>3. \A j \in TableCounts : tasks'[n][j] = 0
    BY <2>1 DEF SerialServing, TypeOK
  <2>4. ~HasTask(n)'
    BY <2>3 DEF HasTask
  <2>5. \A m \in Names \ {n} : HasTask(m)' <=> HasTask(m)
    BY <2>1 DEF HasTask
  <2>6. \A q \in Requests : pc'[q] \in {"checked", "marked"} =>
            call[q].name \in Names \ {n}
    BY <2>1, <2>2, CallFacts DEF SerialServing
  <2>7. \A m \in Names : HasTask(m)' => Snapshotting(m)'
    BY <2>1, <2>4, <2>5 DEF SerialServing, Snapshotting
  <2>8. ASSUME NEW m \in Names, NEW i \in TableCounts, NEW j \in TableCounts,
               tasks'[m][i] > 0, tasks'[m][j] > 0
        PROVE  i = j /\ tasks'[m][j] = 1
    <3>1. CASE m = n
      BY <2>3, <2>8, <3>1
    <3>2. CASE m # n
      BY <2>1, <2>8, <3>2 DEF SerialServing
    <3>3. QED
      BY <3>1, <3>2
  <2>9. ASSUME NEW q \in Requests
        PROVE  /\ pc'[q] \in {"checked", "marked"} => ~HasTask(call[q].name)'
               /\ pc'[q] = "checked" => Registered(call[q].name)'
               /\ pc'[q] = "marked" => Snapshotting(call[q].name)'
    BY <2>1, <2>5, <2>6 DEF SerialServing, Registered, Snapshotting
  <2>10. QED
    BY <2>1, <2>7, <2>8, <2>9 DEF SerialServing, HasTask, Registered, Snapshotting
<1>10. CASE Main
  BY <1>10 DEF Main, StopServing, ShutdownAll, Exit
<1>11. CASE UNCHANGED vars
  BY <1>11, SerialFrame
<1>12. QED
  BY <1>1, <1>2, <1>3, <1>4, <1>5, <1>6, <1>7, <1>8, <1>9, <1>10, <1>11
     DEF Next, Handler

LEMMA SerialInvariant ==
  ASSUME OneTool PROVE Spec => []Serial
<1>1. Init => Serial
  BY DEF Init, Serial, SerialServing, HasTask
<1>2. Typed /\ Serial /\ [Next]_vars => Serial'
  <2>1. [Next]_vars /\ phase' = "serving" => phase = "serving"
    BY DEF Next, Handler, Submit, Release, Step, ConnectorList, ConnectorStatus,
       ConnectorRegister, ConnectorRemove, CheckStatus, MarkSnapshotting,
       SpawnSnapshot, CallRegistry, RegistryAnswers, CompleteSnapshot, TaskEnds,
       Main, StopServing, ShutdownAll, Exit
  <2>2. QED
    BY <2>1, NextSerial DEF Typed, Serial
<1>3. QED
  BY <1>1, <1>2, McpInvariant, PTL DEF Spec

\* With OPENCDC_MAX_CONCURRENT_TOOLS = 1, and connectors that are never
\* removed, the status of a connector tells whether a snapshot is at work.
THEOREM OneToolAtATime ==
  ASSUME OneTool PROVE Spec => []StatusTracksTask
<1>1. Serial => StatusTracksTask
  BY DEF Serial, SerialServing, StatusTracksTask
<1>2. QED
  BY <1>1, SerialInvariant, PTL

\* What Serial says of the numbers: at most one task or handler per name.
LEMMA SerialCounts ==
  ASSUME OneTool, TypeOK, Admission, SerialServing, NEW n \in Names
  PROVE  LiveTasks(n) + Cardinality(Marking(n)) <= 1
<1> DEFINE T == tasks[n]
           Z == [k \in TableCounts |-> 0]
<1>1. T \in [TableCounts -> Int] /\ \A k \in TableCounts : T[k] \in Nat
  BY DEF TypeOK
<1>2. IsFiniteSet(TableCounts) /\ Z \in [TableCounts -> Int] /\ \A k \in TableCounts : Z[k] = 0
  BY McpAssumption
<1>3. SumFunction(Z) = 0
  <2> HIDE DEF Z
  <2>1. QED
    BY <1>2, SumOfZeros
<1>4. LiveTasks(n) = SumFunction(T)
  BY DEF LiveTasks
<1> HIDE DEF T, Z
<1>5. CASE HasTask(n)
  <2>1. PICK k \in TableCounts : T[k] > 0
    BY <1>5 DEF HasTask, T
  <2>2. T[k] = 1 /\ \A j \in TableCounts : j # k => T[j] = 0
    BY <1>1, <2>1 DEF SerialServing, T
  <2>3. SumFunction(T) = SumFunction(Z) + (T[k] - Z[k])
    BY <1>1, <1>2, <2>2, SumChange
  <2>4. LiveTasks(n) = 1
    BY <1>2, <1>3, <1>4, <2>2, <2>3
  <2>5. Marking(n) = {}
    BY <1>5 DEF SerialServing, Marking
  <2>6. QED
    BY <2>4, <2>5, FS_EmptySet
<1>6. CASE ~HasTask(n)
  <2>1. \A k \in TableCounts : T[k] = 0
    BY <1>1, <1>6 DEF HasTask, T
  <2>2. LiveTasks(n) = 0
    BY <1>1, <1>2, <1>4, <2>1, SumOfZeros
  <2>3. Marking(n) \subseteq Working
    BY DEF Marking, Working, InProgress
  <2>4. Cardinality(Working) <= 1
    BY WorkingFinite DEF OneTool, Admission, RateLimited, TypeOK
  <2>5. Cardinality(Marking(n)) <= Cardinality(Working) /\ Cardinality(Marking(n)) \in Nat
    BY <2>3, WorkingFinite, FS_Subset, FS_CardinalityType
  <2>6. QED
    BY <2>2, <2>4, <2>5, WorkingFinite
<1>7. QED
  BY <1>5, <1>6

\* With one permit and no removal, snapshot_start does refuse a connector that
\* has a snapshot in progress: what fails is its check against other handlers.
THEOREM OneToolOneSnapshot ==
  ASSUME OneTool PROVE Spec => []OneSnapshot
<1>1. Typed /\ Serial => OneSnapshot
  BY SerialCounts DEF Typed, Serial, OneSnapshot
<1>2. QED
  BY <1>1, McpInvariant, SerialInvariant, PTL

=============================================================================
