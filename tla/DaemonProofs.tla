---------------------------- MODULE DaemonProofs ---------------------------
(***************************************************************************)
(* Theorems about what MCDaemonSafety checks on a small instance:          *)
(*   - the supervision of a Session (SessionSupervisor), for any number of *)
(*     clients, any set of delivered events, any number of deliveries,     *)
(*     with and without a bridge and database faults: the stores agree, a  *)
(*     deletion orphans nothing, accepted hooks precede the exit, and the  *)
(*     tasks implement SessionContract;                                    *)
(*   - the start of daemons (DaemonStartup), for any number of processes   *)
(*     and of commands that start them, whoever is killed and whatever     *)
(*     files were left: unless a starting daemon unlinks the socket of a   *)
(*     live one there is one daemon at a time;                             *)
(*   - the launch of a provider (ProviderRuntime), for any paths, settings *)
(*     and number of concurrent requests: a managed launch is bridged, and *)
(*     its credentials and settings go away with it.                       *)
(***************************************************************************)
EXTENDS SessionSupervisor, SessionStatusProofs, DaemonStartup, ProviderRuntime,
        FiniteSetTheorems

(* A clone of the reducer is checked for its range only when it is stored. *)
Monitors == [step : {"none", "waiting", "draining", "locking", "finishing",
                     "done"},
             clone : RawMachines \cup {NoRecord}, drained : BOOLEAN]

MonitorTypeOK == monitor \in Monitors

(* The operation lock is held by exactly the task that is between its      *)
(* steps.                                                                  *)
Holders ==
    /\ lock = "spawn" <=> spawn \in {"created", "spawned"}
    /\ \A s \in Sources : lock = s <=> feed[s].clone # NoRecord
    /\ lock = "monitor" <=> monitor.step = "finishing"
    /\ \A c \in Attachers : lock = c <=> request[c] = "attaching"
    /\ \A c \in Clients : request[c] # "attaching"

(* How far the launch has come decides which records there are.            *)
Launched ==
    /\ spawn = "idle" => ~Kept(row)
    /\ spawn \in {"created", "spawned"} =>
         Kept(row) /\ row.status = NewRow /\ ~row.pid
    /\ spawn # "done" => managed = NoRecord /\ monitor = NoMonitor
    /\ spawn \in {"idle", "created"} => process = NoProcess

(* The managed record and the exit monitor live and end together, and with *)
(* the record everything that belongs to the Session in memory.            *)
Belongs ==
    /\ managed = NoRecord =>
         /\ monitor.step \in {"none", "done"}
         /\ reducer = NoRecord
         /\ spawn = "done" => process.treeEmpty /\ process.state # "running"
    /\ managed # NoRecord =>
         /\ monitor.step # "none"
         /\ managed.completed <=> monitor.step = "done"
         /\ ~managed.completed => row.pid
    /\ credential => Kept(row)
    /\ \A c \in Attachers : request[c] = "attaching" => managed # NoRecord
    /\ monitor.step \notin {"none", "waiting"} => process.exit # NoRecord
    /\ process.exit # NoRecord => process.state = "exited"

(* The row, the reducer and the managed record tell the same story.        *)
Agreement ==
    managed # NoRecord =>
        /\ Kept(row) /\ reducer # NoRecord
        /\ FromPersisted(reducer) = row.status
        /\ managed.record = row.status

(* What the stored record looks like.                                      *)
RowIsSound ==
    /\ Kept(row) =>
         /\ row.pid <=> row.status.lifecycle = "running"
         /\ Validate(row.status)
         /\ FromPersisted(row.status) = row.status
         /\ row.pid => managed # NoRecord
    /\ reducer # NoRecord => CompletedMeansDone(reducer)

(* A staged clone continues the stored record: its task has the lock, and  *)
(* without the lock nobody changes the row.                                *)
Continues(m) ==
    /\ Validate(m)
    /\ AttentionStep(row.status.attention, m.attention)

StagedIsSound ==
    /\ \A s \in Sources : feed[s].clone # NoRecord =>
         /\ Kept(row) /\ row.pid
         /\ Continues(feed[s].clone)
         /\ feed[s].clone.lifecycle = "running"
         /\ CompletedMeansDone(feed[s].clone)
    /\ monitor.step = "finishing" =>
         /\ monitor.clone \in RawMachines
         /\ Continues(monitor.clone)
         /\ monitor.clone.lifecycle \in Terminal
         /\ monitor.clone.activity = "none"

(* Once the exit monitor has woken no hook is accepted.                    *)
Drained ==
    /\ monitor.step \notin {"none", "waiting"} => ~credential
    /\ monitor.drained =>
         /\ monitor.step \notin {"none", "waiting"}
         /\ feed["hook"].queue = <<>>
         /\ feed["hook"].clone = NoRecord

Inv ==
    /\ TypeOK
    /\ MonitorTypeOK
    /\ Holders
    /\ Launched
    /\ Belongs
    /\ Agreement
    /\ RowIsSound
    /\ StagedIsSound
    /\ Drained

----------------------------------------------------------------------------
(* Tasks and clients have different names.                                 *)
LEMMA Names ==
    /\ "hook" \in Sources
    /\ \A s \in Sources : s \in {"hook", "runtime"}
    /\ \A c \in Attachers :
         c \notin {"free", "spawn", "monitor", "hook", "runtime"}
BY NamesAssumption DEF Sources

(* A row that is written is there, and holds what is persisted.            *)
LEMMA RowFacts ==
    ASSUME NEW m \in Machines, NEW pid \in BOOLEAN
    PROVE  LET r == Row(m, pid)
           IN  /\ Kept(r)
               /\ r \in Rows
               /\ r.status = FromPersisted(m)
               /\ r.pid = pid
<1>1. FromPersisted(m) \in Machines
  BY RawRecords, FromPersistedFacts
<1> QED BY <1>1, NamesAssumption DEF Row, Kept, Rows

(* The records that the invariant speaks of have their types.              *)
LEMMA Types ==
    ASSUME TypeOK
    PROVE  /\ Kept(row) => /\ row \in Rows
                           /\ row.status \in Machines
                           /\ row.status \in RawMachines
           /\ reducer # NoRecord =>
                reducer \in Machines /\ reducer \in RawMachines
           /\ managed # NoRecord =>
                managed \in Records
<1>1. Kept(row) => row \in Rows /\ row.status \in Machines
  BY DEF TypeOK, Kept, Rows
<1>2. reducer # NoRecord => reducer \in Machines
  BY DEF TypeOK
<1>3. managed # NoRecord => managed \in Records
  BY DEF TypeOK
<1> QED BY <1>1, <1>2, <1>3, RawRecords

(* The state of a Session that does not exist has its types.               *)
LEMMA InitialTypes ==
    NoProcess \in Processes /\ NoMonitor \in Monitors /\ IdleFeed \in Feeds
<1>1. NoProcess \in Processes
  BY DEF NoProcess, Processes
<1>2. NoMonitor \in Monitors
  BY DEF NoMonitor, Monitors
<1>3. IdleFeed \in Feeds
  <2>1. <<>> \in Seq(Delivered)
    OBVIOUS
  <2> QED BY <2>1 DEF IdleFeed, Feeds
<1> QED BY <1>1, <1>2, <1>3

(* Nothing exists yet.                                                     *)
LEMMA InitInv == Init => Inv
<1> SUFFICES ASSUME Init PROVE Inv
  OBVIOUS
<1> USE DEF Init
<1>1. TypeOK /\ MonitorTypeOK
  <2>1. NoMonitor.step = "none"
    BY DEF NoMonitor
  <2>2. feed \in [Sources -> Feeds]
    BY InitialTypes
  <2>3. request \in [Clients \cup Attachers -> {"idle", "stopping", "attaching"}]
    OBVIOUS
  <2>4. deliveries \in 0..MaxDeliveries
    BY SupervisorAssumption
  <2> QED BY <2>1, <2>2, <2>3, <2>4, InitialTypes DEF TypeOK, MonitorTypeOK
<1>2. Holders
  BY Names DEF Holders, IdleFeed, NoMonitor
<1>3. Launched /\ Belongs /\ Agreement /\ RowIsSound
  BY DEF Launched, Belongs, Agreement, RowIsSound, NoMonitor, NoProcess, Kept
<1>4. StagedIsSound /\ Drained
  BY DEF StagedIsSound, Drained, IdleFeed, NoMonitor
<1> QED BY <1>1, <1>2, <1>3, <1>4 DEF Inv

(* The launch, from the row to the managed record.                         *)
LEMMA LaunchKeeps == Inv /\ Launch => Inv'
<1> SUFFICES ASSUME Inv, Launch PROVE Inv'
  OBVIOUS
<1> USE DEF Inv
<1>1. CASE CreateSession
  <2>1. /\ spawn = "idle" /\ lock = "free" /\ lock' = "spawn"
        /\ spawn' = "created" /\ row' = Row(NewRow, FALSE)
        /\ credential' = ~PlainShell
        /\ UNCHANGED <<reducer, managed, process, feed, monitor, request,
                       token, deliveries>>
    BY <1>1 DEF CreateSession, LockAvailable
  <2>2. /\ Kept(row') /\ row' \in Rows
        /\ row'.status = NewRow /\ row'.pid = FALSE
    BY <2>1, RowFacts, NewRowFacts
  <2>3. TypeOK' /\ MonitorTypeOK'
    BY <2>1, <2>2, SupervisorAssumption DEF TypeOK, MonitorTypeOK
  <2>4. Holders'
    BY <2>1, Names DEF Holders
  <2>5. Launched'
    BY <2>1, <2>2 DEF Launched
  <2>6. Belongs'
    BY <2>1, <2>2 DEF Belongs, Launched, NoMonitor
  <2>7. Agreement' /\ RowIsSound'
    BY <2>1, <2>2, NewRowFacts DEF Agreement, RowIsSound, Launched
  <2>8. \A s \in Sources : feed[s].clone = NoRecord
    BY <2>1, Names DEF Holders
  <2>9. monitor = NoMonitor /\ NoMonitor.step = "none"
        /\ NoMonitor.drained = FALSE
    BY <2>1 DEF Launched, NoMonitor
  <2>10. StagedIsSound' /\ Drained'
    BY <2>1, <2>8, <2>9 DEF StagedIsSound, Drained
  <2> QED BY <2>3, <2>4, <2>5, <2>6, <2>7, <2>10
<1>2. CASE SpawnProcess
  <2>1. /\ spawn = "created" /\ spawn' = "spawned"
        /\ process' = [NoProcess EXCEPT !.state = "running",
                                        !.treeEmpty = FALSE, !.actor = TRUE]
        /\ UNCHANGED <<row, reducer, managed, lock, feed, monitor, credential,
                       request, token, deliveries>>
    BY <1>2 DEF SpawnProcess
  <2>a. process' \in Processes
    BY <2>1, InitialTypes DEF Processes
  <2>2. TypeOK' /\ MonitorTypeOK'
    BY <2>1, <2>a DEF TypeOK, MonitorTypeOK
  <2>3. Holders' /\ Launched'
    BY <2>1 DEF Holders, Launched
  <2>b. process'.exit = NoRecord
    BY <2>1 DEF NoProcess
  <2>c. managed = NoRecord /\ monitor.step = "none"
    BY <2>1 DEF Launched, NoMonitor
  <2>4. Belongs'
    BY <2>1, <2>b, <2>c DEF Belongs
  <2>5. Agreement' /\ RowIsSound' /\ StagedIsSound' /\ Drained'
    BY <2>1 DEF Agreement, RowIsSound, StagedIsSound, Continues, Drained
  <2> QED BY <2>2, <2>3, <2>4, <2>5
<1>3. CASE SpawnFails
  <2>1. /\ spawn \in {"created", "spawned"} /\ spawn' = "done"
        /\ lock' = "free" /\ row' = Row(StartFailure(row.status), FALSE)
        /\ credential' = FALSE /\ process' = NoProcess
        /\ UNCHANGED <<reducer, managed, feed, monitor, request, token,
                       deliveries>>
    BY <1>3 DEF SpawnFails
  <2>2. row.status = NewRow
    BY <2>1 DEF Launched
  <2>3. /\ Kept(row') /\ row' \in Rows
        /\ row'.status = StartFailure(NewRow) /\ row'.pid = FALSE
    BY <2>1, <2>2, RowFacts, StartFailureFacts
  <2>4. lock = "spawn" /\ managed = NoRecord /\ monitor = NoMonitor
        /\ reducer = NoRecord
    BY <2>1 DEF Holders, Launched, Belongs
  <2>5. TypeOK' /\ MonitorTypeOK'
    BY <2>1, <2>3, InitialTypes DEF TypeOK, MonitorTypeOK
  <2>6. \A s \in Sources : feed[s].clone = NoRecord
    BY <2>4, Names DEF Holders
  <2>7. \A c \in Attachers : request[c] # "attaching"
    BY <2>4, Names DEF Holders
  <2>8. Holders'
    BY <2>1, <2>4, <2>6, <2>7, Names DEF Holders, NoMonitor
  <2>9. Launched' /\ Belongs'
    BY <2>1, <2>3, <2>4, <2>7 DEF Launched, Belongs, NoMonitor, NoProcess
  <2>10. Agreement' /\ RowIsSound'
    BY <2>1, <2>3, <2>4, StartFailureFacts DEF Agreement, RowIsSound
  <2>11. StagedIsSound' /\ Drained'
    BY <2>1, <2>4, <2>6 DEF StagedIsSound, Drained, NoMonitor
  <2> QED BY <2>5, <2>8, <2>9, <2>10, <2>11
<1>4. CASE MarkSessionRunning
  <2>1. /\ spawn = "spawned" /\ spawn' = "done" /\ lock' = "free"
        /\ row' = Row(MarkRunning(row.status), TRUE)
        /\ reducer' = row'.status
        /\ managed' = [record |-> row'.status, completed |-> FALSE]
        /\ monitor' = [monitor EXCEPT !.step = "waiting"]
        /\ UNCHANGED <<process, feed, credential, request, token, deliveries>>
    BY <1>4 DEF MarkSessionRunning
  <2>2. row.status = NewRow
    BY <2>1 DEF Launched
  <2> DEFINE m == MarkRunning(NewRow)
  <2>3. /\ m \in Machines /\ m.lifecycle = "running" /\ m.activity = "none"
        /\ FromPersisted(m) = m /\ Validate(m)
    BY MarkRunningFacts
  <2>4. /\ Kept(row') /\ row' \in Rows
        /\ row'.status = m /\ row'.pid = TRUE
    BY <2>1, <2>2, <2>3, RowFacts
  <2> HIDE DEF m
  <2>a. /\ managed' \in Records
        /\ managed'.record = m /\ managed'.completed = FALSE
    BY <2>1, <2>3, <2>4 DEF Records
  <2>b. managed' # NoRecord /\ reducer' = m /\ m # NoRecord
    BY <2>1, <2>3, <2>4, <2>a, NamesAssumption
  <2>5. /\ managed' \in Records
        /\ managed'.record = m /\ managed'.completed = FALSE
        /\ managed' # NoRecord /\ reducer' = m /\ m # NoRecord
    BY <2>a, <2>b
  <2>6. lock = "spawn" /\ monitor = NoMonitor
    BY <2>1 DEF Holders, Launched
  <2>7. /\ monitor'.step = "waiting" /\ monitor'.drained = FALSE
        /\ MonitorTypeOK'
    BY <2>1, <2>6, InitialTypes DEF Monitors, MonitorTypeOK, NoMonitor
  <2>8. TypeOK'
    BY <2>1, <2>3, <2>4, <2>5, <2>7 DEF TypeOK
  <2>9. /\ \A s \in Sources : feed[s].clone = NoRecord
        /\ \A c \in Attachers : request[c] # "attaching"
    BY <2>6, Names DEF Holders
  <2>10. Holders'
    BY <2>1, <2>7, <2>9, Names DEF Holders
  <2>11. Launched' /\ Belongs'
    BY <2>1, <2>4, <2>5, <2>7, <2>9 DEF Launched, Belongs
  <2>12. Agreement'
    BY <2>3, <2>4, <2>5 DEF Agreement
  <2>13. RowIsSound'
    BY <2>3, <2>4, <2>5 DEF RowIsSound, CompletedMeansDone
  <2>14. StagedIsSound' /\ Drained'
    BY <2>1, <2>7, <2>9 DEF StagedIsSound, Drained
  <2> QED BY <2>7, <2>8, <2>10, <2>11, <2>12, <2>13, <2>14
<1> QED BY <1>1, <1>2, <1>3, <1>4 DEF Launch

(* The child and its descendants exit.                                     *)
LEMMA ProcessKeeps == Inv /\ (SomeChildExits \/ DescendantsExit) => Inv'
<1> SUFFICES ASSUME Inv, SomeChildExits \/ DescendantsExit PROVE Inv'
  OBVIOUS
<1> USE DEF Inv
<1>1. ASSUME NEW code \in {"zero", "nonzero"}, NEW empty \in BOOLEAN,
             ChildExits(code, empty)
      PROVE  Inv'
  <2> DEFINE exit == [plainShell |-> PlainShell, code |-> code,
                      stopRequested |-> "stop" \in process.closing]
  <2>1. /\ process.state = "running"
        /\ process' = [process EXCEPT
             !.state = "exited", !.exit = exit,
             !.treeEmpty = empty \/ process.closing # {},
             !.actor = process.closing = {}]
        /\ UNCHANGED <<row, reducer, managed, lock, spawn, feed, monitor,
                       credential, request, token, deliveries>>
    BY <1>1 DEF ChildExits
  <2>2. exit \in Exits
    BY SupervisorAssumption DEF Exits
  <2>3. exit # NoRecord
    BY <2>2, NamesAssumption
  <2> HIDE DEF exit
  <2>4. /\ process' \in Processes
        /\ process'.state = "exited"
        /\ process'.exit = exit
    BY <2>1, <2>2 DEF TypeOK, Processes
  <2>5. TypeOK' /\ MonitorTypeOK'
    BY <2>1, <2>4 DEF TypeOK, MonitorTypeOK
  <2>6. spawn \notin {"idle", "created"}
    BY <2>1 DEF Launched, NoProcess
  <2>7. ~(managed = NoRecord /\ spawn = "done")
    BY <2>1 DEF Belongs
  <2>8. Holders' /\ Launched'
    BY <2>1, <2>6 DEF Holders, Launched
  <2>9. Belongs'
    BY <2>1, <2>3, <2>4, <2>7 DEF Belongs
  <2>10. Agreement' /\ RowIsSound' /\ StagedIsSound' /\ Drained'
    BY <2>1 DEF Agreement, RowIsSound, StagedIsSound, Continues, Drained
  <2> QED BY <2>5, <2>8, <2>9, <2>10
<1>2. CASE DescendantsExit
  <2>1. /\ process.state = "exited"
        /\ process' = [process EXCEPT !.treeEmpty = TRUE]
        /\ UNCHANGED <<row, reducer, managed, lock, spawn, feed, monitor,
                       credential, request, token, deliveries>>
    BY <1>2 DEF DescendantsExit
  <2>2. /\ process' \in Processes
        /\ process'.state = "exited"
        /\ process'.exit = process.exit
        /\ process'.treeEmpty = TRUE
    BY <2>1 DEF TypeOK, Processes
  <2>3. TypeOK' /\ MonitorTypeOK'
    BY <2>1, <2>2 DEF TypeOK, MonitorTypeOK
  <2>4. spawn \notin {"idle", "created"}
    BY <2>1 DEF Launched, NoProcess
  <2>5. Holders' /\ Launched'
    BY <2>1, <2>4 DEF Holders, Launched
  <2>6. Belongs'
    BY <2>1, <2>2 DEF Belongs
  <2>7. Agreement' /\ RowIsSound' /\ StagedIsSound' /\ Drained'
    BY <2>1 DEF Agreement, RowIsSound, StagedIsSound, Continues, Drained
  <2> QED BY <2>3, <2>5, <2>6, <2>7
<1> QED BY <1>1, <1>2 DEF SomeChildExits

(* What a step that changes one feed leaves of the others.                 *)
LEMMA FeedUpdate ==
    ASSUME NEW f \in [Sources -> Feeds], NEW s \in Sources, NEW x \in Feeds
    PROVE  LET g == [f EXCEPT ![s] = x]
           IN  /\ g \in [Sources -> Feeds]
               /\ g[s] = x
               /\ \A q \in Sources : q # s => g[q] = f[q]
OBVIOUS

(* An event is accepted into its queue.                                    *)
LEMMA ArrivalKeeps ==
    ASSUME Inv, NEW source \in Sources, NEW event \in Delivered,
           EventArrives(source, event)
    PROVE  Inv'
<1> USE DEF Inv
<1> DEFINE x == [feed[source] EXCEPT !.queue = Append(@, event)]
<1>1. /\ source = "hook" => credential
      /\ deliveries < MaxDeliveries /\ deliveries' = deliveries + 1
      /\ feed' = [feed EXCEPT ![source] = x]
      /\ UNCHANGED <<row, reducer, managed, process, lock, spawn, monitor,
                     credential, request, token>>
  BY DEF EventArrives
<1>2. feed \in [Sources -> Feeds] /\ feed[source] \in Feeds
  BY DEF TypeOK
<1>3. Append(feed[source].queue, event) \in Seq(Delivered)
  BY <1>2 DEF Feeds
<1>4. x \in Feeds /\ x.clone = feed[source].clone
  BY <1>2, <1>3 DEF Feeds
<1> HIDE DEF x
<1>5. /\ feed' \in [Sources -> Feeds]
      /\ \A s \in Sources : feed'[s].clone = feed[s].clone
      /\ \A s \in Sources : s # source => feed'[s] = feed[s]
  BY <1>1, <1>2, <1>4, FeedUpdate
<1>6. TypeOK' /\ MonitorTypeOK'
  BY <1>1, <1>5, SupervisorAssumption DEF TypeOK, MonitorTypeOK
<1>7. Holders' /\ Launched' /\ Belongs' /\ Agreement' /\ RowIsSound'
  BY <1>1, <1>5 DEF Holders, Launched, Belongs, Agreement, RowIsSound
<1>8. StagedIsSound'
  BY <1>1, <1>5 DEF StagedIsSound, Continues
<1>9. Drained'
  <2>1. CASE source = "hook"
    BY <1>1, <2>1 DEF Drained
  <2>2. CASE source # "hook"
    BY <1>1, <1>5, <2>2, Names DEF Drained
  <2> QED BY <2>1, <2>2
<1> QED BY <1>6, <1>7, <1>8, <1>9

(* While nobody holds the lock nothing is staged and nobody attaches.      *)
LEMMA LockIsFree ==
    ASSUME Inv, lock = "free"
    PROVE  /\ \A s \in Sources : feed[s].clone = NoRecord
           /\ \A c \in Attachers : request[c] # "attaching"
           /\ spawn \notin {"created", "spawned"}
           /\ monitor.step # "finishing"
BY Names DEF Inv, Holders

(* A Session whose row names a process is managed, and its reducer is a    *)
(* sound running record that agrees with the row.                          *)
LEMMA RunningIsManaged ==
    ASSUME Inv, Kept(row), row.pid
    PROVE  /\ managed # NoRecord /\ reducer # NoRecord
           /\ managed \in Records
           /\ spawn = "done"
           /\ row.status.lifecycle = "running"
           /\ reducer \in Machines /\ reducer \in RawMachines
           /\ reducer.lifecycle = "running"
           /\ reducer.attention = row.status.attention
           /\ Validate(reducer)
           /\ CompletedMeansDone(reducer)
<1>1. managed # NoRecord /\ row.status.lifecycle = "running"
  BY DEF Inv, RowIsSound
<1>2. reducer # NoRecord /\ FromPersisted(reducer) = row.status
  BY <1>1 DEF Inv, Agreement
<1>3. spawn = "done"
  BY <1>1 DEF Inv, Launched, TypeOK
<1>4. managed \in Records /\ reducer \in Machines /\ reducer \in RawMachines
  BY <1>1, <1>2, Types DEF Inv
<1>5. Validate(row.status) /\ CompletedMeansDone(reducer)
  BY <1>2 DEF Inv, RowIsSound
<1> QED BY <1>1, <1>2, <1>3, <1>4, <1>5, FromPersistedFacts

(* Taking an event out of its queue.                                       *)
LEMMA DequeueFacts ==
    ASSUME Inv, NEW source \in Sources, TakesEvent(source),
           NEW m \in Machines \cup {NoRecord}, Dequeue(source, m)
    PROVE  /\ feed' \in [Sources -> Feeds]
           /\ feed'[source].clone = m
           /\ \A s \in Sources : s # source => feed'[s] = feed[s]
           /\ Head(feed[source].queue) \in Events
           /\ source = "hook" => ~monitor.drained
           /\ lock = "free"
<1> DEFINE e == Head(feed[source].queue).type = "SessionEnded"
           x == [feed[source] EXCEPT !.queue = Tail(@), !.clone = m,
                                     !.ends = e]
<1>1. /\ feed[source].queue # <<>> /\ lock = "free"
      /\ feed' = [feed EXCEPT ![source] = x]
  BY DEF TakesEvent, LockAvailable, Dequeue
<1>2. feed \in [Sources -> Feeds] /\ feed[source] \in Feeds
  BY DEF Inv, TypeOK
<1>3. feed[source].queue \in Seq(Delivered)
  BY <1>2 DEF Feeds
<1>4. /\ Tail(feed[source].queue) \in Seq(Delivered)
      /\ Head(feed[source].queue) \in Delivered
  BY <1>1, <1>3
<1>5. e \in BOOLEAN
  OBVIOUS
<1> HIDE DEF e
<1>6. x \in Feeds /\ x.clone = m
  BY <1>2, <1>4, <1>5 DEF Feeds
<1> HIDE DEF x
<1>7. /\ feed' \in [Sources -> Feeds] /\ feed'[source].clone = m
      /\ \A s \in Sources : s # source => feed'[s] = feed[s]
  BY <1>1, <1>2, <1>6, FeedUpdate
<1>8. source = "hook" => ~monitor.drained
  BY <1>1 DEF Inv, Drained
<1> QED BY <1>1, <1>4, <1>7, <1>8, SupervisorAssumption

(* An event is staged, dropped or refused.                                 *)
LEMMA IntakeKeeps ==
    ASSUME Inv, NEW source \in Sources, Intake(source)
    PROVE  Inv'
<1> USE DEF Inv
<1>1. CASE StageEvent(source)
  <2> DEFINE event == Head(feed[source].queue)
             n == StagedMachine(event)
  <2>1. /\ TakesEvent(source) /\ AcceptsEvents(row) /\ InRange(n)
        /\ lock' = source /\ Dequeue(source, n)
        /\ UNCHANGED <<row, reducer, managed, process, spawn, monitor,
                       credential, request, token, deliveries>>
    BY <1>1 DEF StageEvent
  <2>2. Kept(row) /\ row.pid
    BY <2>1 DEF AcceptsEvents
  <2>3. event \in Events /\ lock = "free"
    <3>1. feed[source].queue \in Seq(Delivered) /\ feed[source].queue # <<>>
      BY <2>1 DEF TypeOK, Feeds, TakesEvent
    <3> QED BY <2>1, <3>1, SupervisorAssumption DEF TakesEvent, LockAvailable
  <2>4. n = Apply(reducer, event)
    BY <2>2, RunningIsManaged DEF StagedMachine
  <2> HIDE DEF event
  <2>5. Sound(reducer, n) /\ CompletedMeansDone(n)
    BY <2>2, <2>3, <2>4, RunningIsManaged, ApplySound
  <2> HIDE DEF n
  <2>6. /\ n \in Machines /\ n.lifecycle = "running" /\ Continues(n)
        /\ n # NoRecord
    BY <2>1, <2>2, <2>5, RunningIsManaged, RawRecords, NamesAssumption
    DEF Sound, Continues
  <2>7. /\ feed' \in [Sources -> Feeds] /\ feed'[source].clone = n
        /\ \A s \in Sources : s # source => feed'[s] = feed[s]
        /\ source = "hook" => ~monitor.drained
    BY <2>1, <2>6, DequeueFacts
  <2>8. TypeOK' /\ MonitorTypeOK'
    BY <2>1, <2>7 DEF TypeOK, MonitorTypeOK
  <2>9. Holders'
    BY <2>1, <2>3, <2>6, <2>7, LockIsFree, Names DEF Holders
  <2>10. Launched' /\ Belongs' /\ Agreement' /\ RowIsSound'
    BY <2>1 DEF Launched, Belongs, Agreement, RowIsSound
  <2>11. StagedIsSound'
    BY <2>1, <2>2, <2>3, <2>5, <2>6, <2>7, LockIsFree
    DEF StagedIsSound, Continues
  <2>12. Drained'
    BY <2>1, <2>7, Names DEF Drained
  <2> QED BY <2>8, <2>9, <2>10, <2>11, <2>12
<1>2. ASSUME TakesEvent(source), Dequeue(source, NoRecord),
             UNCHANGED <<row, reducer, managed, process, lock, spawn, monitor,
                         credential, request, token, deliveries>>
      PROVE  Inv'
  <2>1. /\ feed' \in [Sources -> Feeds] /\ feed'[source].clone = NoRecord
        /\ \A s \in Sources : s # source => feed'[s] = feed[s]
        /\ source = "hook" => ~monitor.drained
        /\ lock = "free"
    BY <1>2, DequeueFacts
  <2>2. TypeOK' /\ MonitorTypeOK'
    BY <1>2, <2>1 DEF TypeOK, MonitorTypeOK
  <2>3. Holders'
    BY <1>2, <2>1, LockIsFree, Names DEF Holders
  <2>4. Launched' /\ Belongs' /\ Agreement' /\ RowIsSound'
    BY <1>2 DEF Launched, Belongs, Agreement, RowIsSound
  <2>5. StagedIsSound'
    BY <1>2, <2>1, LockIsFree DEF StagedIsSound, Continues
  <2>6. Drained'
    BY <1>2, <2>1, Names DEF Drained
  <2> QED BY <2>2, <2>3, <2>4, <2>5, <2>6
<1>3. CASE DropEvent(source)
  BY <1>2, <1>3 DEF DropEvent
<1>4. CASE RefuseEvent(source) /\ source = "hook"
  BY <1>2, <1>4 DEF RefuseEvent
<1>5. CASE RefuseEvent(source) /\ source # "hook"
  <2> DEFINE x == [IdleFeed EXCEPT !.open = FALSE]
  <2>1. /\ TakesEvent(source) /\ lock = "free"
        /\ feed' = [feed EXCEPT ![source] = x]
        /\ process' = IF managed # NoRecord /\ process.actor
                      THEN RuntimeFailed(process) ELSE process
        /\ UNCHANGED <<row, reducer, managed, lock, spawn, monitor, credential,
                       request, token, deliveries>>
    BY <1>5 DEF RefuseEvent, TakesEvent, LockAvailable
  <2>2. x \in Feeds /\ x.clone = NoRecord
    BY InitialTypes DEF Feeds, IdleFeed
  <2> HIDE DEF x
  <2>3. /\ feed' \in [Sources -> Feeds] /\ feed'[source].clone = NoRecord
        /\ \A s \in Sources : s # source => feed'[s] = feed[s]
    BY <2>1, <2>2, FeedUpdate DEF TypeOK
  <2>4. /\ process' \in Processes
        /\ process'.state = process.state
        /\ process'.exit = process.exit
        /\ process'.treeEmpty = process.treeEmpty
        /\ managed = NoRecord => process' = process
    <3>1. process \in Processes
      BY DEF TypeOK
    <3> QED BY <2>1, <3>1 DEF RuntimeFailed, Processes
  <2>5. TypeOK' /\ MonitorTypeOK'
    BY <2>1, <2>3, <2>4 DEF TypeOK, MonitorTypeOK
  <2>6. Holders'
    BY <2>1, <2>3, LockIsFree, Names DEF Holders
  <2>7. Launched'
    BY <2>1, <2>4 DEF Launched
  <2>8. Belongs'
    BY <2>1, <2>4 DEF Belongs
  <2>9. Agreement' /\ RowIsSound'
    BY <2>1 DEF Agreement, RowIsSound
  <2>10. StagedIsSound'
    BY <2>1, <2>3, LockIsFree DEF StagedIsSound, Continues
  <2>11. Drained'
    BY <1>5, <2>1, <2>3, Names DEF Drained
  <2> QED BY <2>5, <2>6, <2>7, <2>8, <2>9, <2>10, <2>11
<1> QED BY <1>1, <1>3, <1>4, <1>5 DEF Intake

(* A staged event is stored: its task held the lock, so the row is still   *)
(* the one the clone continues.                                            *)
LEMMA CommitKeeps ==
    ASSUME Inv, NEW source \in Sources, CommitEvent(source)
    PROVE  Inv'
<1> USE DEF Inv
<1> DEFINE n == feed[source].clone
           x == [feed[source] EXCEPT !.clone = NoRecord]
<1>1. n # NoRecord /\ feed \in [Sources -> Feeds] /\ feed[source] \in Feeds
  BY DEF CommitEvent, TypeOK
<1>2. /\ n \in Machines /\ n \in RawMachines /\ Kept(row) /\ row.pid
      /\ Validate(n) /\ n.lifecycle = "running" /\ CompletedMeansDone(n)
      /\ lock = source
  BY <1>1, RawRecords DEF StagedIsSound, Continues, Holders, Feeds
<1> HIDE DEF n
<1>3. /\ managed # NoRecord /\ managed \in Records
      /\ row.status.lifecycle = "running" /\ spawn = "done"
  BY <1>2, RunningIsManaged
<1>4. AcceptsEvents(row)
  BY <1>2, <1>3 DEF AcceptsEvents, LifecycleIsActive
<1>5. /\ feed' = [feed EXCEPT ![source] = x] /\ lock' = "free"
      /\ row' = Row(n, TRUE) /\ reducer' = n
      /\ managed' = [managed EXCEPT !.record = FromPersisted(n)]
      /\ credential' \in BOOLEAN /\ (credential' => credential)
      /\ UNCHANGED <<process, spawn, monitor, request, token, deliveries>>
  BY <1>3, <1>4 DEF CommitEvent, n, TypeOK
<1>6. /\ Kept(row') /\ row' \in Rows
      /\ row'.status = FromPersisted(n) /\ row'.pid = TRUE
  BY <1>2, <1>5, RowFacts
<1>7. /\ FromPersisted(n) \in Machines
      /\ FromPersisted(n).lifecycle = "running"
      /\ FromPersisted(FromPersisted(n)) = FromPersisted(n)
      /\ Validate(FromPersisted(n))
  BY <1>2, FromPersistedFacts
<1>8. /\ managed' \in Records /\ managed'.record = FromPersisted(n)
      /\ managed'.completed = managed.completed
  BY <1>3, <1>5, <1>7 DEF Records
<1>9. managed' # NoRecord
  BY <1>8, NamesAssumption
<1>10. x \in Feeds /\ x.clone = NoRecord /\ x.queue = feed[source].queue
  BY <1>1 DEF Feeds
<1> HIDE DEF x
<1>11. /\ feed' \in [Sources -> Feeds]
       /\ feed'[source].clone = NoRecord
       /\ feed'[source].queue = feed[source].queue
       /\ \A s \in Sources : s # source => feed'[s] = feed[s]
  BY <1>1, <1>5, <1>10, FeedUpdate
<1>12. /\ \A s \in Sources : s # source => feed[s].clone = NoRecord
       /\ \A c \in Attachers : request[c] # "attaching"
       /\ monitor.step # "finishing"
  BY <1>2, Names DEF Holders
<1>13. \A s \in Sources : feed'[s].clone = NoRecord
  BY <1>11, <1>12
<1>14. TypeOK' /\ MonitorTypeOK'
  BY <1>2, <1>5, <1>6, <1>8, <1>11 DEF TypeOK, MonitorTypeOK
<1>15. Holders'
  BY <1>3, <1>5, <1>12, <1>13, Names DEF Holders
<1>16. Launched'
  BY <1>3, <1>5 DEF Launched
<1>17. Belongs'
  BY <1>3, <1>5, <1>6, <1>8, <1>9, <1>12 DEF Belongs
<1>18. Agreement'
  BY <1>1, <1>5, <1>6, <1>8 DEF Agreement
<1>19. RowIsSound'
  BY <1>2, <1>5, <1>6, <1>7, <1>9 DEF RowIsSound
<1>20. StagedIsSound'
  BY <1>5, <1>12, <1>13 DEF StagedIsSound
<1>21. Drained'
  BY <1>1, <1>2, <1>5, <1>11, Names DEF Drained, n
<1> QED BY <1>14, <1>15, <1>16, <1>17, <1>18, <1>19, <1>20, <1>21

(* The exit monitor, from the published exit to the completed Session.     *)
LEMMA MonitorKeeps == Inv /\ ExitMonitor => Inv'
<1> SUFFICES ASSUME Inv, ExitMonitor PROVE Inv'
  OBVIOUS
<1> USE DEF Inv
<1>1. CASE MonitorWakes
  <2>1. /\ monitor.step = "waiting" /\ process.exit # NoRecord
        /\ credential' = FALSE
        /\ monitor' = [monitor EXCEPT !.step = IF credential THEN "draining"
                                                             ELSE "locking"]
        /\ UNCHANGED <<row, reducer, managed, process, lock, spawn, feed,
                       request, token, deliveries>>
    BY <1>1 DEF MonitorWakes
  <2>2. /\ monitor' \in Monitors
        /\ monitor'.step \in {"draining", "locking"}
        /\ monitor'.drained = monitor.drained
    BY <2>1 DEF MonitorTypeOK, Monitors
  <2>3. TypeOK' /\ MonitorTypeOK'
    BY <2>1, <2>2 DEF TypeOK, MonitorTypeOK
  <2>4. spawn = "done"
    BY <2>1 DEF Launched, NoMonitor, TypeOK
  <2>5. Holders' /\ Launched'
    BY <2>1, <2>2, <2>4 DEF Holders, Launched
  <2>6. Belongs'
    BY <2>1, <2>2 DEF Belongs
  <2>7. Agreement' /\ RowIsSound' /\ StagedIsSound' /\ Drained'
    BY <2>1, <2>2
    DEF Agreement, RowIsSound, StagedIsSound, Continues, Drained
  <2> QED BY <2>3, <2>5, <2>6, <2>7
<1>2. CASE HooksDrained \/ DrainTimesOut
  <2>1. /\ monitor.step = "draining"
        /\ \/ /\ feed["hook"].queue = <<>> /\ feed["hook"].clone = NoRecord
              /\ monitor' = [monitor EXCEPT !.step = "locking",
                                            !.drained = TRUE]
           \/ monitor' = [monitor EXCEPT !.step = "locking"]
        /\ UNCHANGED <<row, reducer, managed, process, lock, spawn, feed,
                       credential, request, token, deliveries>>
    BY <1>2 DEF HooksDrained, DrainTimesOut
  <2>2. /\ monitor' \in Monitors /\ monitor'.step = "locking"
        /\ monitor'.drained =>
             \/ monitor.drained
             \/ feed["hook"].queue = <<>> /\ feed["hook"].clone = NoRecord
    BY <2>1 DEF MonitorTypeOK, Monitors
  <2>3. TypeOK' /\ MonitorTypeOK'
    BY <2>1, <2>2 DEF TypeOK, MonitorTypeOK
  <2>4. spawn = "done"
    BY <2>1 DEF Launched, NoMonitor, TypeOK
  <2>5. Holders' /\ Launched'
    BY <2>1, <2>2, <2>4 DEF Holders, Launched
  <2>6. Belongs'
    BY <2>1, <2>2 DEF Belongs
  <2>7. Agreement' /\ RowIsSound' /\ StagedIsSound' /\ Drained'
    BY <2>1, <2>2
    DEF Agreement, RowIsSound, StagedIsSound, Continues, Drained
  <2> QED BY <2>3, <2>5, <2>6, <2>7
<1>3. CASE MonitorLocks
  <2> DEFINE n == ExitStaged
  <2>1. /\ monitor.step = "locking" /\ lock = "free" /\ lock' = "monitor"
        /\ monitor' = [monitor EXCEPT !.step = "finishing", !.clone = n]
        /\ UNCHANGED <<row, reducer, managed, process, spawn, feed, credential,
                       request, token, deliveries>>
    BY <1>3 DEF MonitorLocks, LockAvailable
  <2>2. managed # NoRecord /\ process.exit # NoRecord
    BY <2>1 DEF Belongs
  <2>3. Kept(row) /\ row.pid /\ process.exit \in Exits
    BY <2>1, <2>2 DEF Belongs, Agreement, TypeOK, Processes
  <2>4. n = ApplyProcessExit(reducer, process.exit)
    BY <2>3, RunningIsManaged DEF ExitStaged
  <2> HIDE DEF n
  <2>5. /\ n \in RawMachines /\ n.lifecycle \in Terminal /\ n.activity = "none"
        /\ Continues(n)
    BY <2>3, <2>4, RunningIsManaged, ApplyProcessExitSound
    DEF Continues, Terminal
  <2>6. /\ monitor' \in Monitors /\ monitor'.step = "finishing"
        /\ monitor'.clone = n /\ monitor'.drained = monitor.drained
    BY <2>1, <2>5 DEF MonitorTypeOK, Monitors
  <2>7. TypeOK' /\ MonitorTypeOK'
    BY <2>1, <2>6 DEF TypeOK, MonitorTypeOK
  <2>8. Holders'
    BY <2>1, <2>6, LockIsFree, Names DEF Holders
  <2>9. Launched'
    BY <2>1, <2>3, RunningIsManaged DEF Launched
  <2>10. Belongs'
    BY <2>1, <2>2, <2>6 DEF Belongs
  <2>11. Agreement' /\ RowIsSound' /\ Drained'
    BY <2>1, <2>6 DEF Agreement, RowIsSound, Drained
  <2>12. StagedIsSound'
    BY <2>1, <2>5, <2>6, LockIsFree DEF StagedIsSound, Continues
  <2> QED BY <2>7, <2>8, <2>9, <2>10, <2>11, <2>12
<1>4. ASSUME NEW stored \in BOOLEAN, MonitorFinishes(stored) PROVE Inv'
  <2> DEFINE n == monitor.clone
  <2>1. /\ monitor.step = "finishing" /\ lock' = "free"
        /\ monitor' = [monitor EXCEPT !.step = "done", !.clone = NoRecord]
        /\ UNCHANGED <<process, spawn, feed, credential, request, token,
                       deliveries>>
    BY <1>4 DEF MonitorFinishes
  <2>2. managed # NoRecord /\ lock = "monitor" /\ process.exit # NoRecord
    BY <2>1 DEF Belongs, Holders
  <2>3. Kept(row) /\ row.pid
    BY <2>1, <2>2 DEF Belongs, Agreement
  <2>4. /\ managed \in Records /\ spawn = "done"
    BY <2>3, RunningIsManaged
  <2>5. /\ monitor' \in Monitors /\ monitor'.step = "done"
        /\ monitor'.drained = monitor.drained
    BY <2>1 DEF MonitorTypeOK, Monitors
  <2>6. /\ \A s \in Sources : feed[s].clone = NoRecord
        /\ \A c \in Attachers : request[c] # "attaching"
    BY <2>2, Names DEF Holders
  <2>7. Holders' /\ Launched'
    BY <2>1, <2>4, <2>5, <2>6, Names DEF Holders, Launched
  <2>8. StagedIsSound' /\ Drained' /\ MonitorTypeOK'
    BY <2>1, <2>5, <2>6 DEF StagedIsSound, Drained, MonitorTypeOK
  <2>9. CASE stored /\ InRange(n)
    <3>1. /\ row' = Row(n, FALSE) /\ reducer' = n
          /\ managed' = [record |-> FromPersisted(n), completed |-> TRUE]
      BY <1>4, <2>3, <2>9 DEF MonitorFinishes
    <3>2. /\ n \in RawMachines /\ Validate(n) /\ n.lifecycle \in Terminal
          /\ n.activity = "none"
      BY <2>1 DEF StagedIsSound, Continues
    <3>3. n \in Machines /\ n # NoRecord
      BY <2>9, <3>2, RawRecords, NamesAssumption
    <3> HIDE DEF n
    <3>4. /\ Kept(row') /\ row' \in Rows
          /\ row'.status = FromPersisted(n) /\ row'.pid = FALSE
      BY <3>1, <3>3, RowFacts
    <3>5. /\ FromPersisted(n) \in Machines
          /\ FromPersisted(n).lifecycle # "running"
          /\ FromPersisted(FromPersisted(n)) = FromPersisted(n)
          /\ Validate(FromPersisted(n))
      BY <3>2, <3>3, FromPersistedFacts DEF Terminal
    <3>6. /\ managed' \in Records /\ managed'.record = FromPersisted(n)
          /\ managed'.completed = TRUE
      BY <3>1, <3>5 DEF Records
    <3>7. managed' # NoRecord
      BY <3>6, NamesAssumption
    <3>8. TypeOK'
      BY <2>1, <2>5, <3>1, <3>3, <3>4, <3>6 DEF TypeOK
    <3>9. Belongs'
      BY <2>1, <2>2, <2>5, <2>6, <3>4, <3>6, <3>7 DEF Belongs
    <3>10. Agreement'
      BY <3>1, <3>3, <3>4, <3>6 DEF Agreement
    <3>11. RowIsSound'
      BY <3>1, <3>2, <3>4, <3>5 DEF RowIsSound, CompletedMeansDone
    <3> QED BY <2>7, <2>8, <3>8, <3>9, <3>10, <3>11
  <2>10. CASE ~(stored /\ InRange(n))
    <3>1. /\ managed' = [managed EXCEPT !.completed = TRUE]
          /\ UNCHANGED <<row, reducer>>
      BY <1>4, <2>10 DEF MonitorFinishes
    <3>2. /\ managed' \in Records /\ managed'.record = managed.record
          /\ managed'.completed = TRUE
      BY <2>4, <3>1 DEF Records
    <3>3. managed' # NoRecord
      BY <3>2, NamesAssumption
    <3>4. TypeOK'
      BY <2>1, <2>5, <3>1, <3>2 DEF TypeOK
    <3>5. Belongs'
      BY <2>1, <2>2, <2>5, <2>6, <3>1, <3>2, <3>3 DEF Belongs
    <3>6. Agreement' /\ RowIsSound'
      BY <2>2, <3>1, <3>2, <3>3 DEF Agreement, RowIsSound
    <3> QED BY <2>7, <2>8, <3>4, <3>5, <3>6
  <2> QED BY <2>9, <2>10
<1> QED BY <1>1, <1>2, <1>3, <1>4 DEF ExitMonitor

(* Clients attach and stop.                                                *)
LEMMA AttachKeeps ==
    ASSUME Inv, NEW c \in Attachers, AttachSession(c) \/ AttachAnswered(c)
    PROVE  Inv'
<1> USE DEF Inv
<1>1. PICK step \in {"idle", "attaching"} :
        /\ request' = [request EXCEPT ![c] = step]
        /\ step = "attaching" =>
             managed # NoRecord /\ lock = "free" /\ lock' = c
        /\ step = "idle" => lock = c /\ lock' = "free"
        /\ UNCHANGED <<row, reducer, managed, process, spawn, feed, monitor,
                       credential, token, deliveries>>
  BY DEF AttachSession, AttachAnswered, LockAvailable, Holders
<1>2. /\ request' \in [Clients \cup Attachers ->
                         {"idle", "stopping", "attaching"}]
      /\ request'[c] = step
      /\ \A d \in Clients \cup Attachers : d # c => request'[d] = request[d]
  BY <1>1 DEF TypeOK
<1>3. TypeOK' /\ MonitorTypeOK'
  BY <1>1, <1>2 DEF TypeOK, MonitorTypeOK
<1>4. c \notin Clients
  BY SupervisorAssumption
<1>5. Holders'
  <2>1. CASE step = "attaching"
    BY <1>1, <1>2, <1>4, <2>1, LockIsFree, Names DEF Holders
  <2>2. CASE step = "idle"
    BY <1>1, <1>2, <1>4, <2>2, Names DEF Holders
  <2> QED BY <2>1, <2>2
<1>6. Launched' /\ Agreement' /\ RowIsSound' /\ StagedIsSound' /\ Drained'
  BY <1>1
  DEF Launched, Agreement, RowIsSound, StagedIsSound, Continues, Drained
<1>7. Belongs'
  BY <1>1, <1>2 DEF Belongs
<1> QED BY <1>3, <1>5, <1>6, <1>7

(* A stop takes no lock and touches only the process.                      *)
LEMMA StopKeeps ==
    ASSUME Inv, NEW c \in Clients, StopSession(c) \/ StopAnswered(c)
    PROVE  Inv'
<1> USE DEF Inv
<1>1. /\ \/ request' = [request EXCEPT ![c] = "idle"]
         \/ request' = [request EXCEPT ![c] = "stopping"]
      /\ \/ process' = process
         \/ managed # NoRecord /\ process' = Stopped(process)
      /\ UNCHANGED <<row, reducer, managed, lock, spawn, feed, monitor,
                     credential, token, deliveries>>
  BY DEF StopSession, StopAnswered
<1>2. /\ request' \in [Clients \cup Attachers ->
                         {"idle", "stopping", "attaching"}]
      /\ request'[c] # "attaching"
      /\ \A d \in Clients \cup Attachers : d # c => request'[d] = request[d]
  BY <1>1 DEF TypeOK
<1>3. /\ process' \in Processes
      /\ process'.state = process.state
      /\ process'.exit = process.exit
      /\ managed = NoRecord => process' = process
  <2>1. process \in Processes
    BY DEF TypeOK
  <2>2. /\ Stopped(process) \in Processes
        /\ Stopped(process).state = process.state
        /\ Stopped(process).exit = process.exit
    <3>1. CASE process.state = "running"
      <4>1. Stopped(process) = [process EXCEPT !.closing = @ \cup {"stop"}]
        BY <3>1 DEF Stopped
      <4> QED BY <2>1, <4>1 DEF Processes
    <3>2. CASE process.state # "running"
      <4>1. Stopped(process) = [process EXCEPT !.treeEmpty = TRUE, !.actor = FALSE]
        BY <3>2 DEF Stopped
      <4> QED BY <2>1, <4>1 DEF Processes
    <3> QED BY <3>1, <3>2
  <2>3. process' = process \/ (managed # NoRecord /\ process' = Stopped(process))
    BY <1>1
  <2> QED BY <2>1, <2>2, <2>3
<1>4. c \notin Attachers
  BY SupervisorAssumption
<1>5. TypeOK' /\ MonitorTypeOK'
  BY <1>1, <1>2, <1>3 DEF TypeOK, MonitorTypeOK
<1>6. Holders'
  BY <1>1, <1>2, <1>4 DEF Holders
<1>7. Launched'
  BY <1>1, <1>3 DEF Launched, TypeOK
<1>8. Agreement' /\ RowIsSound' /\ StagedIsSound' /\ Drained'
  BY <1>1 DEF Agreement, RowIsSound, StagedIsSound, Continues, Drained
<1>9. Belongs'
  BY <1>1, <1>2, <1>3, <1>4 DEF Belongs
<1> QED BY <1>5, <1>6, <1>7, <1>8, <1>9

(* A review reaches the row, the managed record and the reducer.           *)
LEMMA ReviewKeeps ==
    ASSUME Inv, NEW id, NEW reasons, ReviewAttention(id, reasons)
    PROVE  Inv'
<1> USE DEF Inv
<1> DEFINE n == Acknowledge(row.status)
<1>1. /\ lock = "free" /\ Kept(row) /\ Acknowledges(row.status, id, reasons)
      /\ row' = [row EXCEPT !.status = n]
      /\ managed' = IF managed = NoRecord THEN NoRecord
                    ELSE [managed EXCEPT !.record = row'.status]
      /\ reducer' = Mirrored(reducer, id, reasons)
      /\ UNCHANGED <<process, lock, spawn, feed, monitor, credential, request,
                     token, deliveries>>
  BY DEF ReviewAttention, LockAvailable
<1>2. /\ row \in Rows /\ row.status \in Machines
      /\ row.status.attention.ack = "pending"
      /\ Validate(row.status) /\ FromPersisted(row.status) = row.status
  BY <1>1, Types DEF Acknowledges, RowIsSound
<1>3. /\ n \in Machines /\ n.lifecycle = row.status.lifecycle
      /\ Validate(n) /\ FromPersisted(n) = n
  BY <1>2, AcknowledgeFacts
<1> HIDE DEF n
<1>4. row' \in Rows /\ row'.status = n /\ row'.pid = row.pid
  BY <1>1, <1>2, <1>3 DEF Rows
<1>5. Kept(row')
  BY <1>4, NamesAssumption DEF Kept
<1>6. spawn \notin {"idle", "created", "spawned"}
  BY <1>1, LockIsFree DEF Launched
<1>7. /\ managed = NoRecord => managed' = NoRecord /\ reducer' = NoRecord
      /\ managed # NoRecord => managed' \in Records /\ managed' # NoRecord
                               /\ managed'.record = n
                               /\ managed'.completed = managed.completed
  <2>1. CASE managed = NoRecord
    BY <1>1, <2>1 DEF Belongs, Mirrored
  <2>2. CASE managed # NoRecord
    <3>1. managed \in Records /\ managed' = [managed EXCEPT !.record = n]
      BY <1>1, <1>4, <2>2, Types
    <3>2. managed' \in Records /\ managed'.record = n
          /\ managed'.completed = managed.completed
      BY <1>3, <3>1 DEF Records
    <3> QED BY <2>2, <3>2, NamesAssumption
  <2> QED BY <2>1, <2>2
<1>8. managed # NoRecord =>
        /\ reducer' \in Machines /\ reducer' # NoRecord
        /\ FromPersisted(reducer') = n
        /\ CompletedMeansDone(reducer')
  <2> SUFFICES ASSUME managed # NoRecord
               PROVE  /\ reducer' \in Machines /\ reducer' # NoRecord
                      /\ FromPersisted(reducer') = n
                      /\ CompletedMeansDone(reducer')
    OBVIOUS
  <2>1. /\ reducer # NoRecord /\ reducer \in Machines
        /\ reducer \in RawMachines
        /\ FromPersisted(reducer) = row.status
        /\ CompletedMeansDone(reducer)
    BY Types DEF Agreement, RowIsSound
  <2>2. reducer.attention = row.status.attention
    BY <2>1, FromPersistedFacts
  <2>3. reducer' = Acknowledge(reducer)
    BY <1>1, <2>1, <2>2 DEF Mirrored, Acknowledges
  <2>4. /\ Acknowledge(reducer) \in Machines
        /\ SameWork(reducer, Acknowledge(reducer))
        /\ Acknowledge(reducer).activity = reducer.activity
        /\ FromPersisted(Acknowledge(reducer)) = n
    BY <1>2, <2>1, <2>2, AcknowledgeFacts DEF n
  <2>5. CompletedMeansDone(Acknowledge(reducer))
    BY <2>1, <2>4 DEF CompletedMeansDone, NoKnownWork, SameWork
  <2> QED BY <2>3, <2>4, <2>5, NamesAssumption
<1>9. TypeOK' /\ MonitorTypeOK'
  BY <1>1, <1>4, <1>7, <1>8 DEF TypeOK, MonitorTypeOK
<1>10. Holders' /\ Launched' /\ Drained'
  BY <1>1, <1>6 DEF Holders, Launched, Drained, TypeOK
<1>11. Belongs'
  BY <1>1, <1>4, <1>5, <1>7 DEF Belongs
<1>12. Agreement'
  BY <1>4, <1>5, <1>7, <1>8 DEF Agreement
<1>13. RowIsSound'
  BY <1>1, <1>3, <1>4, <1>5, <1>7, <1>8 DEF RowIsSound
<1>14. StagedIsSound'
  BY <1>1, LockIsFree DEF StagedIsSound
<1> QED BY <1>9, <1>10, <1>11, <1>12, <1>13, <1>14

(* A deletion removes the records of a Session that is over.               *)
LEMMA DeletionKeeps == Inv /\ (InspectSessionDeletion \/ DeleteSession) => Inv'
<1> SUFFICES ASSUME Inv, InspectSessionDeletion \/ DeleteSession PROVE Inv'
  OBVIOUS
<1> USE DEF Inv
<1>1. CASE InspectSessionDeletion
  BY <1>1
  DEF InspectSessionDeletion, TypeOK, MonitorTypeOK, Holders, Launched,
      Belongs, Agreement, RowIsSound, StagedIsSound, Continues, Drained
<1>2. CASE DeleteSession
  <2>1. /\ lock = "free" /\ Deletable
        /\ row' = NoRecord /\ managed' = NoRecord /\ reducer' = NoRecord
        /\ credential' = FALSE
        /\ UNCHANGED <<process, lock, spawn, feed, monitor, request, token,
                       deliveries>>
    BY <1>2 DEF DeleteSession, LockAvailable
  <2>2. Kept(row) /\ ~row.pid /\ (managed # NoRecord =>
          managed.completed /\ process.treeEmpty)
    BY <2>1 DEF Deletable, RuntimeOwned
  <2>3. spawn = "done"
    BY <2>1, <2>2, LockIsFree DEF Launched, TypeOK
  <2>4. /\ monitor.step \in {"none", "done"}
        /\ process.treeEmpty /\ process.state # "running"
    BY <2>2, <2>3 DEF Belongs
  <2>5. TypeOK' /\ MonitorTypeOK'
    BY <2>1 DEF TypeOK, MonitorTypeOK
  <2>6. Holders' /\ Launched' /\ Drained'
    BY <2>1, <2>3 DEF Holders, Launched, Drained
  <2>7. Belongs'
    BY <2>1, <2>4, LockIsFree DEF Belongs
  <2>8. Agreement' /\ RowIsSound' /\ StagedIsSound'
    BY <2>1, LockIsFree DEF Agreement, RowIsSound, StagedIsSound, Kept
  <2> QED BY <2>5, <2>6, <2>7, <2>8
<1> QED BY <1>1, <1>2

(* A restart keeps nothing but the row, disconnected if it was active.     *)
LEMMA RestartKeeps == Inv /\ Restart => Inv'
<1> SUFFICES ASSUME Inv, Restart PROVE Inv'
  OBVIOUS
<1> USE DEF Inv
<1>1. /\ spawn' = IF spawn = "idle" THEN "idle" ELSE "done"
      /\ row' = IF Kept(row) THEN Reconciled(row) ELSE row
      /\ reducer' = NoRecord /\ managed' = NoRecord /\ process' = NoProcess
      /\ lock' = "free" /\ feed' = [s \in Sources |-> IdleFeed]
      /\ monitor' = NoMonitor /\ credential' = FALSE
      /\ request' = [c \in Clients \cup Attachers |-> "idle"]
      /\ deliveries' = deliveries
  BY DEF Restart
<1>2. Kept(row) =>
        /\ Kept(row') /\ row' \in Rows
        /\ row'.status = Reconcile(row.status) /\ row'.pid = FALSE
        /\ row'.status.lifecycle # "running"
        /\ Validate(row'.status) /\ FromPersisted(row'.status) = row'.status
  <2> SUFFICES ASSUME Kept(row)
               PROVE  /\ Kept(row') /\ row' \in Rows
                      /\ row'.status = Reconcile(row.status)
                      /\ row'.pid = FALSE
                      /\ row'.status.lifecycle # "running"
                      /\ Validate(row'.status)
                      /\ FromPersisted(row'.status) = row'.status
    OBVIOUS
  <2>1. row.status \in Machines /\ Validate(row.status)
    BY Types DEF RowIsSound
  <2> DEFINE n == Reconcile(row.status)
  <2>2. /\ n \in Machines /\ Validate(n) /\ FromPersisted(n) = n
        /\ n.lifecycle # "running"
    BY <2>1, ReconcileFacts DEF LifecycleIsActive
  <2>3. row' = Row(n, FALSE)
    BY <1>1 DEF Reconciled
  <2> HIDE DEF n
  <2>4. Kept(row') /\ row' \in Rows /\ row'.status = n /\ row'.pid = FALSE
    BY <2>2, <2>3, RowFacts
  <2> QED BY <2>2, <2>4 DEF n
<1>3. Kept(row) <=> Kept(row')
  BY <1>1, <1>2
<1>4. TypeOK' /\ MonitorTypeOK'
  <2>1. feed' \in [Sources -> Feeds]
    BY <1>1, InitialTypes
  <2>2. row' \in Rows \cup {NoRecord}
    BY <1>1, <1>2 DEF TypeOK
  <2>3. NoMonitor.step = "none"
    BY DEF NoMonitor
  <2>4. request' \in [Clients \cup Attachers ->
                        {"idle", "stopping", "attaching"}]
    BY <1>1
  <2> QED BY <1>1, <2>1, <2>2, <2>3, <2>4, InitialTypes
          DEF TypeOK, MonitorTypeOK
<1>5. Holders'
  BY <1>1, Names DEF Holders, IdleFeed, NoMonitor
<1>6. Launched' /\ Belongs'
  BY <1>1, <1>3 DEF Launched, Belongs, NoMonitor, NoProcess
<1>7. Agreement' /\ RowIsSound'
  BY <1>1, <1>2, <1>3 DEF Agreement, RowIsSound
<1>8. StagedIsSound' /\ Drained'
  BY <1>1 DEF StagedIsSound, Drained, IdleFeed, NoMonitor
<1> QED BY <1>4, <1>5, <1>6, <1>7, <1>8

----------------------------------------------------------------------------
(* A stuttering step.                                                      *)
LEMMA StutterKeeps == Inv /\ UNCHANGED vars => Inv'
BY DEF vars, Inv, TypeOK, MonitorTypeOK, Holders, Launched, Belongs,
       Agreement, RowIsSound, StagedIsSound, Continues, Drained

(* Every step of every task keeps the invariant.                           *)
LEMMA NextKeeps == Inv /\ [Next]_vars => Inv'
BY LaunchKeeps, ProcessKeeps, ArrivalKeeps, IntakeKeeps, CommitKeeps,
   MonitorKeeps, AttachKeeps, StopKeeps, ReviewKeeps, DeletionKeeps,
   RestartKeeps, StutterKeeps
DEF Next

(* The tasks of one Session, interleaved in any way, keep the invariant.   *)
THEOREM Invariance == Spec => []Inv
BY InitInv, NextKeeps, PTL DEF Spec

(* Every variable of the supervision keeps its type.                       *)
THEOREM TypeCorrect == Spec => []TypeOK
<1>1. Inv => TypeOK
  BY DEF Inv
<1> QED BY <1>1, Invariance, PTL

(* Row, reducer and managed record agree whenever the operation lock is    *)
(* free, whoever held it last.                                             *)
THEOREM StoresAlwaysAgree == Spec => []StoresAgree
<1>1. Inv => StoresAgree
  BY DEF Inv, Agreement, StoresAgree
<1> QED BY <1>1, Invariance, PTL

(* A row names a process exactly while it is running.                      *)
THEOREM ProcessIdIsExact == Spec => []ProcessIdFollowsLifecycle
<1>1. Inv => ProcessIdFollowsLifecycle
  BY DEF Inv, RowIsSound, ProcessIdFollowsLifecycle
<1> QED BY <1>1, Invariance, PTL

(* When a Session is deleted nothing of it is left: no process of its      *)
(* tree, no staged event, no credential, no waiting task.                  *)
THEOREM DeletionIsClean == Spec => []DeletionOrphansNothing
<1>1. Inv => DeletionOrphansNothing
  <2> SUFFICES ASSUME Inv, ~Kept(row), spawn = "done"
               PROVE  /\ process.treeEmpty
                      /\ managed = NoRecord /\ reducer = NoRecord
                      /\ ~credential /\ lock = "free"
                      /\ monitor.step \in {"none", "done"}
    BY DEF DeletionOrphansNothing
  <2> USE DEF Inv
  <2>1. managed = NoRecord
    BY DEF Agreement
  <2>2. /\ process.treeEmpty /\ reducer = NoRecord /\ ~credential
        /\ monitor.step \in {"none", "done"}
    BY <2>1 DEF Belongs, Kept
  <2>3. lock = "free"
    BY <2>1, <2>2 DEF TypeOK, Holders, Belongs, StagedIsSound, Kept
  <2> QED BY <2>1, <2>2, <2>3
<1> QED BY <1>1, Invariance, PTL

(* A drained Session derives its exit after every accepted hook.           *)
THEOREM HooksPrecedeExit == Spec => []AcceptedHooksPrecedeExit
<1>1. Inv => AcceptedHooksPrecedeExit
  BY DEF Inv, Drained, AcceptedHooksPrecedeExit
<1> QED BY <1>1, Invariance, PTL

----------------------------------------------------------------------------
(* The refinement of SessionContract.                                      *)

(* The contract is stated with the operators of the reducer.               *)
LEMMA ContractOperators ==
    /\ Contract!NewRow = NewRow
    /\ Contract!Terminal = Terminal
    /\ \A l : Contract!LifecycleIsActive(l) <=> LifecycleIsActive(l)
    /\ \A l : Contract!LifecycleAllowsDeletion(l) <=> LifecycleAllowsDeletion(l)
    /\ \A m : Contract!Acknowledge(m) = Acknowledge(m)
    /\ \A m : Contract!Validate(m) <=> Validate(m)
    /\ \A a, b : Contract!EventMoved(a, b) <=> AttentionStep(a, b)
<1>1. Contract!NewRow = NewRow /\ Contract!Terminal = Terminal
  BY DEF Contract!NewRow, NewRow, Contract!Terminal, Terminal,
         Contract!NoAttention, NoAttention, Contract!NoCategory, NoCategory
<1>2. /\ \A l : Contract!LifecycleIsActive(l) <=> LifecycleIsActive(l)
      /\ \A l : Contract!LifecycleAllowsDeletion(l)
                  <=> LifecycleAllowsDeletion(l)
  BY <1>1 DEF Contract!LifecycleIsActive, LifecycleIsActive,
              Contract!LifecycleAllowsDeletion, LifecycleAllowsDeletion
<1>3. \A m : Contract!Acknowledge(m) = Acknowledge(m)
  BY DEF Contract!Acknowledge, Acknowledge
<1>4. /\ Contract!NoAttention = NoAttention
      /\ \A a : Contract!ExpectedReason(a) = ExpectedReason(a)
      /\ \A a : Contract!Effective(a) <=> Effective(a)
  BY DEF Contract!NoAttention, NoAttention, Contract!ExpectedReason,
         ExpectedReason, Contract!Effective, Effective
<1>5. \A m : Contract!Validate(m) <=> Validate(m)
  BY <1>4 DEF Contract!Validate, Validate
<1>6. \A a, b : Contract!EventMoved(a, b) <=> AttentionStep(a, b)
  BY DEF Contract!EventMoved, AttentionStep
<1> QED BY <1>1, <1>2, <1>3, <1>5, <1>6

(* The row goes on: it was active, its attention moved by one step, and it *)
(* is valid.                                                               *)
LEMMA RowProgresses ==
    ASSUME Kept(row), Kept(row'), LifecycleIsActive(row.status.lifecycle),
           row'.status.lifecycle \in {"running"} \cup Terminal,
           AttentionStep(row.status.attention, row'.status.attention),
           Validate(row'.status)
    PROVE  Contract!Progress
BY ContractOperators DEF Contract!Progress

(* A step that leaves the row alone is invisible to the contract.          *)
LEMMA RowStays ==
    ASSUME row' = row, Kept(row) \/ spawn' = spawn
    PROVE  UNCHANGED Contract!contractVars
BY DEF Contract!contractVars, Kept

(* Every step of the tasks is a step of the contract or invisible to it.   *)
LEMMA StepRefines ==
    Inv /\ [Next]_vars => [Contract!ContractNext]_(Contract!contractVars)
<1> SUFFICES ASSUME Inv, [Next]_vars
             PROVE  Contract!ContractNext \/ UNCHANGED Contract!contractVars
  OBVIOUS
<1> USE DEF Inv
<1>1. CASE row' = row /\ spawn' = spawn
  BY <1>1, RowStays
<1>2. CASE CreateSession
  <2>1. spawn = "idle" /\ row' = Row(NewRow, FALSE) /\ ~Kept(row)
    BY <1>2 DEF CreateSession, Launched
  <2>2. Kept(row') /\ row'.status = NewRow
    BY <2>1, RowFacts, NewRowFacts
  <2>3. Contract!Create
    BY <2>1, <2>2 DEF Contract!Create
  <2> QED BY <2>3 DEF Contract!ContractNext
<1>3. CASE SpawnProcess
  <2>1. row' = row /\ Kept(row)
    BY <1>3 DEF SpawnProcess, Launched
  <2> QED BY <2>1, RowStays
<1>4. CASE SpawnFails
  <2>1. /\ row' = Row(StartFailure(row.status), FALSE)
        /\ row.status = NewRow /\ Kept(row)
    BY <1>4 DEF SpawnFails, Launched
  <2>2. Kept(row') /\ row'.status = StartFailure(NewRow)
    BY <2>1, RowFacts, StartFailureFacts
  <2>3. Contract!Progress
    BY <2>1, <2>2, RowProgresses, StartFailureFacts, NewRowFacts
    DEF LifecycleIsActive, Terminal
  <2> QED BY <2>3 DEF Contract!ContractNext
<1>5. CASE MarkSessionRunning
  <2>1. /\ row' = Row(MarkRunning(row.status), TRUE)
        /\ row.status = NewRow /\ Kept(row)
    BY <1>5 DEF MarkSessionRunning, Launched
  <2>2. Kept(row') /\ row'.status = MarkRunning(NewRow)
    BY <2>1, RowFacts, MarkRunningFacts
  <2>3. AttentionStep(row.status.attention, row'.status.attention)
    BY <2>1, <2>2, NewRowFacts, MarkRunningFacts DEF AttentionStep
  <2>4. Contract!Progress
    BY <2>1, <2>2, <2>3, RowProgresses, MarkRunningFacts, NewRowFacts
    DEF LifecycleIsActive
  <2> QED BY <2>4 DEF Contract!ContractNext
<1>6. ASSUME NEW source \in Sources, CommitEvent(source), row' # row
      PROVE  Contract!ContractNext
  <2> DEFINE n == feed[source].clone
  <2>1. n # NoRecord /\ row' = Row(n, TRUE)
    BY <1>6 DEF CommitEvent
  <2>2. n \in Machines /\ n \in RawMachines
    BY <2>1, RawRecords DEF TypeOK, Feeds
  <2>3. /\ Kept(row) /\ row.pid /\ Continues(n) /\ n.lifecycle = "running"
        /\ row.status.lifecycle = "running"
    BY <2>1 DEF StagedIsSound, RowIsSound
  <2> HIDE DEF n
  <2>4. Kept(row') /\ row'.status = FromPersisted(n)
    BY <2>1, <2>2, RowFacts
  <2>5. Contract!Progress
    BY <2>2, <2>3, <2>4, RowProgresses, FromPersistedFacts
    DEF Continues, LifecycleIsActive
  <2> QED BY <2>5 DEF Contract!ContractNext
<1>7. ASSUME NEW stored \in BOOLEAN, MonitorFinishes(stored), row' # row
      PROVE  Contract!ContractNext
  <2> DEFINE n == monitor.clone
  <2>1. /\ monitor.step = "finishing" /\ row' = Row(n, FALSE) /\ InRange(n)
        /\ Kept(row)
    BY <1>7 DEF MonitorFinishes
  <2>2. /\ n \in RawMachines /\ Continues(n) /\ n.lifecycle \in Terminal
    BY <2>1 DEF StagedIsSound
  <2>3. n \in Machines
    BY <2>1, <2>2, RawRecords
  <2>4. row.status.lifecycle = "running"
    BY <2>1 DEF Belongs, RowIsSound
  <2> HIDE DEF n
  <2>5. Kept(row') /\ row'.status = FromPersisted(n)
    BY <2>1, <2>3, RowFacts
  <2>6. Contract!Progress
    BY <2>1, <2>2, <2>4, <2>5, RowProgresses, FromPersistedFacts
    DEF Continues, LifecycleIsActive
  <2> QED BY <2>6 DEF Contract!ContractNext
<1>8. ASSUME NEW id, NEW reasons, ReviewAttention(id, reasons)
      PROVE  Contract!ContractNext
  <2>1. /\ Kept(row) /\ row.status.attention.ack = "pending"
        /\ row' = [row EXCEPT !.status = Acknowledge(row.status)]
    BY <1>8 DEF ReviewAttention, Acknowledges
  <2>2. row \in Rows /\ row.status \in Machines
    BY <2>1, Types
  <2>3. row' \in Rows /\ row'.status = Acknowledge(row.status)
    BY <2>1, <2>2, AcknowledgeFacts DEF Rows
  <2>4. Kept(row')
    BY <2>3, NamesAssumption DEF Kept
  <2>5. Contract!ReviewEvent
    BY <2>1, <2>3, <2>4, ContractOperators DEF Contract!ReviewEvent
  <2> QED BY <2>5 DEF Contract!ContractNext
<1>9. CASE DeleteSession
  <2>1. /\ Kept(row) /\ ~Kept(row') /\ spawn' = spawn
        /\ LifecycleAllowsDeletion(row.status.lifecycle)
    BY <1>9 DEF DeleteSession, Deletable, Kept
  <2>2. spawn # "idle"
    BY <2>1 DEF Launched
  <2>3. Contract!Delete
    BY <2>1, <2>2, ContractOperators DEF Contract!Delete
  <2> QED BY <2>3 DEF Contract!ContractNext
<1>10. CASE Restart
  <2>1. CASE ~Kept(row)
    <3>1. row' = row /\ (spawn = "idle" \/ spawn = "done")
      BY <1>10, <2>1 DEF Restart, Launched, TypeOK
    <3>2. spawn' = spawn
      BY <1>10, <3>1 DEF Restart
    <3> QED BY <3>1, <3>2, RowStays
  <2>2. CASE Kept(row)
    <3> DEFINE n == Reconcile(row.status)
    <3>1. /\ row' = Row(n, FALSE) /\ row.status \in Machines
          /\ row.status \in RawMachines
          /\ Validate(row.status) /\ FromPersisted(row.status) = row.status
      BY <1>10, <2>2, Types DEF Restart, Reconciled, RowIsSound
    <3>2. /\ n \in Machines /\ Validate(n) /\ FromPersisted(n) = n
          /\ n.attention = row.status.attention
          /\ n.lifecycle = IF LifecycleIsActive(row.status.lifecycle)
                           THEN "disconnected" ELSE row.status.lifecycle
          /\ ~LifecycleIsActive(row.status.lifecycle) => n = row.status
      BY <3>1, ReconcileFacts
    <3> HIDE DEF n
    <3>3. Kept(row') /\ row'.status = n
      BY <3>1, <3>2, RowFacts
    <3>4. CASE LifecycleIsActive(row.status.lifecycle)
      <4>1. AttentionStep(row.status.attention, row'.status.attention)
        BY <3>2, <3>3 DEF AttentionStep
      <4>2. Contract!Progress
        BY <2>2, <3>2, <3>3, <3>4, <4>1, RowProgresses DEF Terminal
      <4> QED BY <4>2 DEF Contract!ContractNext
    <3>5. CASE ~LifecycleIsActive(row.status.lifecycle)
      BY <2>2, <3>2, <3>3, <3>5 DEF Contract!contractVars
    <3> QED BY <3>4, <3>5
  <2> QED BY <2>1, <2>2
<1>11. CASE UNCHANGED vars
  BY <1>1, <1>11 DEF vars
<1>12. CASE \/ SomeChildExits \/ DescendantsExit \/ InspectSessionDeletion
            \/ \E source \in Sources :
                 \/ \E event \in Delivered : EventArrives(source, event)
                 \/ Intake(source)
            \/ MonitorWakes \/ HooksDrained \/ DrainTimesOut \/ MonitorLocks
            \/ \E c \in Attachers : AttachSession(c) \/ AttachAnswered(c)
            \/ \E c \in Clients : StopSession(c) \/ StopAnswered(c)
  <2>1. row' = row /\ spawn' = spawn
    BY <1>12
    DEF SomeChildExits, ChildExits, DescendantsExit, InspectSessionDeletion,
        EventArrives, Intake, StageEvent, DropEvent, RefuseEvent,
        MonitorWakes, HooksDrained, DrainTimesOut, MonitorLocks,
        AttachSession, AttachAnswered, StopSession, StopAnswered
  <2> QED BY <1>1, <2>1
<1>13. ASSUME NEW source \in Sources, CommitEvent(source), row' = row
       PROVE  UNCHANGED Contract!contractVars
  BY <1>13, RowStays DEF CommitEvent
<1>14. ASSUME NEW stored \in BOOLEAN, MonitorFinishes(stored), row' = row
       PROVE  UNCHANGED Contract!contractVars
  BY <1>14, RowStays DEF MonitorFinishes
<1> QED
  BY <1>2, <1>3, <1>4, <1>5, <1>6, <1>7, <1>8, <1>9, <1>10, <1>11, <1>12,
     <1>13, <1>14
  DEF Next, Launch, ExitMonitor

(* However the daemon's tasks interleave, fail and restart, a client sees  *)
(* what SessionContract promises: one terminal lifecycle, ordered          *)
(* attention events whose review is never undone, and deletion of terminal *)
(* Sessions only.                                                          *)
THEOREM TasksImplementContract == Spec => ImplementsContract
<1>1. Init => Contract!ContractInit
  BY ContractOperators DEF Init, Kept, Contract!ContractInit
<1> QED BY <1>1, StepRefines, Invariance, PTL
        DEF Spec, ImplementsContract, Contract!ContractSpec

----------------------------------------------------------------------------
(* The start of daemons.                                                   *)

Places == {"unborn", "look", "connect", "remove", "bind", "listen", "permit",
           "setup", "database", "token", "serving", "stopping", "compare",
           "unlink", "drop", "close", "gone"}

(* From the bind to the unlink a daemon counts on the file being its own.  *)
Holding == Owning \cup {"listen", "permit", "setup", "database", "compare",
                        "unlink", "drop"}

StartupTypeOK ==
    /\ socketFile \in Daemons \cup {Nobody}
    /\ place \in [Daemons -> Places]
    /\ stolen \in BOOLEAN

(* The file stands for the ownership: whoever has bound the socket and has *)
(* not yet given it up finds it at the endpoint.                           *)
FileIsOfHolder ==
    ~stolen => \A d \in Daemons : place[d] \in Holding => socketFile = d

StartupInv == StartupTypeOK /\ FileIsOfHolder

----------------------------------------------------------------------------
(* The daemon that moved is where it went, and the others stayed.          *)
LEMMA GoesFacts ==
    ASSUME StartupTypeOK, NEW d \in Daemons, NEW from, NEW to \in Places,
           Goes(d, from, to)
    PROVE  /\ place' \in [Daemons -> Places]
           /\ place[d] = from
           /\ place'[d] = to
           /\ \A e \in Daemons : e # d => place'[e] = place[e]
<1>1. place \in [Daemons -> Places]
  BY DEF StartupTypeOK
<1>2. place[d] = from /\ place' = [place EXCEPT ![d] = to]
  BY DEF Goes
<1> QED BY <1>1, <1>2

(* Before anything is started nobody holds the socket.                     *)
LEMMA StartupInitInv == StartupInit => StartupInv
<1> SUFFICES ASSUME StartupInit PROVE StartupInv
  OBVIOUS
<1>1. /\ place = [d \in Daemons |-> IF d = Former THEN "gone" ELSE "unborn"]
      /\ socketFile \in {Nobody, Former} /\ stolen \in BOOLEAN
  BY DEF StartupInit
<1>2. "gone" \in Places \ Holding /\ "unborn" \in Places \ Holding
  BY DEF Places, Holding, Owning
<1>3. place \in [Daemons -> Places \ Holding]
  BY <1>1, <1>2
<1>4. StartupTypeOK
  BY <1>1, <1>3, StartupAssumption DEF StartupTypeOK
<1> QED BY <1>3, <1>4 DEF StartupInv, FileIsOfHolder

(* A step of one daemon that leaves the file alone keeps the invariant,    *)
(* unless it makes a holder of a daemon that was none.                     *)
LEMMA FileStays ==
    ASSUME StartupInv, NEW d \in Daemons, NEW from \in Places, NEW to \in Places,
           Goes(d, from, to), socketFile' = socketFile, stolen' = stolen,
           to \in Holding => from \in Holding
    PROVE  StartupInv'
<1>1. /\ place' \in [Daemons -> Places] /\ place[d] = from /\ place'[d] = to
      /\ \A e \in Daemons : e # d => place'[e] = place[e]
  BY GoesFacts DEF StartupInv
<1>2. StartupTypeOK'
  BY <1>1 DEF StartupInv, StartupTypeOK
<1>3. FileIsOfHolder'
  BY <1>1 DEF StartupInv, FileIsOfHolder
<1> QED BY <1>2, <1>3 DEF StartupInv

(* The steps of bind_unix and of the listener's drop that change the file. *)
LEMMA FileChanges ==
    ASSUME StartupInv, NEW d \in Daemons,
           RemoveStaleSocket(d) \/ BindSocket(d) \/ DropListener(d)
    PROVE  StartupInv'
<1> USE DEF StartupInv
<1>1. CASE RemoveStaleSocket(d)
  <2>1. PICK to \in {"gone", "bind"} : Goes(d, "remove", to)
    BY <1>1 DEF RemoveStaleSocket
  <2>2. /\ place' \in [Daemons -> Places] /\ place'[d] = to
        /\ \A e \in Daemons : e # d => place'[e] = place[e]
    BY <2>1, GoesFacts DEF Places
  <2>3. /\ socketFile' = Nobody
        /\ stolen' = (stolen \/ (socketFile # Nobody
             /\ place[socketFile] \in Bound \cup {"listen", "permit"}))
    BY <1>1 DEF RemoveStaleSocket
  <2>4. StartupTypeOK'
    BY <2>2, <2>3 DEF StartupTypeOK
  <2>5. FileIsOfHolder'
    <3> SUFFICES ASSUME ~stolen', NEW e \in Daemons, place'[e] \in Holding
                 PROVE  FALSE
      BY DEF FileIsOfHolder
    <3>1. e # d
      BY <2>1, <2>2 DEF Holding, Owning
    <3>2. place[e] \in Holding /\ ~stolen
      BY <2>2, <2>3, <3>1
    <3>3. socketFile = e /\ e # Nobody
      BY <3>2, StartupAssumption DEF FileIsOfHolder
    <3> QED BY <2>3, <3>2, <3>3 DEF Holding, Bound
  <2> QED BY <2>4, <2>5
<1>2. CASE BindSocket(d)
  <2>1. PICK to \in {"gone", "listen"} :
          Goes(d, "bind", to) /\ (to = "listen" => socketFile = Nobody)
    BY <1>2 DEF BindSocket
  <2>2. /\ place' \in [Daemons -> Places] /\ place'[d] = to
        /\ \A e \in Daemons : e # d => place'[e] = place[e]
    BY <2>1, GoesFacts DEF Places
  <2>3. /\ socketFile' = IF socketFile = Nobody THEN d ELSE socketFile
        /\ stolen' = stolen
    BY <1>2 DEF BindSocket
  <2>4. StartupTypeOK'
    BY <2>2, <2>3 DEF StartupTypeOK
  <2>5. FileIsOfHolder'
    <3> SUFFICES ASSUME ~stolen', NEW e \in Daemons, place'[e] \in Holding
                 PROVE  socketFile' = e
      BY DEF FileIsOfHolder
    <3>1. CASE e = d
      <4>1. to = "listen"
        BY <2>1, <2>2, <3>1 DEF Holding, Owning
      <4> QED BY <2>1, <2>3, <3>1, <4>1
    <3>2. CASE e # d
      <4>1. socketFile = e
        BY <2>2, <2>3, <3>2 DEF FileIsOfHolder
      <4> QED BY <2>3, <4>1, StartupAssumption
    <3> QED BY <3>1, <3>2
  <2> QED BY <2>4, <2>5
<1>3. CASE DropListener(d)
  <2>1. /\ Goes(d, "drop", "close") /\ socketFile' = Nobody
        /\ stolen' = stolen
    BY <1>3 DEF DropListener
  <2>2. /\ place' \in [Daemons -> Places] /\ place[d] = "drop"
        /\ place'[d] = "close"
        /\ \A e \in Daemons : e # d => place'[e] = place[e]
    BY <2>1, GoesFacts DEF Places
  <2>3. StartupTypeOK'
    BY <2>1, <2>2 DEF StartupTypeOK
  <2>4. FileIsOfHolder'
    BY <2>1, <2>2 DEF FileIsOfHolder, Holding, Owning
  <2> QED BY <2>3, <2>4
<1> QED BY <1>1, <1>2, <1>3

(* Everything else that a daemon does.                                     *)
LEMMA DaemonKeeps ==
    ASSUME StartupInv, NEW d \in Daemons,
           DaemonStep(d) \/ PrepareFails(d) \/ LaunchSession(d)
             \/ Shutdown(d) \/ DaemonKilled(d)
    PROVE  StartupInv'
<1>1. CASE RemoveStaleSocket(d) \/ BindSocket(d) \/ DropListener(d)
  BY <1>1, FileChanges
<1>2. ASSUME ~(RemoveStaleSocket(d) \/ BindSocket(d) \/ DropListener(d))
      PROVE  /\ socketFile' = socketFile /\ stolen' = stolen
             /\ \E from, to \in Places :
                  Goes(d, from, to) /\ (to \in Holding => from \in Holding)
  <2>1. CASE LookForSocket(d) \/ ProbeSocket(d)
    BY <2>1
    DEF LookForSocket, ProbeSocket, paths, Places, Holding, Owning
  <2>2. CASE ListenOnSocket(d) \/ PermitOwner(d) \/ Prepare(d)
               \/ ReconcileAfterRestart(d) \/ WriteToken(d)
    BY <2>2
    DEF ListenOnSocket, PermitOwner, Prepare, ReconcileAfterRestart,
        WriteToken, paths, Places, Holding, Owning
  <2>3. CASE StopAllSessions(d) \/ CompareToken(d) \/ RemoveToken(d)
               \/ CloseSocket(d) \/ LaunchSession(d) \/ Shutdown(d)
    BY <2>3
    DEF StopAllSessions, CompareToken, RemoveToken, CloseSocket,
        LaunchSession, Shutdown, paths, Places, Holding, Owning
  <2>4. CASE PrepareFails(d)
    BY <2>4 DEF PrepareFails, paths, Places, Holding, Owning
  <2>5. CASE DaemonKilled(d)
    <3>1. place[d] \in Places
      BY DEF StartupInv, StartupTypeOK
    <3> QED BY <2>5, <3>1 DEF DaemonKilled, Places, Holding, Owning
  <2> QED BY <1>2, <2>1, <2>2, <2>3, <2>4, <2>5 DEF DaemonStep
<1> QED BY <1>1, <1>2, FileStays

(* A command that starts a daemon changes no file, and its child has yet   *)
(* to look for the socket.                                                 *)
LEMMA StarterKeeps ==
    ASSUME StartupInv, NEW s \in Starters,
           ReadToken(s) \/ ConnectSocket(s) \/ Handshake(s) \/ SpawnDaemon(s)
             \/ LookAtChild(s)
    PROVE  StartupInv'
<1>1. CASE SpawnDaemon(s)
  <2> DEFINE d == CHOOSE d \in Daemons : place[d] = "unborn"
  <2>1. d \in Daemons
    BY <1>1 DEF SpawnDaemon
  <2>2. place' = [place EXCEPT ![d] = "look"] /\ UNCHANGED <<socketFile, stolen>>
    BY <1>1 DEF SpawnDaemon, paths
  <2> HIDE DEF d
  <2>3. StartupTypeOK'
    BY <2>1, <2>2 DEF StartupInv, StartupTypeOK, Places
  <2>4. FileIsOfHolder'
    BY <2>1, <2>2 DEF StartupInv, StartupTypeOK, FileIsOfHolder, Holding, Owning
  <2> QED BY <2>3, <2>4 DEF StartupInv
<1>2. CASE ReadToken(s) \/ ConnectSocket(s) \/ Handshake(s) \/ LookAtChild(s)
  <2>1. UNCHANGED <<socketFile, place, stolen>>
    BY <1>2
    DEF ReadToken, ConnectSocket, Handshake, LookAtChild, Answers, daemonVars,
        paths
  <2> QED BY <2>1 DEF StartupInv, StartupTypeOK, FileIsOfHolder
<1> QED BY <1>1, <1>2

(* Whoever holds the socket has the file at the endpoint.                  *)
THEOREM StartupInvariance == StartupSpec => []StartupInv
<1>1. StartupInv /\ [StartupNext]_startupVars => StartupInv'
  <2> SUFFICES ASSUME StartupInv, [StartupNext]_startupVars PROVE StartupInv'
    OBVIOUS
  <2>1. CASE StartupNext
    BY <2>1, DaemonKeeps, StarterKeeps DEF StartupNext
  <2>2. CASE UNCHANGED startupVars
    BY <2>2 DEF startupVars, StartupInv, StartupTypeOK, FileIsOfHolder
  <2> QED BY <2>1, <2>2
<1> QED BY <1>1, StartupInitInv, PTL DEF StartupSpec

(* Unless a socket was stolen no two processes have the database open.     *)
THEOREM OneDaemonOwns == StartupSpec => []OneDaemonUnlessStolen
<1>1. StartupInv => OneDaemonUnlessStolen
  <2> SUFFICES ASSUME StartupInv, ~stolen PROVE OneDaemon
    BY DEF OneDaemonUnlessStolen
  <2> DEFINE owners == {d \in Daemons : place[d] \in Owning}
  <2>1. owners \subseteq {socketFile}
    BY DEF StartupInv, FileIsOfHolder, Holding
  <2>2. IsFiniteSet({socketFile}) /\ Cardinality({socketFile}) = 1
    BY FS_Singleton
  <2>3. Cardinality(owners) <= 1
    BY <2>1, <2>2, FS_Subset
  <2> QED BY <2>3 DEF OneDaemon
<1> QED BY <1>1, StartupInvariance, PTL

----------------------------------------------------------------------------
(* The launch of a provider.                                               *)

Discoveries == [path : Range(Paths) \cup {NoPath}, serial : Nat,
                noDaemon : BOOLEAN, remote : BOOLEAN]

Stages == {"idle", "discover", "refresh", "read", "version", "check",
           "options", "flags", "login", "persist", "configure", "overlay",
           "install", "validate", "runtime", "spawn", "done"}

Works == [pc : Stages, kind : ProviderKinds \cup {"none"},
          found : Discoveries,
          health : {"none", "unavailable", "healthy", "unauthenticated"},
          noDaemon : BOOLEAN, remote : BOOLEAN, raced : BOOLEAN]

ProviderTypeOK ==
    /\ programs \in [Range(Paths) -> [build : Builds \cup {NoPath}, serial : Nat]]
    /\ updates \in Nat
    /\ discovery \in Discoveries
    /\ asking \in [Probers -> Works]

(* The probe of a request has answered that the program serves a bridge.   *)
Capable(w) ==
    \/ w.pc \in {"login", "configure", "overlay", "install", "validate",
                 "runtime", "spawn"}
    \/ w.pc = "persist" /\ w.health = "healthy"

(* What a Codex request that nobody has raced may count on, as it goes.    *)
Fits(w, d) ==
    /\ w.pc # "check"
    /\ w.pc \in {"version", "options", "flags"} =>
         w.health # "healthy" /\ (w.raced \/ d.path = w.found.path)
    /\ w.pc = "flags" => w.noDaemon = w.remote
    /\ Capable(w) => w.raced \/ (d.noDaemon /\ d.remote)
    /\ w.pc \in {"install", "validate", "runtime", "spawn"} =>
         w.raced \/ w.noDaemon
    /\ w.pc = "spawn" => w.raced \/ w.remote

(* ManagedIsBridged is about Sessions that have started; it needs what the *)
(* requests that will start one have noted.  A daemon that is down serves  *)
(* nobody, so that the next one may discover anew.                         *)
ProviderInv ==
    /\ ProviderTypeOK
    /\ ManagedIsBridged
    /\ adapter = "Codex" => \A r \in Probers : Fits(asking[r], discovery)
    /\ ~life.up => \A r \in Probers : asking[r].pc \in {"idle", "done"}

(* A discovery, whatever the search finds.                                 *)
LEMMA DiscoveryTypes ==
    ASSUME programs \in [Range(Paths) -> [build : Builds \cup {NoPath}, serial : Nat]]
    PROVE  DiscoverNow \in Discoveries
<1> DEFINE here == {i \in DOMAIN Paths : programs[Paths[i]].build # NoPath}
           first == {i \in here : \A j \in here : i <= j}
           path == Paths[CHOOSE i \in first : TRUE]
<1>1. NoDiscovery \in Discoveries
  BY DEF NoDiscovery, Discoveries
<1>2. CASE first # {}
  <2>1. (CHOOSE i \in first : TRUE) \in DOMAIN Paths
    BY <1>2
  <2>2. path \in Range(Paths)
    BY <2>1 DEF Range
  <2>3. DiscoverNow = [NoDiscovery EXCEPT !.path = path, !.serial = programs[path].serial]
    BY <1>2 DEF DiscoverNow
  <2> HIDE DEF path
  <2> QED BY <2>2, <2>3 DEF NoDiscovery, Discoveries
<1>3. CASE first = {}
  BY <1>1, <1>3 DEF DiscoverNow
<1> QED BY <1>2, <1>3

(* A request that has not begun, or has ended, counts on nothing.          *)
LEMMA NoWorkFits ==
    /\ NoWork \in Works
    /\ \A d : Fits(NoWork, d)
    /\ \A k \in ProviderKinds \cup {"none"} :
         LET w == [NoWork EXCEPT !.pc = "done", !.kind = k]
         IN  w \in Works /\ w.pc = "done" /\ \A d : Fits(w, d)
BY DEF NoWork, NoDiscovery, Works, Discoveries, Stages, Fits, Capable

(* A step in which one request goes on to w and what is discovered stays.  *)
GoesOn(r, w) ==
    /\ life.up
    /\ asking' = [asking EXCEPT ![r] = w]
    /\ UNCHANGED <<adapter, discovery, life, programs, updates>>

(* Such a step concerns that request only.                                 *)
LEMMA OneGoesOn ==
    ASSUME ProviderInv, NEW r \in Probers, NEW w \in Works, GoesOn(r, w),
           adapter = "Codex" => Fits(w, discovery),
           ManagedIsBridged'
    PROVE  ProviderInv'
<1>1. /\ asking' \in [Probers -> Works]
      /\ asking'[r] = w
      /\ \A q \in Probers \ {r} : asking'[q] = asking[q]
      /\ adapter' = adapter /\ discovery' = discovery /\ life' = life /\ life.up
      /\ programs' = programs /\ updates' = updates
  BY DEF GoesOn, ProviderInv, ProviderTypeOK
<1> QED BY <1>1 DEF ProviderInv, ProviderTypeOK

(* Where a request goes by itself, and what it notes on the way.           *)
LEMMA ProbesKeep ==
    ASSUME ProviderInv, NEW r \in Probers,
           \/ \E k \in ProviderKinds : Begin(r, k)
           \/ Discover(r) \/ ReadDiscovery(r) \/ Version(r) \/ CheckAgain(r)
           \/ Options(r) \/ Login(r) \/ Persist(r)
           \/ Configure(r) \/ Overlay(r) \/ Install(r) \/ ValidateProfile(r)
           \/ ChooseRuntime(r)
    PROVE  ProviderInv'
<1> DEFINE w == asking[r]
<1>1. /\ asking \in [Probers -> Works] /\ w \in Works
      /\ discovery \in Discoveries
      /\ programs \in [Range(Paths) -> [build : Builds \cup {NoPath}, serial : Nat]]
      /\ adapter = "Codex" => Fits(w, discovery)
  BY DEF ProviderInv, ProviderTypeOK
<1>2. launched' = launched /\ adapter' = adapter
  BY DEF Begin, Discover, ReadDiscovery, Version, CheckAgain, Options, Login,
         Persist, Configure, Overlay, Install, ValidateProfile, ChooseRuntime,
         files
<1>3. ManagedIsBridged'
  BY <1>2 DEF ProviderInv, ManagedIsBridged
<1>4. ASSUME NEW n \in Works, GoesOn(r, n),
             adapter = "Codex" => Fits(n, discovery)
      PROVE  ProviderInv'
  BY <1>3, <1>4, OneGoesOn
<1>5. ASSUME NEW k \in ProviderKinds, Begin(r, k)
      PROVE  ProviderInv'
  <2> DEFINE n == [w EXCEPT !.kind = k,
                     !.pc = IF k = "ListProviders" THEN "read" ELSE "discover"]
  <2>1. GoesOn(r, n)
    BY <1>1, <1>5 DEF Begin, Where, files, GoesOn
  <2>2. n \in Works /\ Fits(n, discovery)
    BY <1>1 DEF Works, Stages, Fits, Capable
  <2> QED BY <1>4, <2>1, <2>2
<1>6. CASE Discover(r)
  <2> DEFINE n == [w EXCEPT !.pc = "refresh", !.found = DiscoverNow]
  <2>1. GoesOn(r, n)
    BY <1>1, <1>6 DEF Discover, Where, files, GoesOn
  <2>2. n \in Works /\ Fits(n, discovery)
    BY <1>1, DiscoveryTypes DEF Works, Stages, Fits, Capable
  <2> QED BY <1>4, <2>1, <2>2
<1>7. CASE ReadDiscovery(r)
  <2> DEFINE to == IF discovery.path # NoPath /\ Revalidates(discovery)
                   THEN "version" ELSE "persist"
             n == [w EXCEPT !.found = discovery, !.pc = to,
                            !.health = "unavailable"]
  <2>1. GoesOn(r, n)
    BY <1>1, <1>7 DEF ReadDiscovery, Where, files, GoesOn
  <2>2. to \in {"version", "persist"}
    OBVIOUS
  <2> HIDE DEF to
  <2>3. n \in Works /\ Fits(n, discovery)
    BY <1>1, <2>2 DEF Works, Stages, Fits, Capable
  <2> QED BY <1>4, <2>1, <2>3
<1>8. ASSUME GoesOn(r, [w EXCEPT !.pc = "persist", !.health = "unavailable"])
      PROVE  ProviderInv'
  <2> DEFINE n == [w EXCEPT !.pc = "persist", !.health = "unavailable"]
  <2>1. n \in Works /\ Fits(n, discovery)
    BY <1>1 DEF Works, Stages, Fits, Capable
  <2> QED BY <1>4, <1>8, <2>1
<1>9. CASE Version(r)
  <2> DEFINE to == IF adapter = "Claude" THEN "check" ELSE "options"
             n == [w EXCEPT !.pc = to]
  <2>1. \/ GoesOn(r, [w EXCEPT !.pc = "persist", !.health = "unavailable"])
        \/ GoesOn(r, n)
    BY <1>1, <1>9 DEF Version, Where, Reports, MovesTo, files, GoesOn
  <2>2. n \in Works /\ (adapter = "Codex" => Fits(n, discovery))
    BY <1>1, <1>9 DEF Version, Where, Works, Stages, Fits, Capable
  <2> QED BY <1>4, <1>8, <2>1, <2>2
<1>10. CASE CheckAgain(r)
  <2> DEFINE n == [w EXCEPT !.pc = "login",
                            !.raced = @ /\ discovery # w.found]
  <2>1. \/ GoesOn(r, [w EXCEPT !.pc = "persist", !.health = "unavailable"])
        \/ GoesOn(r, n)
    BY <1>1, <1>10 DEF CheckAgain, Where, Reports, files, GoesOn
  <2>2. n \in Works
    BY <1>1 DEF Works, Stages
  <2>3. adapter # "Codex"
    BY <1>1, <1>10 DEF CheckAgain, Where, Fits
  <2> QED BY <1>4, <1>8, <2>1, <2>2, <2>3
<1>11. CASE Options(r)
  <2> DEFINE modern == Runs(r) = "modern"
             n == [w EXCEPT !.pc = "flags", !.noDaemon = modern,
                            !.remote = modern]
  <2>1. \/ GoesOn(r, [w EXCEPT !.pc = "persist", !.health = "unavailable"])
        \/ GoesOn(r, n)
    BY <1>1, <1>11 DEF Options, Where, Reports, files, GoesOn
  <2>2. modern \in BOOLEAN
    OBVIOUS
  <2> HIDE DEF modern
  <2>3. n \in Works /\ (adapter = "Codex" => Fits(n, discovery))
    BY <1>1, <1>11, <2>2 DEF Options, Where, Works, Stages, Fits, Capable
  <2> QED BY <1>4, <1>8, <2>1, <2>3
<1>12. CASE Login(r)
  <2>1. PICK health \in {"healthy", "unauthenticated"} : Reports(r, health)
    BY <1>12 DEF Login
  <2> DEFINE n == [w EXCEPT !.pc = "persist", !.health = health]
  <2>2. GoesOn(r, n)
    BY <1>1, <1>12, <2>1 DEF Login, Where, Reports, files, GoesOn
  <2>3. n \in Works /\ (adapter = "Codex" => Fits(n, discovery))
    BY <1>1, <1>12 DEF Login, Where, Works, Stages, Fits, Capable
  <2> QED BY <1>4, <2>2, <2>3
<1>13. ASSUME life.up, Ends(r), UNCHANGED <<adapter, discovery, life, programs, updates>>
       PROVE  ProviderInv'
  <2> DEFINE n == [NoWork EXCEPT !.pc = "done", !.kind = "none"]
  <2>1. GoesOn(r, n)
    BY <1>1, <1>13 DEF Ends, GoesOn, NoWork
  <2>2. n \in Works /\ Fits(n, discovery)
    BY NoWorkFits
  <2> QED BY <1>4, <2>1, <2>2
<1>14. CASE Persist(r)
  <2> DEFINE n == [w EXCEPT !.pc = "configure"]
  <2>1. \/ Ends(r)
        \/ GoesOn(r, n) /\ w.health = "healthy"
    BY <1>1, <1>14 DEF Persist, Where, MovesTo, files, GoesOn
  <2>2. n \in Works
    BY <1>1 DEF Works, Stages
  <2>3. adapter = "Codex" /\ w.health = "healthy" => Fits(n, discovery)
    BY <1>1, <1>14 DEF Persist, Where, Works, Fits, Capable
  <2>4. life.up /\ UNCHANGED <<adapter, discovery, life, programs, updates>>
    BY <1>14 DEF Persist, Where, files
  <2> QED BY <1>4, <1>13, <2>1, <2>2, <2>3, <2>4
<1>15. CASE Configure(r)
  <2> DEFINE to == IF adapter = "Codex" THEN "overlay" ELSE "spawn"
             n == [w EXCEPT !.found.path = discovery.path,
                            !.found.serial = programs[discovery.path].serial,
                            !.pc = to]
  <2>1. \/ Ends(r)
        \/ GoesOn(r, n) /\ discovery.path # NoPath
    BY <1>1, <1>15 DEF Configure, Where, Refuse, files, GoesOn
  <2>2. discovery.path # NoPath => programs[discovery.path].serial \in Nat
    BY <1>1 DEF Discoveries
  <2>3. discovery.path # NoPath => n \in Works
    BY <1>1, <2>2 DEF Works, Stages, Discoveries
  <2>4. adapter = "Codex" => Fits(n, discovery)
    BY <1>1, <1>15 DEF Configure, Where, Works, Fits, Capable
  <2>5. life.up /\ UNCHANGED <<adapter, discovery, life, programs, updates>>
    BY <1>15 DEF Configure, Where, files
  <2> QED BY <1>4, <1>13, <2>1, <2>3, <2>4, <2>5
<1>16. CASE Overlay(r)
  <2> DEFINE to == IF profile[ProfileName(discovery.noDaemon)] = "absent"
                   THEN "install" ELSE "validate"
             n == [w EXCEPT !.noDaemon = discovery.noDaemon, !.pc = to]
  <2>1. GoesOn(r, n)
    BY <1>1, <1>16 DEF Overlay, Where, files, GoesOn
  <2>2. to \in {"install", "validate"}
    OBVIOUS
  <2> HIDE DEF to
  <2>3. n \in Works /\ (adapter = "Codex" => Fits(n, discovery))
    BY <1>1, <1>16, <2>2
       DEF Overlay, Where, Works, Stages, Discoveries, Fits, Capable
  <2> QED BY <1>4, <2>1, <2>3
<1>17. CASE Install(r)
  <2> DEFINE n == [w EXCEPT !.pc = "validate"]
  <2>1. GoesOn(r, n)
    BY <1>1, <1>17 DEF Install, Where, MovesTo, GoesOn
  <2>2. n \in Works /\ (adapter = "Codex" => Fits(n, discovery))
    BY <1>1, <1>17 DEF Install, Where, Works, Stages, Fits, Capable
  <2> QED BY <1>4, <2>1, <2>2
<1>18. CASE ValidateProfile(r)
  <2> DEFINE n == [w EXCEPT !.pc = "runtime"]
  <2>1. \/ Ends(r)
        \/ GoesOn(r, n)
    BY <1>1, <1>18 DEF ValidateProfile, Where, Refuse, files, GoesOn
  <2>2. n \in Works /\ (adapter = "Codex" => Fits(n, discovery))
    BY <1>1, <1>18 DEF ValidateProfile, Where, Works, Stages, Fits, Capable
  <2>3. life.up /\ UNCHANGED <<adapter, discovery, life, programs, updates>>
    BY <1>18 DEF ValidateProfile, Where, files
  <2> QED BY <1>4, <1>13, <2>1, <2>2, <2>3
<1>19. CASE ChooseRuntime(r)
  <2> DEFINE n == [w EXCEPT !.pc = "spawn", !.remote = discovery.remote]
  <2>1. GoesOn(r, n)
    BY <1>1, <1>19 DEF ChooseRuntime, Where, files, GoesOn
  <2>2. n \in Works /\ (adapter = "Codex" => Fits(n, discovery))
    BY <1>1, <1>19
       DEF ChooseRuntime, Where, Works, Stages, Discoveries, Fits, Capable
  <2> QED BY <1>4, <2>1, <2>2
<1> QED BY <1>5, <1>6, <1>7, <1>9, <1>10, <1>11, <1>12, <1>14, <1>15, <1>16,
           <1>17, <1>18, <1>19

(* refresh_health outdates the probes of all others, which note it.        *)
LEMMA RefreshKeeps ==
    ASSUME ProviderInv, NEW r \in Probers, Refresh(r)
    PROVE  ProviderInv'
<1>1. /\ asking \in [Probers -> Works]
      /\ asking[r].pc = "refresh" /\ life.up
      /\ discovery' = asking[r].found
      /\ asking' = [q \in Probers |->
            IF q = r THEN [asking[q] EXCEPT !.pc = "read"]
            ELSE [asking[q] EXCEPT !.raced = TRUE]]
      /\ UNCHANGED <<adapter, launched, programs, updates, life>>
  BY DEF Refresh, Where, files, ProviderInv, ProviderTypeOK
<1>2. discovery' \in Discoveries
  BY <1>1 DEF Works
<1>3. ASSUME NEW q \in Probers
      PROVE  asking'[q] \in Works /\
             (adapter = "Codex" => Fits(asking'[q], discovery'))
  <2>1. CASE q = r
    <3>1. asking'[q] = [asking[q] EXCEPT !.pc = "read"]
      BY <1>1, <2>1
    <3> QED BY <1>1, <3>1 DEF Works, Stages, Fits, Capable
  <2>2. CASE q # r
    <3>1. asking'[q] = [asking[q] EXCEPT !.raced = TRUE]
      BY <1>1, <2>2
    <3>2. asking[q] \in Works
      BY <1>1
    <3>3. /\ asking'[q] \in Works
          /\ asking'[q].raced = TRUE
          /\ asking'[q].pc = asking[q].pc
          /\ asking'[q].health = asking[q].health
          /\ asking'[q].noDaemon = asking[q].noDaemon
          /\ asking'[q].remote = asking[q].remote
      BY <3>1, <3>2 DEF Works
    <3> QED BY <3>3 DEF ProviderInv, Fits
  <2> QED BY <2>1, <2>2
<1>4. ManagedIsBridged'
  BY <1>1 DEF ProviderInv, ManagedIsBridged
<1> QED BY <1>1, <1>2, <1>3, <1>4 DEF ProviderInv, ProviderTypeOK

(* The flags are stored for the program that was asked, if it is still the *)
(* one discovered; then the request that stores them is up to date.        *)
LEMMA StoreFlagsKeeps ==
    ASSUME ProviderInv, NEW r \in Probers, StoreFlags(r)
    PROVE  ProviderInv'
<1> DEFINE stays == discovery.path # asking[r].found.path
<1>1. /\ asking \in [Probers -> Works] /\ discovery \in Discoveries
      /\ asking[r].pc = "flags" /\ life.up
      /\ adapter = "Codex" => Fits(asking[r], discovery)
  BY DEF StoreFlags, Where, ProviderInv, ProviderTypeOK
<1>2. /\ discovery' = IF stays THEN discovery
                      ELSE [discovery EXCEPT !.noDaemon = asking[r].noDaemon,
                                             !.remote = asking[r].remote]
      /\ asking' = [q \in Probers |->
            IF q # r
            THEN [asking[q] EXCEPT !.raced = @ \/ discovery' # discovery]
            ELSE [asking[r] EXCEPT
                     !.pc = IF asking[r].remote THEN "login" ELSE "persist",
                     !.raced = @ /\ stays]]
      /\ UNCHANGED <<adapter, launched, programs, updates, life>>
  BY DEF StoreFlags, files
<1>3. /\ discovery' \in Discoveries
      /\ discovery'.path = discovery.path
      /\ ~stays => /\ discovery'.noDaemon = asking[r].noDaemon
                   /\ discovery'.remote = asking[r].remote
  BY <1>1, <1>2 DEF Works, Discoveries
<1>4. ASSUME NEW q \in Probers
      PROVE  asking'[q] \in Works /\
             (adapter = "Codex" => Fits(asking'[q], discovery'))
  <2>1. CASE q = r
    <3> DEFINE to == IF asking[r].remote THEN "login" ELSE "persist"
               late == asking[r].raced /\ stays
    <3>1. asking'[q] = [asking[r] EXCEPT !.pc = to, !.raced = late]
      BY <1>2, <2>1
    <3> /\ asking[r] \in Works
        /\ late \in BOOLEAN
        /\ to \in {"login", "persist"}
      BY <1>1
    <3> HIDE DEF late, to
    <3>2. /\ asking'[q] \in Works
          /\ asking'[q].pc = to
          /\ asking'[q].raced = late
          /\ asking'[q].health = asking[r].health
      BY <3>1 DEF Works, Stages
    <3>3. adapter = "Codex" => /\ asking[r].health # "healthy"
                               /\ asking[r].noDaemon = asking[r].remote
                               /\ asking[r].raced \/ ~stays
      BY <1>1 DEF Fits
    <3> QED BY <1>3, <3>2, <3>3 DEF Fits, Capable, late, to
  <2>2. CASE q # r
    <3> DEFINE changed == discovery' # discovery
    <3>1. asking'[q] = [asking[q] EXCEPT !.raced = @ \/ changed]
      BY <1>2, <2>2
    <3>2. changed \in BOOLEAN
      OBVIOUS
    <3>3. ~changed => discovery' = discovery
      OBVIOUS
    <3> HIDE DEF changed
    <3>4. /\ asking'[q] \in Works
          /\ asking'[q].raced = (asking[q].raced \/ changed)
          /\ asking'[q].pc = asking[q].pc
          /\ asking'[q].health = asking[q].health
          /\ asking'[q].found = asking[q].found
          /\ asking'[q].noDaemon = asking[q].noDaemon
          /\ asking'[q].remote = asking[q].remote
      BY <1>1, <3>1, <3>2 DEF Works
    <3>5. adapter = "Codex" => Fits(asking[q], discovery)
      BY DEF ProviderInv
    <3> QED BY <3>3, <3>4, <3>5 DEF Fits, Capable
  <2> QED BY <2>1, <2>2
<1>5. ManagedIsBridged'
  BY <1>2 DEF ProviderInv, ManagedIsBridged
<1> QED BY <1>1, <1>2, <1>3, <1>4, <1>5 DEF ProviderInv, ProviderTypeOK

(* What is launched is what the request has noted.                         *)
LEMMA SpawnKeeps ==
    ASSUME ProviderInv, NEW r \in Probers, Spawn(r)
    PROVE  ProviderInv'
<1> DEFINE n == [NoWork EXCEPT !.pc = "done", !.kind = "none"]
           s == [by |-> r, program |-> <<asking[r].found.path, asking[r].found.serial>>,
                 noDaemon |-> asking[r].noDaemon, bridged |-> asking[r].remote,
                 raced |-> asking[r].raced]
<1>1. /\ asking \in [Probers -> Works]
      /\ asking[r].pc = "spawn"
      /\ adapter = "Codex" => Fits(asking[r], discovery)
      /\ launched' \in {launched, launched \cup {s}}
      /\ adapter' = adapter
  BY DEF Spawn, Where, Refuse, ProviderInv, ProviderTypeOK
<1>2. GoesOn(r, n)
  BY DEF Spawn, Where, Refuse, Ends, files, GoesOn, NoWork
<1>3. n \in Works /\ Fits(n, discovery)
  BY NoWorkFits
<1>4. adapter = "Codex" => (s.bridged /\ s.noDaemon) \/ s.raced
  BY <1>1 DEF Fits
<1>5. ManagedIsBridged'
  BY <1>1, <1>4 DEF ProviderInv, ManagedIsBridged
<1> QED BY <1>2, <1>3, <1>5, OneGoesOn

(* The user's updates, the provider's files, and a daemon's end and start. *)
LEMMA SurroundingsKeep ==
    ASSUME ProviderInv,
           \/ \E p \in Range(Paths) : UpdateProgram(p)
           \/ \E name \in Profiles : ProfileIsWritten(name)
           \/ \E k \in 1 .. MaxLives : SettingsAreWritten(k)
           \/ Stop \/ Start \/ UNCHANGED providerVars
    PROVE  ProviderInv'
<1> USE DEF ProviderInv, ProviderTypeOK
<1>1. ASSUME NEW p \in Range(Paths), UpdateProgram(p)
      PROVE  ProviderInv'
  <2>1. PICK b \in Builds \cup {NoPath} :
          programs' = [programs EXCEPT ![p] = [build |-> b, serial |-> updates + 1]]
    BY <1>1 DEF UpdateProgram
  <2>2. /\ UNCHANGED <<adapter, discovery, asking, launched, life>>
        /\ updates' = updates + 1
    BY <1>1 DEF UpdateProgram
  <2>3. programs' \in [Range(Paths) -> [build : Builds \cup {NoPath}, serial : Nat]]
    BY <2>1
  <2> QED BY <2>2, <2>3 DEF ManagedIsBridged
<1>2. ASSUME \/ \E name \in Profiles : ProfileIsWritten(name)
             \/ \E k \in 1 .. MaxLives : SettingsAreWritten(k)
      PROVE  ProviderInv'
  <2>1. /\ UNCHANGED <<adapter, programs, discovery, asking, launched, life>>
        /\ updates' = updates + 1
    BY <1>2 DEF ProfileIsWritten, SettingsAreWritten
  <2> QED BY <2>1 DEF ManagedIsBridged
<1>3. CASE Stop
  <2>1. /\ UNCHANGED <<adapter, programs, discovery, updates>>
        /\ launched' = {}
        /\ asking' = [r \in Probers |-> IF asking[r].pc = "idle" THEN NoWork
                                        ELSE [NoWork EXCEPT !.pc = "done"]]
    BY <1>3 DEF Stop
  <2>2. ASSUME NEW r \in Probers
        PROVE  /\ asking'[r] \in Works
               /\ asking'[r].pc \in {"idle", "done"}
               /\ Fits(asking'[r], discovery)
    BY <2>1 DEF NoWork, NoDiscovery, Works, Discoveries, Stages, Fits, Capable
  <2> QED BY <2>1, <2>2 DEF ManagedIsBridged
<1>4. CASE Start
  <2>1. /\ UNCHANGED <<adapter, programs, asking, launched, updates>>
        /\ ~life.up /\ life'.up
        /\ discovery' = DiscoverNow
    BY <1>4 DEF Start
  <2>2. ASSUME NEW r \in Probers
        PROVE  Fits(asking'[r], discovery')
    BY <2>1 DEF Fits, Capable
  <2> QED BY <2>1, <2>2, DiscoveryTypes DEF ManagedIsBridged
<1>5. CASE UNCHANGED providerVars
  BY <1>5 DEF providerVars, ManagedIsBridged
<1> QED BY <1>1, <1>2, <1>3, <1>4, <1>5

(* A daemon that starts has launched nothing.                              *)
LEMMA ProviderInitInv == ProviderInit => ProviderInv
<1> SUFFICES ASSUME ProviderInit PROVE ProviderInv
  OBVIOUS
<1>1. programs \in [Range(Paths) -> [build : Builds \cup {NoPath}, serial : Nat]]
  BY DEF ProviderInit
<1>2. /\ updates = 0 /\ discovery = DiscoverNow /\ launched = {} /\ life.up
      /\ asking = [r \in Probers |-> NoWork]
  BY DEF ProviderInit
<1> QED BY <1>1, <1>2, DiscoveryTypes, NoWorkFits
        DEF ProviderInv, ProviderTypeOK, ManagedIsBridged

(* What every behaviour of the adapters keeps.                             *)
THEOREM ProviderInvariance == ProviderSpec => []ProviderInv
<1>1. ProviderInv /\ [ProviderNext]_providerVars => ProviderInv'
  BY ProbesKeep, RefreshKeeps, StoreFlagsKeeps, SpawnKeeps, SurroundingsKeep
     DEF ProviderNext, Serve
<1> QED BY ProviderInitInv, <1>1, PTL DEF ProviderSpec

(* Every Codex Session runs behind the bridge and outside a shared server, *)
(* unless another request's refresh raced with its launch: for any number  *)
(* of requests, installed programs and updates of them.                    *)
THEOREM CodexIsBridged == ProviderSpec => []ManagedIsBridged
<1>1. ProviderInv => ManagedIsBridged
  BY DEF ProviderInv
<1> QED BY ProviderInvariance, <1>1, PTL

(* The stages of a launch that has registered a credential.                *)
Registered == {"configure", "overlay", "install", "validate", "runtime", "spawn"}

HasSession(r) == \E s \in launched : s.by = r

(* A credential is there from its registration on, and then for as long as *)
(* the Session runs; who has a Session has ended.                          *)
CredentialsInv ==
    \A r \in Probers :
       /\ r \in credentials <=> asking[r].pc \in Registered \/ HasSession(r)
       /\ HasSession(r) => asking[r].pc = "done"

(* A step of one request that neither registers nor launches.              *)
LEMMA NothingRegistered ==
    ASSUME ProviderTypeOK, CredentialsInv,
           \A q \in Probers :
              \/ asking'[q].pc = asking[q].pc
              \/ {asking[q].pc, asking'[q].pc} \subseteq Registered
              \/ {asking[q].pc, asking'[q].pc} \cap (Registered \cup {"done"}) = {}
              \/ /\ asking[q].pc \notin Registered \cup {"done"}
                 /\ asking'[q].pc = "done",
           credentials' = credentials, launched' = launched
    PROVE  CredentialsInv'
BY DEF CredentialsInv, HasSession, Registered

(* Every step keeps credentials and Sessions together.                     *)
LEMMA CredentialsKept ==
    ASSUME ProviderTypeOK, CredentialsInv, [ProviderNext]_providerVars
    PROVE  CredentialsInv'
<1>1. asking \in [Probers -> Works]
  BY DEF ProviderTypeOK
<1>2. ASSUME NEW r \in Probers, Serve(r)
      PROVE  CredentialsInv'
  <2>1. ASSUME NEW k \in ProviderKinds, Begin(r, k)
        PROVE  CredentialsInv'
    BY <1>1, <2>1, NothingRegistered DEF Begin, Where, Works, Registered
  <2>2. CASE \/ Discover(r) \/ ReadDiscovery(r) \/ Version(r) \/ CheckAgain(r)
             \/ Options(r) \/ Login(r)
    <3>1. /\ credentials' = credentials /\ launched' = launched
          /\ \A q \in Probers \ {r} : asking'[q] = asking[q]
          /\ asking[r].pc \in {"discover", "read", "version", "check",
                               "options", "login"}
          /\ asking'[r].pc \in {"refresh", "version", "persist", "check",
                                "options", "login", "flags"}
      BY <1>1, <2>2
         DEF Discover, ReadDiscovery, Version, CheckAgain, Options, Login,
             Where, Reports, MovesTo, Works
    <3> QED BY <3>1, NothingRegistered DEF Registered
  <2>3. CASE Refresh(r) \/ StoreFlags(r)
    <3>1. /\ credentials' = credentials /\ launched' = launched
          /\ asking[r].pc \in {"refresh", "flags"}
      BY <2>3 DEF Refresh, StoreFlags, Where
    <3>2. ASSUME NEW q \in Probers
          PROVE  IF q # r THEN asking'[q].pc = asking[q].pc
                 ELSE asking'[q].pc \in {"read", "login", "persist"}
      <4>1. asking[q] \in Works
        BY <1>1
      <4>2. CASE Refresh(r)
        <5>1. asking'[q] = IF q = r THEN [asking[q] EXCEPT !.pc = "read"]
                           ELSE [asking[q] EXCEPT !.raced = TRUE]
          BY <4>2 DEF Refresh
        <5> QED BY <4>1, <5>1 DEF Works
      <4>3. CASE StoreFlags(r)
        <5> DEFINE changed == discovery' # discovery
                   late == discovery.path # asking[r].found.path
        <5>1. asking'[q] =
                IF q # r THEN [asking[q] EXCEPT !.raced = @ \/ changed]
                ELSE [asking[r] EXCEPT
                        !.pc = IF asking[r].remote THEN "login" ELSE "persist",
                        !.raced = @ /\ late]
          BY <4>3 DEF StoreFlags
        <5> HIDE DEF changed, late
        <5> QED BY <4>1, <5>1 DEF Works
      <4> QED BY <2>3, <4>2, <4>3
    <3> QED BY <3>1, <3>2, NothingRegistered DEF Registered
  <2>4. CASE Overlay(r) \/ Install(r) \/ ChooseRuntime(r)
    <3>1. /\ credentials' = credentials /\ launched' = launched
          /\ \A q \in Probers \ {r} : asking'[q] = asking[q]
          /\ asking[r].pc \in Registered
          /\ asking'[r].pc \in Registered
      BY <1>1, <2>4
         DEF Overlay, Install, ChooseRuntime, Where, MovesTo, Works, Registered
    <3> QED BY <3>1, NothingRegistered
  <2>5. ASSUME Refuse(r), asking[r].pc \in Registered, launched' = launched
        PROVE  CredentialsInv'
    <3>1. /\ credentials' = credentials \ {r}
          /\ \A q \in Probers \ {r} : asking'[q] = asking[q]
          /\ asking'[r].pc = "done"
      BY <1>1, <2>5 DEF Refuse, Ends, NoWork
    <3> QED BY <2>5, <3>1 DEF CredentialsInv, HasSession, Registered
  <2>6. CASE Configure(r) \/ ValidateProfile(r)
    <3>1. asking[r].pc \in Registered /\ launched' = launched
      BY <2>6 DEF Configure, ValidateProfile, Where, Registered
    <3>2. \/ Refuse(r)
          \/ /\ credentials' = credentials
             /\ \A q \in Probers \ {r} : asking'[q] = asking[q]
             /\ asking'[r].pc \in Registered
      BY <1>1, <2>6 DEF Configure, ValidateProfile, Registered, Works
    <3> QED BY <2>5, <3>1, <3>2, NothingRegistered
  <2>7. CASE Persist(r)
    <3>1. asking[r].pc = "persist" /\ launched' = launched
      BY <2>7 DEF Persist, Where
    <3>2. \/ Ends(r) /\ credentials' = credentials
          \/ MovesTo(r, "configure") /\ credentials' = credentials \cup {r}
      BY <2>7 DEF Persist
    <3>3. ASSUME Ends(r)
          PROVE  /\ asking'[r].pc = "done"
                 /\ \A q \in Probers \ {r} : asking'[q] = asking[q]
      BY <1>1, <3>3 DEF Ends, NoWork
    <3>4. ASSUME MovesTo(r, "configure")
          PROVE  /\ asking'[r].pc = "configure"
                 /\ \A q \in Probers \ {r} : asking'[q] = asking[q]
      BY <1>1, <3>4 DEF MovesTo, Works
    <3> QED BY <3>1, <3>2, <3>3, <3>4 DEF CredentialsInv, HasSession, Registered
  <2>8. CASE Spawn(r)
    <3> DEFINE s == [by |-> r, program |-> <<asking[r].found.path, asking[r].found.serial>>,
                     noDaemon |-> asking[r].noDaemon, bridged |-> asking[r].remote,
                     raced |-> asking[r].raced]
    <3>1. asking[r].pc = "spawn"
      BY <2>8 DEF Spawn, Where
    <3>2. \/ Refuse(r) /\ launched' = launched
          \/ Ends(r) /\ credentials' = credentials /\ launched' = launched \cup {s}
      BY <2>8 DEF Spawn
    <3>3. s.by = r
      OBVIOUS
    <3> HIDE DEF s
    <3>4. CASE Ends(r) /\ credentials' = credentials /\ launched' = launched \cup {s}
      <4>1. /\ \A q \in Probers \ {r} : asking'[q] = asking[q]
            /\ asking'[r].pc = "done"
        BY <1>1, <3>4 DEF Ends, NoWork
      <4>2. \A q \in Probers : HasSession(q)' <=> HasSession(q) \/ q = r
        BY <3>3, <3>4 DEF HasSession
      <4> QED BY <3>1, <3>4, <4>1, <4>2 DEF CredentialsInv, Registered
    <3> QED BY <2>5, <3>1, <3>2, <3>4 DEF Registered
  <2> QED BY <1>2, <2>1, <2>2, <2>3, <2>4, <2>6, <2>7, <2>8 DEF Serve
<1>3. CASE Stop
  <2>1. /\ credentials' = {} /\ launched' = {}
        /\ \A q \in Probers : asking'[q].pc \in {"idle", "done"}
    BY <1>3 DEF Stop, NoWork
  <2> QED BY <2>1 DEF CredentialsInv, HasSession, Registered
<1>4. ASSUME \/ \E p \in Range(Paths) : UpdateProgram(p)
             \/ \E name \in Profiles : ProfileIsWritten(name)
             \/ \E n \in 1 .. MaxLives : SettingsAreWritten(n)
             \/ Start \/ UNCHANGED providerVars
      PROVE  CredentialsInv'
  <2>1. UNCHANGED <<asking, credentials, launched>>
    BY <1>4 DEF UpdateProgram, ProfileIsWritten, SettingsAreWritten, Start,
                providerVars
  <2> QED BY <2>1 DEF CredentialsInv, HasSession
<1> QED BY <1>2, <1>3, <1>4 DEF ProviderNext

(* A launch that ends leaves a hook credential exactly if its Session was  *)
(* started: every error path revokes what the launch registered.           *)
THEOREM NoOrphanCredential == ProviderSpec => []CredentialsFollowSessions
<1>1. ProviderInit => CredentialsInv
  BY DEF ProviderInit, CredentialsInv, HasSession, Registered, NoWork
<1>2. ProviderInv /\ CredentialsInv /\ [ProviderNext]_providerVars
        => CredentialsInv'
  BY CredentialsKept DEF ProviderInv
<1>3. CredentialsInv => CredentialsFollowSessions
  BY DEF CredentialsInv, CredentialsFollowSessions, HasSession, Registered
<1> QED BY ProviderInvariance, <1>1, <1>2, <1>3, PTL DEF ProviderSpec

----------------------------------------------------------------------------
ProfileStates == {"absent", "owned", "approved", "altered"}

(* The settings files are owned or altered, and only the daemon that runs  *)
(* has one that nobody altered.                                            *)
SettingsInv ==
    /\ \A n \in DOMAIN settings : settings[n] \in {"owned", "altered"}
    /\ NoStaleSettings

(* No step of the daemon takes another's file: what is there of profiles   *)
(* stays, and so do altered settings.                                      *)
KeepsFiles ==
    updates' = updates /\ <<profile, settings>>' # <<profile, settings>> =>
       /\ \A n \in Profiles : profile[n] # "absent" => profile'[n] = profile[n]
       /\ \A n \in Others :
             n \in DOMAIN settings' /\ settings'[n] = "altered"

(* Every step keeps the files of others, and what is known of its own.     *)
LEMMA SettingsKept ==
    ASSUME SettingsInv, profile \in [Profiles -> ProfileStates], updates \in Nat,
           [ProviderNext]_providerVars
    PROVE  SettingsInv' /\ KeepsFiles /\ profile' \in [Profiles -> ProfileStates]
<1>1. ASSUME UNCHANGED <<settings, profile, adapter, life>>
      PROVE  SettingsInv' /\ KeepsFiles /\ profile' \in [Profiles -> ProfileStates]
  BY <1>1 DEF SettingsInv, NoStaleSettings, Owned, KeepsFiles
<1>2. ASSUME NEW r \in Probers, Serve(r)
      PROVE  SettingsInv' /\ KeepsFiles /\ profile' \in [Profiles -> ProfileStates]
  <2>1. CASE Install(r)
    <3>1. /\ UNCHANGED <<settings, adapter, life, updates>>
          /\ profile' \in [Profiles -> ProfileStates]
          /\ \A n \in Profiles : profile[n] # "absent" => profile'[n] = profile[n]
      BY <2>1 DEF Install, ProfileStates, ProfileName, Profiles
    <3> QED BY <3>1 DEF SettingsInv, NoStaleSettings, Owned, Others, KeepsFiles
  <2>2. CASE ~Install(r)
    <3>1. UNCHANGED <<settings, profile, adapter, life>>
      BY <1>2, <2>2
         DEF Serve, Begin, Discover, Refresh, ReadDiscovery, Version, CheckAgain,
             Options, StoreFlags, Login, Persist, Configure, Overlay,
             ValidateProfile, ChooseRuntime, Spawn, files
    <3> QED BY <1>1, <3>1
  <2> QED BY <2>1, <2>2
<1>3. ASSUME \/ \E p \in Range(Paths) : UpdateProgram(p)
             \/ UNCHANGED providerVars
      PROVE  SettingsInv' /\ KeepsFiles /\ profile' \in [Profiles -> ProfileStates]
  <2>1. UNCHANGED <<settings, profile, adapter, life>>
    BY <1>3 DEF UpdateProgram, providerVars
  <2> QED BY <1>1, <2>1
<1>4. ASSUME NEW name \in Profiles, ProfileIsWritten(name)
      PROVE  SettingsInv' /\ KeepsFiles /\ profile' \in [Profiles -> ProfileStates]
  <2>1. /\ UNCHANGED <<settings, adapter, life>> /\ updates' = updates + 1
        /\ profile' \in [Profiles -> ProfileStates]
    BY <1>4 DEF ProfileIsWritten, ProfileStates
  <2> QED BY <2>1 DEF SettingsInv, NoStaleSettings, Owned, KeepsFiles
<1>5. ASSUME NEW n \in 1 .. MaxLives, SettingsAreWritten(n)
      PROVE  SettingsInv' /\ KeepsFiles /\ profile' \in [Profiles -> ProfileStates]
  <2>1. /\ UNCHANGED <<profile, adapter, life>> /\ updates' = updates + 1
        /\ DOMAIN settings' = DOMAIN settings
        /\ \A k \in DOMAIN settings :
              settings'[k] = IF k = n THEN "altered" ELSE settings[k]
    BY <1>5 DEF SettingsAreWritten
  <2> QED BY <2>1 DEF SettingsInv, NoStaleSettings, Owned, KeepsFiles
<1>6. CASE Stop
  <2>1. /\ UNCHANGED <<profile, adapter, updates>>
        /\ ~life'.up
    BY <1>6 DEF Stop
  <2>2. \/ settings' = settings
        \/ settings' = [n \in DOMAIN settings \ (Owned \cap {life.number})
                           |-> settings[n]]
    BY <1>6 DEF Stop
  <2>3. /\ DOMAIN settings' \subseteq DOMAIN settings
        /\ Others \subseteq DOMAIN settings'
        /\ \A k \in DOMAIN settings' : settings'[k] = settings[k]
    BY <2>2 DEF Others
  <2>4. \A k \in Others : settings[k] = "altered"
    BY DEF SettingsInv, Others, Owned
  <2> QED BY <2>1, <2>3, <2>4 DEF SettingsInv, NoStaleSettings, KeepsFiles
<1>7. CASE Start
  <2>1. /\ UNCHANGED <<profile, adapter, updates>>
        /\ life' = [number |-> life.number + 1, up |-> TRUE]
    BY <1>7 DEF Start
  <2>2. CASE adapter = "Claude"
    <3> DEFINE m == life'.number
    <3>1. settings' = [n \in Others \cup {m} |->
                          IF n \in Others THEN settings[n] ELSE "owned"]
      BY <1>7, <2>2 DEF Start
    <3>2. /\ DOMAIN settings' = Others \cup {m}
          /\ \A k \in Others : settings'[k] = settings[k]
          /\ m \notin Others => settings'[m] = "owned"
      BY <3>1
    <3>3. \A k \in Others : settings[k] = "altered"
      BY DEF SettingsInv, Others, Owned
    <3> HIDE DEF m
    <3>4. Owned' \subseteq {m}
      BY <3>2, <3>3 DEF Owned
    <3> QED BY <2>1, <3>2, <3>3, <3>4
            DEF SettingsInv, NoStaleSettings, KeepsFiles, m
  <2>3. CASE adapter # "Claude"
    <3>1. settings' = settings
      BY <1>7, <2>3 DEF Start
    <3> QED BY <2>1, <2>3, <3>1 DEF SettingsInv, NoStaleSettings, KeepsFiles
  <2> QED BY <2>2, <2>3
<1> QED BY <1>2, <1>3, <1>4, <1>5, <1>6, <1>7 DEF ProviderNext

(* What the files are when a daemon starts, and ever after.                *)
LEMMA SettingsInvariance ==
    ProviderSpec => [](SettingsInv /\ profile \in [Profiles -> ProfileStates])
<1>1. ProviderInit => SettingsInv /\ profile \in [Profiles -> ProfileStates]
  <2> SUFFICES ASSUME ProviderInit
               PROVE  SettingsInv /\ profile \in [Profiles -> ProfileStates]
    OBVIOUS
  <2>1. /\ settings = IF adapter = "Claude" THEN [n \in {1} |-> "owned"] ELSE <<>>
        /\ profile \in [Profiles -> ProfileStates]
        /\ life.number = 1
    BY DEF ProviderInit, ProfileStates
  <2>2. \A n \in DOMAIN settings : n = 1 /\ settings[n] = "owned"
    BY <2>1
  <2> QED BY <2>1, <2>2 DEF SettingsInv, NoStaleSettings, Owned
<1>2. /\ ProviderInv
      /\ SettingsInv /\ profile \in [Profiles -> ProfileStates]
      /\ [ProviderNext]_providerVars
      => (SettingsInv /\ profile \in [Profiles -> ProfileStates])'
  BY SettingsKept DEF ProviderInv, ProviderTypeOK
<1> QED BY ProviderInvariance, <1>1, <1>2, PTL DEF ProviderSpec

(* The settings that killed daemons have left are gone when the next one   *)
(* runs.                                                                   *)
THEOREM SettingsAreCleaned == ProviderSpec => []NoStaleSettings
<1>1. SettingsInv => NoStaleSettings
  BY DEF SettingsInv
<1> QED BY SettingsInvariance, <1>1, PTL

(* No daemon changes a profile that exists or removes altered settings.    *)
THEOREM OthersFilesStay == ProviderSpec => FilesOfOthersAreKept
<1> DEFINE SettingsAndProfileKept ==
       updates' = updates /\ <<profile, settings>>' # <<profile, settings>> =>
          /\ \A n \in Profiles : profile[n] # "absent" => profile'[n] = profile[n]
          /\ \A n \in Others :
                n \in DOMAIN settings' /\ settings'[n] = "altered"
<1>1. /\ ProviderInv
      /\ SettingsInv /\ profile \in [Profiles -> ProfileStates]
      /\ [ProviderNext]_providerVars
      => [SettingsAndProfileKept]_providerVars
  BY SettingsKept DEF ProviderInv, ProviderTypeOK, KeepsFiles
<1>2. ProviderSpec => [][SettingsAndProfileKept]_providerVars
  BY ProviderInvariance, SettingsInvariance, <1>1, PTL DEF ProviderSpec
<1> QED BY <1>2 DEF FilesOfOthersAreKept
============================================================================
