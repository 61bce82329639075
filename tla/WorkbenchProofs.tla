-------------------------- MODULE WorkbenchProofs --------------------------
(***************************************************************************)
(* Theorems about Workbench, for any Projects, checkouts, Sessions and     *)
(* clients: a Session that runs has its checkout, the capacity for Work    *)
(* Sources is exact, a conversation is run once unless its lineage was cut *)
(* and a removal deletes no work.  And about Explorer, for any tree: the   *)
(* row that is marked is the one that is selected.                         *)
(***************************************************************************)
EXTENDS Workbench, Explorer, FiniteSetTheorems, SequenceTheorems, TLAPS

Creates == {"CreateWorktree", "StartWork"}
Launches == {"StartWork", "RetryStartWork", "CreateSession", "ResumeSession"}

RowStates == {"none", "active", "missing", "removed", "gone"}
Steps == {"idle", "check", "add", "record", "launch", "spawn", "remove", "mark"}

LockLists ==
    {<<>>, <<"project">>, <<"worktree">>, <<"project", "worktree">>}

SessionRows ==
    [w : Checkouts \cup {Free},
     lifecycle : {"none", "starting", "running", "ended", "deleted"},
     conversation : Conversations \cup {NoConversation}]

Requests ==
    [op : Requested \cup {"idle"}, locks : LockLists, step : Steps,
     w : Checkouts \cup {Free}, s : Sessions \cup {NoSession},
     permit : BOOLEAN]

DataType ==
    /\ row \in [Checkouts -> RowStates]
    /\ source \subseteq Worktrees
    /\ session \in [Sessions -> SessionRows]
    /\ links \subseteq Sessions \X Sessions
    /\ disk \in [Checkouts -> {"absent", "clean", "ignored", "changed"}]
    /\ up \in BOOLEAN
    /\ live \subseteq Sessions

CountType ==
    /\ permits \in Nat /\ excess \in Nat
    /\ count \in [requests : Nat, edits : Nat, switches : Nat, boots : Nat,
                  faults : Nat]

----------------------------------------------------------------------------
(* Requests and the locks they hold.                                       *)

(* The locks a request has yet to take are an end of its list.             *)
Pending(r) ==
    /\ r.op \in {"CreateSession", "ResumeSession"} =>
         r.locks \in {<<"worktree">>, <<>>}
    /\ r.op = "RemoveWorktree" =>
         r.locks \in {<<"project", "worktree">>, <<"worktree">>, <<>>}
    /\ r.op \notin {"CreateSession", "ResumeSession", "RemoveWorktree"} =>
         r.locks \in {<<"project">>, <<>>}
    /\ r.op = "idle" => r.locks = <<>>

(* How far a request of each kind can be, and what it has by then.         *)
WellFormed(r) ==
    /\ r.op = "idle" <=> r.step = "idle"
    /\ r.op # "idle" => r.w \in Checkouts
    /\ r.op \in Creates => r.w \in Worktrees
    /\ r.step \in {"add", "record"} => r.op \in Creates
    /\ r.step \in {"launch", "spawn"} => r.op \in Launches
    /\ r.step \in {"remove", "mark"} => r.op = "RemoveWorktree"
    /\ r.step \notin {"idle", "check"} => r.locks = <<>>
    /\ r.permit <=> r.op = "StartWork" /\ r.step \in {"add", "record"}
    /\ r.step = "spawn" => r.s \in Sessions
    /\ Pending(r)

HoldsProject(r) ==
    /\ r.op \in Requested \ {"CreateSession", "ResumeSession"}
    /\ r.locks \notin {<<"project">>, <<"project", "worktree">>}

HoldsWorktree(r) ==
    /\ r.op \in {"CreateSession", "ResumeSession", "RemoveWorktree"}
    /\ r.locks = <<>>

RequestsAreSound ==
    /\ req \in [Clients -> Requests]
    /\ \A c \in Clients : WellFormed(req[c])

(* A request has the locks it is past.                                     *)
Guarded ==
    /\ plock \in [Projects -> Clients \cup {Free}]
    /\ wlock \in [Checkouts -> Clients \cup {Free}]
    /\ \A c \in Clients :
         /\ HoldsProject(req[c]) => plock[Home[req[c].w]] = c
         /\ HoldsWorktree(req[c]) => wlock[req[c].w] = c

----------------------------------------------------------------------------
(* Checkouts, Sessions and the requests under way.                         *)

(* A checkout that is being created has no row, and no other request       *)
(* knows of it.                                                            *)
CreatedAlone ==
    \A c \in Clients :
        req[c].op \in Creates /\ req[c].step \in {"check", "add", "record"} =>
            /\ row[req[c].w] = "none"
            /\ \A d \in Clients : d # c => req[d].w # req[c].w

(* A checkout that is being removed is in use by nobody.                   *)
RemovedUnused ==
    \A c \in Clients : req[c].step \in {"remove", "mark"} =>
        /\ req[c].w \in Worktrees
        /\ row[req[c].w] = "active"
        /\ ActiveIn(req[c].w) = {}

(* A verified checkout stays, unless the whole Project goes.               *)
LaunchedVerified ==
    \A c \in Clients : req[c].step = "launch" =>
        /\ req[c].op = "ResumeSession" =>
             req[c].s \in Sessions /\ session[req[c].s].lifecycle # "none"
        /\ \/ req[c].op = "ResumeSession" /\ session[req[c].s].w # req[c].w
           \/ row[req[c].w] \in {"active", "gone"}

(* The row of a Session that is being spawned is that request's own.       *)
SpawnedOnce ==
    \A c \in Clients : req[c].step = "spawn" =>
        /\ session[req[c].s].lifecycle = "starting"
        /\ \A d \in Clients :
             d # c /\ req[d].step = "spawn" => req[d].s # req[c].s

(* Every Session has the row of its checkout, and an active one an active  *)
(* row.                                                                    *)
SessionsFit ==
    /\ \A s \in Sessions :
         Exists(s) => session[s].w \in Checkouts /\ HasRow(session[s].w)
    /\ \A s \in live : session[s].lifecycle = "running"
    /\ ~up => live = {} /\ \A c \in Clients : req[c] = Idle
    /\ SessionsHaveCheckouts

(* Only a recorded checkout has a Work Source.                             *)
SourcesHaveRows == \A w \in source : row[w] # "none"

----------------------------------------------------------------------------
(* The lineage of Sessions.                                                *)

(* A Session no successor of which continues the conversation k.           *)
EndOf(s, k) ==
    /\ Exists(s)
    /\ session[s].conversation = k
    /\ \A l \in links : l[1] = s => session[l[2]].conversation # k

Lineage ==
    /\ \A l \in links : session[l[1]].lifecycle = "ended" /\ Exists(l[2])
    /\ \A l, m \in links : l[2] = m[2] => l = m
    /\ \A s, t \in Sessions, k \in Conversations :
         EndOf(s, k) /\ EndOf(t, k) /\ k \notin cut => s = t

Inv ==
    /\ DataType
    /\ CountType
    /\ RequestsAreSound
    /\ Guarded
    /\ CreatedAlone
    /\ RemovedUnused
    /\ LaunchedVerified
    /\ SpawnedOnce
    /\ SessionsFit
    /\ SourcesHaveRows
    /\ CapacityIsExact
    /\ Lineage

----------------------------------------------------------------------------
(* How a step changes the requests and the locks.                          *)

(* A handler goes on: what it is for and the locks it has stay.            *)
Moves(c) ==
    \E r \in Requests :
        /\ req' = [req EXCEPT ![c] = r]
        /\ WellFormed(r)
        /\ r.op = req[c].op /\ r.w = req[c].w /\ r.locks = req[c].locks
        /\ r.step \notin {"idle", "check"}
        /\ r.step \in {"add", "record"} => req[c].step \in {"check", "add"}
        /\ UNCHANGED <<plock, wlock>>

LocksKept == UNCHANGED <<req, plock, wlock>>

(* The pieces of a request.                                                *)
LEMMA RequestFacts ==
    ASSUME RequestsAreSound, NEW c \in Clients
    PROVE  /\ req[c] \in Requests
           /\ WellFormed(req[c])
           /\ req[c].op \in Requested \cup {"idle"}
           /\ req[c].locks \in LockLists
           /\ req[c].step \in Steps
           /\ req[c].w \in Checkouts \cup {Free}
           /\ req[c].s \in Sessions \cup {NoSession}
           /\ req[c].permit \in BOOLEAN
BY DEF RequestsAreSound, Requests

(* An idle connection is a request like any other.                         *)
LEMMA IdleFacts ==
    /\ Idle \in Requests /\ WellFormed(Idle)
    /\ Idle.op = "idle" /\ Idle.step = "idle" /\ Idle.w = Free
    /\ Idle.locks = <<>> /\ Idle.permit = FALSE
    /\ ~HoldsProject(Idle) /\ ~HoldsWorktree(Idle)
<1>1. /\ Idle.op = "idle" /\ Idle.step = "idle" /\ Idle.w = Free
      /\ Idle.locks = <<>> /\ Idle.permit = FALSE
  BY DEF Idle
<1>2. Idle \in Requests
  BY DEF Idle, Requests, LockLists, Steps
<1>3. WellFormed(Idle)
  BY <1>1 DEF WellFormed, Pending, Creates, Launches
<1>4. ~HoldsProject(Idle) /\ ~HoldsWorktree(Idle)
  BY <1>1 DEF HoldsProject, HoldsWorktree, Requested
<1> QED BY <1>1, <1>2, <1>3, <1>4

(* The request that Submit takes up.                                       *)
Submitted(op, w, s) ==
    [Idle EXCEPT !.op = op, !.locks = Locks(op), !.step = "check", !.w = w,
                 !.s = s]

(* A request that was just submitted is well formed.                       *)
LEMMA SubmittedFacts ==
    ASSUME NEW op \in Requested, NEW w \in Checkouts,
           NEW s \in Sessions \cup {NoSession}, Names(op, w, s)
    PROVE  /\ Submitted(op, w, s) \in Requests
           /\ WellFormed(Submitted(op, w, s))
           /\ Submitted(op, w, s).op = op
           /\ Submitted(op, w, s).w = w
           /\ Submitted(op, w, s).s = s
           /\ Submitted(op, w, s).step = "check"
           /\ Submitted(op, w, s).permit = FALSE
           /\ ~HoldsProject(Submitted(op, w, s))
           /\ ~HoldsWorktree(Submitted(op, w, s))
<1> DEFINE r == Submitted(op, w, s)
<1>1. Locks(op) \in LockLists
  BY DEF Locks, LockLists
<1>2. /\ r \in Requests /\ r.op = op /\ r.w = w /\ r.step = "check"
      /\ r.permit = FALSE /\ r.locks = Locks(op) /\ r.s = s
  BY <1>1 DEF Submitted, Idle, Requests, Steps
<1>3. op \in Creates => w \in Worktrees
  BY DEF Names, Creates
<1> HIDE DEF r
<1>4. Pending(r)
  BY <1>2 DEF Pending, Locks, Requested
<1>5. WellFormed(r)
  BY <1>2, <1>3, <1>4 DEF WellFormed, Creates, Launches, Requested
<1>6. ~HoldsProject(r) /\ ~HoldsWorktree(r)
  BY <1>2 DEF HoldsProject, HoldsWorktree, Locks, Requested
<1> QED BY <1>2, <1>5, <1>6 DEF r

(* A step of a handler takes a lock, goes on or answers.                   *)
LEMMA AdvanceKinds ==
    ASSUME Inv, NEW c \in Clients, Advance(c)
    PROVE  Lock(c) \/ Moves(c) \/ Returns(c)
<1> DEFINE r == req[c]
<1>0. /\ r \in Requests /\ WellFormed(r)
  BY RequestFacts DEF Inv
<1>1. ASSUME NEW step \in {"add", "record", "launch", "remove", "mark"},
             GoesTo(c, step), r.op # "idle", r.locks = <<>>,
             step \in {"add", "record"} => r.step \in {"check", "add"}
                                           /\ r.op \in Creates,
             step = "launch" => r.op \in Launches,
             step \in {"remove", "mark"} => r.op = "RemoveWorktree",
             \/ ~r.permit /\ r.op # "StartWork"
             \/ ~r.permit /\ step \notin {"add", "record"}
             \/ r.step = "add" /\ step = "record"
      PROVE  Moves(c)
  <2> DEFINE n == [r EXCEPT !.step = step]
  <2>1. /\ n \in Requests /\ n.op = r.op /\ n.w = r.w /\ n.locks = r.locks
        /\ n.step = step /\ n.s = r.s /\ n.permit = r.permit
    BY <1>0, <1>1 DEF Requests, Steps
  <2>2. req' = [req EXCEPT ![c] = n] /\ UNCHANGED <<plock, wlock>>
    BY <1>1 DEF GoesTo
  <2> HIDE DEF n
  <2>3. Pending(n)
    BY <1>0, <2>1 DEF WellFormed, Pending
  <2>4. WellFormed(n)
    BY <1>0, <1>1, <2>1, <2>3 DEF WellFormed
  <2> QED BY <1>1, <2>1, <2>2, <2>4 DEF Moves
<1>2. CASE Lock(c)
  BY <1>2
<1>3. CASE \/ Answer(c) \/ AddFails(c) \/ RecordFails(c) \/ Spawn(c)
           \/ (\E recorded \in BOOLEAN : SpawnFails(c, recorded))
           \/ Mark(c) \/ MarkFails(c) \/ RemoveProject(c)
           \/ AddCheckout(c, FALSE)
  BY <1>3
  DEF Answer, AddFails, RecordFails, Spawn, SpawnFails, Mark, MarkFails,
      RemoveProject, AddCheckout
<1>4. CASE CheckCreate(c)
  <2> DEFINE n == [r EXCEPT !.step = "add", !.permit = TRUE]
  <2>1. /\ r.op \in Creates /\ r.locks = <<>> /\ r.step = "check"
        /\ UNCHANGED <<plock, wlock>>
    BY <1>4 DEF CheckCreate, At, Creates
  <2>2. CASE r.op = "StartWork"
    <3>1. req' = [req EXCEPT ![c] = n]
      BY <1>4, <2>2 DEF CheckCreate
    <3>2. /\ n \in Requests /\ n.op = r.op /\ n.w = r.w /\ n.locks = r.locks
          /\ n.step = "add"
      BY <1>0 DEF Requests, Steps
    <3>a. n.permit = TRUE
      BY <1>0 DEF Requests
    <3> HIDE DEF n
    <3>3. Pending(n)
      BY <1>0, <3>2 DEF WellFormed, Pending
    <3>4. WellFormed(n)
      BY <1>0, <2>1, <2>2, <3>2, <3>a, <3>3 DEF WellFormed, Creates
    <3> QED BY <2>1, <3>1, <3>2, <3>4 DEF Moves
  <2>3. CASE r.op # "StartWork"
    <3>1. GoesTo(c, "add")
      BY <1>4, <2>1, <2>3 DEF CheckCreate, GoesTo
    <3>2. ~r.permit
      BY <1>0, <2>1 DEF WellFormed
    <3> QED BY <1>1, <2>1, <2>3, <3>1, <3>2 DEF Creates
  <2> QED BY <2>2, <2>3
<1>5. CASE AddCheckout(c, TRUE)
  <2>1. /\ r.op \in Creates /\ r.locks = <<>> /\ r.step = "add"
        /\ GoesTo(c, "record")
    BY <1>5 DEF AddCheckout, At, Creates
  <2> QED BY <1>1, <2>1 DEF Creates
<1>6. CASE Record(c)
  <2> DEFINE n == [r EXCEPT !.step = "launch", !.permit = FALSE]
  <2>1. r.op \in Creates /\ r.locks = <<>> /\ r.step = "record"
    BY <1>6 DEF Record, At, Creates
  <2>2. CASE r.op = "StartWork"
    <3>1. req' = [req EXCEPT ![c] = n] /\ UNCHANGED <<plock, wlock>>
      BY <1>6, <2>2 DEF Record
    <3>2. /\ n \in Requests /\ n.op = r.op /\ n.w = r.w /\ n.locks = r.locks
          /\ n.step = "launch" /\ n.permit = FALSE
      BY <1>0 DEF Requests, Steps
    <3> HIDE DEF n
    <3>3. Pending(n)
      BY <1>0, <3>2 DEF WellFormed, Pending
    <3>4. WellFormed(n)
      BY <1>0, <2>1, <2>2, <3>2, <3>3 DEF WellFormed, Creates, Launches
    <3> QED BY <3>1, <3>2, <3>4 DEF Moves
  <2>3. CASE r.op # "StartWork"
    BY <1>6, <2>3 DEF Record
  <2> QED BY <2>2, <2>3
<1>7. CASE CheckCreateSession(c) \/ CheckRetry(c)
  <2>1. /\ r.op \in Launches /\ r.locks = <<>> /\ r.step = "check"
        /\ GoesTo(c, "launch")
    BY <1>7 DEF CheckCreateSession, CheckRetry, At, Launches
  <2>2. ~r.permit
    BY <1>0, <2>1 DEF WellFormed
  <2> QED BY <1>1, <2>1, <2>2 DEF Launches
<1>8. CASE CheckResume(c)
  <2>1. PICK leaf \in Sessions :
          req' = [req EXCEPT ![c].step = "launch", ![c].s = leaf]
    BY <1>8 DEF CheckResume
  <2> DEFINE n == [r EXCEPT !.step = "launch", !.s = leaf]
  <2>2. /\ r.op = "ResumeSession" /\ r.locks = <<>> /\ r.step = "check"
        /\ UNCHANGED <<plock, wlock>> /\ req' = [req EXCEPT ![c] = n]
    BY <1>8, <2>1 DEF CheckResume, At
  <2>3. /\ n \in Requests /\ n.op = r.op /\ n.w = r.w /\ n.locks = r.locks
        /\ n.step = "launch" /\ n.permit = r.permit
    BY <1>0 DEF Requests, Steps
  <2> HIDE DEF n
  <2>4. Pending(n)
    BY <1>0, <2>3 DEF WellFormed, Pending
  <2>5. WellFormed(n)
    BY <1>0, <2>2, <2>3, <2>4 DEF WellFormed, Creates, Launches
  <2> QED BY <2>2, <2>3, <2>5 DEF Moves
<1>9. CASE Insert(c)
  <2> DEFINE s == CHOOSE s \in Unborn : TRUE
             n == [r EXCEPT !.step = "spawn", !.s = s]
  <2>1. s \in Sessions
    BY <1>9 DEF Insert, Unborn
  <2>2. /\ r.locks = <<>> /\ r.step = "launch"
        /\ UNCHANGED <<plock, wlock>> /\ req' = [req EXCEPT ![c] = n]
    BY <1>9 DEF Insert, At
  <2> HIDE DEF s
  <2>3. /\ n \in Requests /\ n.op = r.op /\ n.w = r.w /\ n.locks = r.locks
        /\ n.step = "spawn" /\ n.permit = r.permit /\ n.s = s
    BY <1>0, <2>1 DEF Requests, Steps
  <2> HIDE DEF n
  <2>4. Pending(n)
    BY <1>0, <2>3 DEF WellFormed, Pending
  <2>5. WellFormed(n)
    BY <1>0, <2>1, <2>2, <2>3, <2>4 DEF WellFormed
  <2> QED BY <2>2, <2>3, <2>5 DEF Moves
<1>10. CASE CheckRemove(c) \/ RemoveCheckout(c)
  <2>1. /\ r.op = "RemoveWorktree" /\ r.locks = <<>>
        /\ \E step \in {"remove", "mark"} : GoesTo(c, step)
    BY <1>10 DEF CheckRemove, RemoveCheckout, At
  <2>2. ~r.permit
    BY <1>0, <2>1 DEF WellFormed
  <2> QED BY <1>1, <2>1, <2>2
<1> QED
  BY <1>2, <1>3, <1>4, <1>5, <1>6, <1>7, <1>8, <1>9, <1>10 DEF Advance

(* Every step but a crash is of one request or of none.                    *)
LEMMA StepKinds ==
    ASSUME Inv, Next
    PROVE  \/ LocksKept
           \/ Crash
           \/ \E c \in Clients :
                \/ \E op \in Requested, w \in Checkouts,
                      s \in Sessions \cup {NoSession} : Submit(c, op, w, s)
                \/ Lock(c)
                \/ Moves(c)
                \/ Returns(c)
<1>2. CASE \/ \E c \in Clients, p \in Projects : Inspect(c, p)
           \/ \E r \in Roots : AddProject(r)
           \/ \E s \in Sessions : DeleteSession(s) \/ Exit(s)
           \/ \E s \in Sessions, k \in Conversations,
                 how \in {"established", "cleared", "resumed"} :
                   Announce(s, k, how)
           \/ \E w \in Checkouts,
                 to \in {"clean", "ignored", "changed", "absent"} : Edit(w, to)
           \/ Boot
  BY <1>2
  DEF LocksKept, Inspect, AddProject, DeleteSession, Exit, Announce, Edit,
      Boot, memory
<1> QED BY <1>2, AdvanceKinds DEF Next

(* The lists of locks, taken apart.                                        *)
LEMMA LockListFacts ==
    /\ Head(<<"project">>) = "project" /\ Tail(<<"project">>) = <<>>
    /\ Head(<<"worktree">>) = "worktree" /\ Tail(<<"worktree">>) = <<>>
    /\ Head(<<"project", "worktree">>) = "project"
    /\ Tail(<<"project", "worktree">>) = <<"worktree">>
<1>1. /\ Head(<<"project">>) = "project" /\ Head(<<"worktree">>) = "worktree"
      /\ Head(<<"project", "worktree">>) = "project"
  OBVIOUS
<1>2. Tail(<<"project">>) = <<>>
  OBVIOUS
<1>3. Tail(<<"worktree">>) = <<>>
  OBVIOUS
<1>4. Tail(<<"project", "worktree">>) = <<"worktree">>
  OBVIOUS
<1> QED BY <1>1, <1>2, <1>3, <1>4

(* What Lock does to the request and the two kinds of locks.               *)
LEMMA LockFacts ==
    ASSUME RequestsAreSound, NEW c \in Clients, Lock(c)
    PROVE  \E r \in Requests :
             /\ req' = [req EXCEPT ![c] = r]
             /\ WellFormed(r)
             /\ r.op = req[c].op /\ r.w = req[c].w /\ r.step = req[c].step
             /\ r.s = req[c].s /\ r.permit = req[c].permit
             /\ r.op # "idle"
             /\ \/ /\ plock[Home[r.w]] = Free
                   /\ plock' = [plock EXCEPT ![Home[r.w]] = c]
                   /\ wlock' = wlock
                   /\ ~HoldsProject(req[c]) /\ ~HoldsWorktree(r)
                \/ /\ wlock[r.w] = Free
                   /\ wlock' = [wlock EXCEPT ![r.w] = c]
                   /\ plock' = plock
                   /\ HoldsProject(r) => HoldsProject(req[c])
<1> DEFINE o == req[c]
           r == [o EXCEPT !.locks = Tail(@)]
<1>1. o \in Requests /\ WellFormed(o) /\ o.locks \in LockLists
  BY RequestFacts
<1>2. /\ o.locks # <<>>
      /\ req' = [req EXCEPT ![c] = r]
      /\ IF Head(o.locks) = "project"
         THEN /\ plock[Home[o.w]] = Free
              /\ plock' = [plock EXCEPT ![Home[o.w]] = c]
              /\ wlock' = wlock
         ELSE /\ wlock[o.w] = Free
              /\ wlock' = [wlock EXCEPT ![o.w] = c]
              /\ plock' = plock
  BY DEF Lock
<1>3. /\ o.locks = <<"project">> =>
           Tail(o.locks) = <<>> /\ Head(o.locks) = "project"
      /\ o.locks = <<"worktree">> =>
           Tail(o.locks) = <<>> /\ Head(o.locks) = "worktree"
      /\ o.locks = <<"project", "worktree">> =>
           Tail(o.locks) = <<"worktree">> /\ Head(o.locks) = "project"
  BY LockListFacts
<1>4. Tail(o.locks) \in LockLists
  BY <1>1, <1>2, <1>3 DEF LockLists
<1>5. /\ r \in Requests /\ r.locks = Tail(o.locks) /\ r.op = o.op
      /\ r.w = o.w /\ r.step = o.step /\ r.s = o.s /\ r.permit = o.permit
  BY <1>1, <1>4 DEF Requests
<1>6. o.op # "idle"
  BY <1>1, <1>2 DEF WellFormed, Pending
<1> HIDE DEF r
<1>7. Pending(r)
  BY <1>1, <1>2, <1>3, <1>5, <1>6 DEF WellFormed, Pending, LockLists
<1>8. WellFormed(r)
  BY <1>1, <1>2, <1>5, <1>7 DEF WellFormed
<1>9. CASE Head(o.locks) = "project"
  <2>0. o.locks = <<"project">> \/ o.locks = <<"project", "worktree">>
    BY <1>1, <1>2, <1>3, <1>9 DEF LockLists
  <2>a. ~HoldsProject(o)
    BY <2>0 DEF HoldsProject
  <2>b. ASSUME o.locks = <<"project">> PROVE ~HoldsWorktree(r)
    <3>1. <<"project">> # <<"worktree">> /\ <<"project">> # <<>>
          /\ <<"project">> # <<"project", "worktree">>
      OBVIOUS
    <3>2. o.op \notin {"CreateSession", "ResumeSession", "RemoveWorktree"}
      BY <1>1, <2>b, <3>1 DEF WellFormed, Pending
    <3> QED BY <1>5, <3>2 DEF HoldsWorktree
  <2>c. ASSUME o.locks = <<"project", "worktree">> PROVE ~HoldsWorktree(r)
    <3>1. <<"worktree">> # <<>>
      OBVIOUS
    <3> QED BY <1>3, <1>5, <2>c, <3>1 DEF HoldsWorktree
  <2>1. ~HoldsProject(o) /\ ~HoldsWorktree(r)
    BY <2>0, <2>a, <2>b, <2>c
  <2> QED BY <1>2, <1>5, <1>6, <1>8, <1>9, <2>1
<1>10. CASE Head(o.locks) # "project"
  <2>1. o.locks = <<"worktree">>
    BY <1>1, <1>2, <1>3, <1>10 DEF LockLists
  <2>2. HoldsProject(r) => HoldsProject(o)
    BY <1>5, <2>1 DEF HoldsProject
  <2> QED BY <1>2, <1>5, <1>6, <1>8, <1>10, <2>2
<1> QED BY <1>9, <1>10

(* Requests stay well formed and hold the locks they are past.             *)
LEMMA RequestsKeep ==
    ASSUME Inv, Next
    PROVE  RequestsAreSound' /\ Guarded'
<1>1. /\ req \in [Clients -> Requests]
      /\ \A c \in Clients : WellFormed(req[c])
      /\ plock \in [Projects -> Clients \cup {Free}]
      /\ wlock \in [Checkouts -> Clients \cup {Free}]
      /\ \A c \in Clients :
           /\ HoldsProject(req[c]) => plock[Home[req[c].w]] = c
           /\ HoldsWorktree(req[c]) => wlock[req[c].w] = c
  BY DEF Inv, RequestsAreSound, Guarded
<1>2. \A c \in Clients : HoldsProject(req[c]) \/ HoldsWorktree(req[c]) =>
        req[c].w \in Checkouts /\ Home[req[c].w] \in Projects
  BY <1>1, WorkbenchAssumption
  DEF WellFormed, HoldsProject, HoldsWorktree, Requested
<1>3. CASE LocksKept
  BY <1>3 DEF LocksKept, Inv, RequestsAreSound, Guarded
<1>4. CASE Crash
  <2>1. /\ req' = [c \in Clients |-> Idle]
        /\ plock' = [p \in Projects |-> Free]
        /\ wlock' = [w \in Checkouts |-> Free]
    BY <1>4 DEF Crash
  <2> QED BY <2>1, IdleFacts DEF RequestsAreSound, Guarded
<1>5. ASSUME NEW c \in Clients, NEW op \in Requested, NEW w \in Checkouts,
             NEW s \in Sessions \cup {NoSession}, Submit(c, op, w, s)
      PROVE  RequestsAreSound' /\ Guarded'
  <2> DEFINE r == Submitted(op, w, s)
  <2>1. req' = [req EXCEPT ![c] = r] /\ UNCHANGED <<plock, wlock>>
    BY <1>5 DEF Submit, Submitted
  <2>2. /\ r \in Requests /\ WellFormed(r)
        /\ ~HoldsProject(r) /\ ~HoldsWorktree(r)
    BY <1>5, SubmittedFacts DEF Submit
  <2> HIDE DEF r
  <2> QED BY <1>1, <2>1, <2>2 DEF RequestsAreSound, Guarded
<1>6. ASSUME NEW c \in Clients, Lock(c)
      PROVE  RequestsAreSound' /\ Guarded'
  <2>1. PICK r \in Requests :
          /\ req' = [req EXCEPT ![c] = r]
          /\ WellFormed(r)
          /\ r.op = req[c].op /\ r.w = req[c].w
          /\ r.op # "idle"
          /\ \/ /\ plock[Home[r.w]] = Free
                /\ plock' = [plock EXCEPT ![Home[r.w]] = c]
                /\ wlock' = wlock
                /\ ~HoldsProject(req[c]) /\ ~HoldsWorktree(r)
             \/ /\ wlock[r.w] = Free
                /\ wlock' = [wlock EXCEPT ![r.w] = c]
                /\ plock' = plock
                /\ HoldsProject(r) => HoldsProject(req[c])
    BY <1>6, LockFacts DEF Inv
  <2>2. r.w \in Checkouts /\ Home[r.w] \in Projects
    BY <2>1, WorkbenchAssumption DEF WellFormed
  <2>3. RequestsAreSound'
    BY <1>1, <2>1 DEF RequestsAreSound
  <2>4. /\ plock' \in [Projects -> Clients \cup {Free}]
        /\ wlock' \in [Checkouts -> Clients \cup {Free}]
    BY <1>1, <2>1, <2>2
  <2>5. ASSUME NEW d \in Clients
        PROVE  /\ HoldsProject(req'[d]) => plock'[Home[req'[d].w]] = d
               /\ HoldsWorktree(req'[d]) => wlock'[req'[d].w] = d
    <3>1. CASE d = c
      BY <1>1, <2>1, <2>2, <3>1
    <3>2. CASE d # c
      <4>1. req'[d] = req[d]
        BY <1>1, <2>1, <3>2
      <4>2. d # Free
        BY WorkbenchAssumption
      <4> QED BY <1>1, <1>2, <2>1, <2>2, <4>1, <4>2
    <3> QED BY <3>1, <3>2
  <2> QED BY <2>3, <2>4, <2>5 DEF Guarded
<1>7. ASSUME NEW c \in Clients, Moves(c)
      PROVE  RequestsAreSound' /\ Guarded'
  <2>1. PICK r \in Requests :
          /\ req' = [req EXCEPT ![c] = r] /\ WellFormed(r)
          /\ r.op = req[c].op /\ r.w = req[c].w /\ r.locks = req[c].locks
          /\ UNCHANGED <<plock, wlock>>
    BY <1>7 DEF Moves
  <2>2. /\ HoldsProject(r) => HoldsProject(req[c])
        /\ HoldsWorktree(r) => HoldsWorktree(req[c])
    BY <2>1 DEF HoldsProject, HoldsWorktree
  <2> QED BY <1>1, <2>1, <2>2 DEF RequestsAreSound, Guarded
<1>8. ASSUME NEW c \in Clients, Returns(c)
      PROVE  RequestsAreSound' /\ Guarded'
  <2>1. /\ req' = [req EXCEPT ![c] = Idle]
        /\ plock' = [p \in Projects |-> IF plock[p] = c THEN Free ELSE plock[p]]
        /\ wlock' = [w \in Checkouts |-> IF wlock[w] = c THEN Free ELSE wlock[w]]
    BY <1>8 DEF Returns
  <2>2. RequestsAreSound'
    BY <1>1, <2>1, IdleFacts DEF RequestsAreSound
  <2>3. /\ plock' \in [Projects -> Clients \cup {Free}]
        /\ wlock' \in [Checkouts -> Clients \cup {Free}]
    BY <1>1, <2>1
  <2>4. ASSUME NEW d \in Clients
        PROVE  /\ HoldsProject(req'[d]) => plock'[Home[req'[d].w]] = d
               /\ HoldsWorktree(req'[d]) => wlock'[req'[d].w] = d
    <3>1. CASE d = c
      BY <1>1, <2>1, <3>1, IdleFacts
    <3>2. CASE d # c
      BY <1>1, <1>2, <2>1, <3>2
    <3> QED BY <3>1, <3>2
  <2> QED BY <2>2, <2>3, <2>4 DEF Guarded
<1> QED BY <1>3, <1>4, <1>5, <1>6, <1>7, <1>8, StepKinds

----------------------------------------------------------------------------
(* Which steps change the rows and which the Sessions.                     *)

(* Only these change a row or a Work Source.                               *)
LEMMA RowSteps ==
    ASSUME Next
    PROVE  \/ UNCHANGED <<row, source>>
           \/ \E r \in Roots : AddProject(r)
           \/ \E c \in Clients : Record(c) \/ Mark(c) \/ RemoveProject(c)
           \/ Boot
BY ZenonT(120) DEF Next, Advance, Submit, Lock, Answer, CheckCreate, AddCheckout, AddFails,
       RecordFails, CheckCreateSession, CheckRetry, CheckResume, Insert, Spawn,
       SpawnFails, CheckRemove, RemoveCheckout, MarkFails, Inspect,
       DeleteSession, Exit, Announce, Edit, Crash, data

(* Only these change a Session, a link or what is cut.                     *)
LEMMA SessionSteps ==
    ASSUME Next
    PROVE  \/ UNCHANGED <<session, links, cut>>
           \/ \E c \in Clients : Insert(c) \/ Spawn(c)
           \/ \E c \in Clients, recorded \in BOOLEAN : SpawnFails(c, recorded)
           \/ \E s \in Sessions : DeleteSession(s) \/ Exit(s)
           \/ \E s \in Sessions, k \in Conversations,
                 how \in {"established", "cleared", "resumed"} :
                   Announce(s, k, how)
           \/ Boot
BY ZenonT(120) DEF Next, Advance, Submit, Lock, Answer, CheckCreate, AddCheckout, AddFails,
       Record, RecordFails, CheckCreateSession, CheckRetry, CheckResume,
       CheckRemove, RemoveCheckout, Mark, MarkFails, RemoveProject, Inspect,
       AddProject, Edit, Crash, data

(* Insert writes the row of n, with the conversation k, for the request.   *)
Inserts(c, n, k) ==
    /\ session[n] = NoRow
    /\ session' = [session EXCEPT ![n] =
         [w |-> req[c].w, lifecycle |-> "starting", conversation |-> k]]
    /\ session' \in [Sessions -> SessionRows]
    /\ req[c].op \in Launches /\ req[c].locks = <<>>
    /\ req[c].step = "launch" /\ req[c].w \in Checkouts
    /\ req' = [req EXCEPT ![c].step = "spawn", ![c].s = n]
    /\ req'[c].step = "spawn" /\ req'[c].s = n
    /\ HasRow(req[c].w)
    /\ IF req[c].op = "ResumeSession"
       THEN /\ Eligible(req[c].s, req[c].w)
            /\ req[c].s \in Sessions
            /\ k = session[req[c].s].conversation
            /\ links' = links \cup {<<req[c].s, n>>}
       ELSE k = NoConversation /\ links' = links

(* What an Insert does.                                                    *)
LEMMA InsertFacts ==
    ASSUME Inv, NEW c \in Clients, Insert(c)
    PROVE  \E n \in Sessions, k \in Conversations \cup {NoConversation} :
             Inserts(c, n, k)
<1> DEFINE n == CHOOSE s \in Unborn : TRUE
           k == IF req[c].op = "ResumeSession"
                THEN session[req[c].s].conversation ELSE NoConversation
           x == [w |-> req[c].w, lifecycle |-> "starting", conversation |-> k]
<1>1. n \in Sessions /\ session[n] = NoRow
  BY DEF Insert, Unborn
<1>2. /\ req[c].locks = <<>> /\ req[c].step = "launch" /\ HasRow(req[c].w)
      /\ req[c].op = "ResumeSession" => Eligible(req[c].s, req[c].w)
      /\ session' = [session EXCEPT ![n] = x]
      /\ links' = IF req[c].op = "ResumeSession"
                  THEN links \cup {<<req[c].s, n>>} ELSE links
      /\ req' = [req EXCEPT ![c].step = "spawn", ![c].s = n]
  BY DEF Insert, At, Linked
<1> HIDE DEF n
<1>3. req[c].op = "ResumeSession" => req[c].s \in Sessions
  BY <1>2 DEF Inv, LaunchedVerified
<1>4. req \in [Clients -> Requests] /\ WellFormed(req[c])
  BY DEF Inv, RequestsAreSound
<1>5. req[c].op \in Launches /\ req[c].w \in Checkouts
  BY <1>2, <1>4 DEF WellFormed, Launches
<1>6. k \in Conversations \cup {NoConversation}
  BY <1>3 DEF Inv, DataType, SessionRows
<1>7. IF req[c].op = "ResumeSession" THEN k = session[req[c].s].conversation
      ELSE k = NoConversation
  OBVIOUS
<1> HIDE DEF k
<1>8. x \in SessionRows
  BY <1>5, <1>6 DEF SessionRows
<1>9. session' \in [Sessions -> SessionRows]
  BY <1>1, <1>2, <1>8 DEF Inv, DataType
<1>10. req'[c].step = "spawn" /\ req'[c].s = n
  BY <1>2, <1>4 DEF Requests
<1>11. Inserts(c, n, k)
  BY <1>1, <1>2, <1>3, <1>5, <1>7, <1>9, <1>10 DEF Inserts
<1> QED BY <1>1, <1>6, <1>11

(* The checkouts of Work Sources are finitely many.                        *)
LEMMA SourcesAreFinite ==
    ASSUME DataType
    PROVE  /\ IsFiniteSet(ActiveSources)
           /\ Cardinality(ActiveSources) \in Nat
<1>1. ActiveSources \subseteq Worktrees
  BY DEF ActiveSources, DataType
<1> QED BY <1>1, WorkbenchAssumption, FS_Subset, FS_CardinalityType

(* Rows, checkouts and counters keep their types.                          *)
LEMMA TypesKeep == ASSUME Inv, Next PROVE DataType' /\ CountType'
<1>1. DataType /\ CountType
  BY DEF Inv
<1>2. row' \in [Checkouts -> RowStates] /\ source' \subseteq Worktrees
  <2>1. CASE UNCHANGED <<row, source>>
    BY <1>1, <2>1 DEF DataType
  <2>2. ASSUME NEW r \in Roots, AddProject(r)
        PROVE  row' \in [Checkouts -> RowStates] /\ source' \subseteq Worktrees
    BY <1>1, <2>2 DEF DataType, AddProject, RowStates, Checkouts
  <2>3. ASSUME NEW c \in Clients, Record(c)
        PROVE  row' \in [Checkouts -> RowStates] /\ source' \subseteq Worktrees
    <3>1. req[c].w \in Worktrees
      BY <2>3 DEF Inv, RequestsAreSound, WellFormed, Record, At, Creates
    <3> QED BY <1>1, <2>3, <3>1 DEF DataType, Record, RowStates, Checkouts
  <2>4. ASSUME NEW c \in Clients, Mark(c)
        PROVE  row' \in [Checkouts -> RowStates] /\ source' \subseteq Worktrees
    BY <1>1, <2>4 DEF DataType, Mark, RowStates
  <2>5. ASSUME NEW c \in Clients, RemoveProject(c)
        PROVE  row' \in [Checkouts -> RowStates] /\ source' \subseteq Worktrees
    BY <1>1, <2>5 DEF DataType, RemoveProject, RowStates
  <2>6. CASE Boot
    BY <1>1, <2>6 DEF DataType, Boot, RowStates
  <2> QED BY <2>1, <2>2, <2>3, <2>4, <2>5, <2>6, RowSteps
<1>3. session' \in [Sessions -> SessionRows] /\ links' \subseteq Sessions \X Sessions
  <2> DEFINE Goal == /\ session' \in [Sessions -> SessionRows]
                     /\ links' \subseteq Sessions \X Sessions
  <2>1. CASE UNCHANGED <<session, links, cut>>
    BY <1>1, <2>1 DEF DataType
  <2>2. ASSUME NEW c \in Clients, Insert(c) PROVE Goal
    <3>1. PICK n \in Sessions, k \in Conversations \cup {NoConversation} :
            Inserts(c, n, k)
      BY <2>2, InsertFacts
    <3> QED BY <1>1, <3>1 DEF DataType, Inserts
  <2>3. ASSUME NEW s \in Sessions, NEW l \in {"running", "ended", "deleted"},
               session' = [session EXCEPT ![s].lifecycle = l]
        PROVE  session' \in [Sessions -> SessionRows]
    <3>1. [session[s] EXCEPT !.lifecycle = l] \in SessionRows
      BY <1>1 DEF DataType, SessionRows
    <3> QED BY <1>1, <2>3, <3>1 DEF DataType
  <2>4. ASSUME NEW c \in Clients, Spawn(c) PROVE Goal
    <3>1. req[c].s \in Sessions
      BY <2>4 DEF Inv, RequestsAreSound, WellFormed, Spawn, At
    <3> QED BY <1>1, <2>3, <2>4, <3>1 DEF DataType, Spawn
  <2>5. ASSUME NEW c \in Clients, NEW recorded \in BOOLEAN,
               SpawnFails(c, recorded)
        PROVE  Goal
    <3>1. req[c].s \in Sessions
      BY <2>5 DEF Inv, RequestsAreSound, WellFormed, SpawnFails, At
    <3> QED BY <1>1, <2>3, <2>5, <3>1 DEF DataType, SpawnFails
  <2>6. ASSUME NEW s \in Sessions, DeleteSession(s) \/ Exit(s) PROVE Goal
    BY <1>1, <2>3, <2>6 DEF DataType, DeleteSession, Exit
  <2>7. ASSUME NEW s \in Sessions, NEW k \in Conversations, NEW how,
               Announce(s, k, how)
        PROVE  Goal
    <3>1. [session[s] EXCEPT !.conversation = k] \in SessionRows
      BY <1>1 DEF DataType, SessionRows
    <3> QED BY <1>1, <2>7, <3>1 DEF DataType, Announce
  <2>8. CASE Boot
    <3>1. \A s \in Sessions :
            [session[s] EXCEPT !.lifecycle = "ended"] \in SessionRows
      BY <1>1 DEF DataType, SessionRows
    <3> QED BY <1>1, <2>8, <3>1 DEF DataType, Boot
  <2> QED BY <2>1, <2>2, <2>4, <2>5, <2>6, <2>7, <2>8, SessionSteps
<1>4. /\ disk' \in [Checkouts -> {"absent", "clean", "ignored", "changed"}]
      /\ up' \in BOOLEAN /\ live' \subseteq Sessions
  <2>1. CASE UNCHANGED <<disk, up, live>>
    BY <1>1, <2>1 DEF DataType
  <2>2. ASSUME NEW c \in Clients,
               \/ \E verified \in BOOLEAN : AddCheckout(c, verified)
               \/ Spawn(c) \/ RemoveCheckout(c)
        PROVE  /\ disk' \in [Checkouts ->
                              {"absent", "clean", "ignored", "changed"}]
               /\ up' \in BOOLEAN /\ live' \subseteq Sessions
    <3>1. Spawn(c) => req[c].s \in Sessions
      BY DEF Inv, RequestsAreSound, WellFormed, Spawn, At
    <3> QED BY <1>1, <2>2, <3>1
            DEF DataType, AddCheckout, Spawn, RemoveCheckout
  <2>3. CASE Crash \/ Boot
    BY <1>1, <2>3 DEF DataType, Crash, Boot
  <2>4. ASSUME NEW s \in Sessions, Exit(s)
        PROVE  /\ disk' \in [Checkouts ->
                              {"absent", "clean", "ignored", "changed"}]
               /\ up' \in BOOLEAN /\ live' \subseteq Sessions
    BY <1>1, <2>4 DEF DataType, Exit
  <2>5. ASSUME NEW w \in Checkouts,
               NEW to \in {"clean", "ignored", "changed", "absent"}, Edit(w, to)
        PROVE  /\ disk' \in [Checkouts ->
                              {"absent", "clean", "ignored", "changed"}]
               /\ up' \in BOOLEAN /\ live' \subseteq Sessions
    BY <1>1, <2>5 DEF DataType, Edit, memory
  <2>6. \/ UNCHANGED <<disk, up, live>> \/ Crash \/ Boot
        \/ \E c \in Clients :
             \/ \E verified \in BOOLEAN : AddCheckout(c, verified)
             \/ Spawn(c) \/ RemoveCheckout(c)
        \/ \E s \in Sessions : Exit(s)
        \/ \E w \in Checkouts,
              to \in {"clean", "ignored", "changed", "absent"} : Edit(w, to)
    BY ZenonT(120) DEF Next, Advance, Submit, Lock, Answer, CheckCreate, AddFails, Record,
           RecordFails, CheckCreateSession, CheckRetry, CheckResume, Insert,
           SpawnFails, CheckRemove, Mark, MarkFails, RemoveProject, Inspect,
           AddProject, DeleteSession, Announce, memory
  <2> QED BY <2>1, <2>2, <2>3, <2>4, <2>5, <2>6
<1>5. CountType'
  <2>1. ASSUME NEW kind \in {"requests", "edits", "switches", "boots", "faults"},
               Tally(kind)
        PROVE  count' \in [requests : Nat, edits : Nat, switches : Nat,
                           boots : Nat, faults : Nat]
    BY <1>1, <2>1 DEF CountType, Tally
  <2>2. count' \in [requests : Nat, edits : Nat, switches : Nat,
                    boots : Nat, faults : Nat]
    <3>1. count' = count \/ Tally("requests") \/ Tally("edits")
            \/ Tally("switches") \/ Tally("boots") \/ Tally("faults")
      BY ZenonT(120) DEF Next, Advance, Submit, Lock, Answer, CheckCreate, AddCheckout,
             AddFails, Record, RecordFails, CheckCreateSession, CheckRetry,
             CheckResume, Insert, Spawn, SpawnFails, CheckRemove,
             RemoveCheckout, Mark, MarkFails, RemoveProject, Inspect,
             AddProject, DeleteSession, Exit, Announce, Edit, Crash, Boot
    <3> QED BY <1>1, <2>1, <3>1 DEF CountType
  <2>3. permits' \in Nat /\ excess' \in Nat
    <3>1. permits \in Nat /\ excess \in Nat /\ Capacity \in Nat
          /\ Cardinality(ActiveSources) \in Nat
      BY <1>1, SourcesAreFinite, WorkbenchAssumption DEF CountType
    <3>2. CASE Crash \/ Boot
      BY <3>1, <3>2 DEF Crash, Boot, Minus
    <3>3. ASSUME NEW c \in Clients, Advance(c)
          PROVE  permits' \in Nat /\ excess' \in Nat
      <4>1. CASE UNCHANGED <<permits, excess>>
        BY <3>1, <4>1
      <4>2. CASE CheckCreate(c)
        BY <3>1, <4>2 DEF CheckCreate
      <4>3. CASE PermitReturns(c) /\ excess' = excess
        BY <3>1, <4>3 DEF PermitReturns
      <4>4. CASE Mark(c)
        BY <3>1, <4>4 DEF Mark, CapacityReturns
      <4>5. \/ UNCHANGED <<permits, excess>> \/ CheckCreate(c) \/ Mark(c)
            \/ PermitReturns(c) /\ excess' = excess
        BY <3>3
        DEF Advance, Lock, Answer, AddCheckout, AddFails, Record, RecordFails,
            CheckCreateSession, CheckRetry, CheckResume, Insert, Spawn,
            SpawnFails, CheckRemove, RemoveCheckout, MarkFails, RemoveProject
      <4> QED BY <4>1, <4>2, <4>3, <4>4, <4>5
    <3>4. CASE ~(\E c \in Clients : Advance(c)) /\ ~Crash /\ ~Boot
      <4>1. UNCHANGED <<permits, excess>>
        BY <3>4 DEF Next, Submit, Inspect, AddProject, DeleteSession, Exit,
                    Announce, Edit, memory
      <4> QED BY <3>1, <4>1
    <3> QED BY <3>2, <3>3, <3>4
  <2> QED BY <2>2, <2>3 DEF CountType
<1> QED BY <1>2, <1>3, <1>4, <1>5 DEF DataType

----------------------------------------------------------------------------
(* What a step makes of one request.                                       *)

GoesOn(d) ==
    /\ req'[d].op = req[d].op /\ req'[d].w = req[d].w
    /\ req[d].op # "idle"
    /\ \/ req'[d].step = req[d].step /\ req'[d].s = req[d].s
          /\ req'[d].permit = req[d].permit
       \/ /\ req'[d].step \notin {"idle", "check"}
          /\ req'[d].step \in {"add", "record"} =>
               req[d].step \in {"check", "add"}

IsSubmitted(d) ==
    \E op \in Requested, w \in Checkouts, s \in Sessions \cup {NoSession} :
        Submit(d, op, w, s) /\ req'[d] = Submitted(op, w, s)

(* A step leaves a request where it is, ends it, submits it or moves it on. *)
LEMMA OneRequest ==
    ASSUME Inv, Next, NEW d \in Clients
    PROVE  req'[d] = req[d] \/ req'[d] = Idle \/ IsSubmitted(d) \/ GoesOn(d)
<1>1. /\ req \in [Clients -> Requests]
      /\ \A c \in Clients : WellFormed(req[c])
  BY DEF Inv, RequestsAreSound
<1>2. CASE LocksKept
  BY <1>2 DEF LocksKept
<1>3. CASE Crash
  BY <1>3 DEF Crash
<1>4. ASSUME NEW c \in Clients, NEW op \in Requested, NEW w \in Checkouts,
             NEW s \in Sessions \cup {NoSession}, Submit(c, op, w, s)
      PROVE  req'[d] = req[d] \/ IsSubmitted(d)
  <2>1. req' = [req EXCEPT ![c] = Submitted(op, w, s)]
    BY <1>4 DEF Submit, Submitted
  <2> QED BY <1>1, <1>4, <2>1 DEF IsSubmitted
<1>5. ASSUME NEW c \in Clients, Lock(c)
      PROVE  req'[d] = req[d] \/ GoesOn(d)
  <2>1. PICK r \in Requests :
          /\ req' = [req EXCEPT ![c] = r]
          /\ r.op = req[c].op /\ r.w = req[c].w /\ r.step = req[c].step
          /\ r.s = req[c].s /\ r.permit = req[c].permit
          /\ r.op # "idle"
    BY <1>5, LockFacts DEF Inv
  <2> QED BY <1>1, <2>1 DEF GoesOn
<1>6. ASSUME NEW c \in Clients, Moves(c)
      PROVE  req'[d] = req[d] \/ GoesOn(d)
  <2>1. PICK r \in Requests :
          /\ req' = [req EXCEPT ![c] = r] /\ WellFormed(r)
          /\ r.op = req[c].op /\ r.w = req[c].w
          /\ r.step \notin {"idle", "check"}
          /\ r.step \in {"add", "record"} => req[c].step \in {"check", "add"}
    BY <1>6 DEF Moves
  <2>2. r.op # "idle"
    BY <2>1 DEF WellFormed
  <2> QED BY <1>1, <2>1, <2>2 DEF GoesOn
<1>7. ASSUME NEW c \in Clients, Returns(c)
      PROVE  req'[d] = req[d] \/ req'[d] = Idle
  BY <1>1, <1>7 DEF Returns
<1> QED BY <1>2, <1>3, <1>4, <1>5, <1>6, <1>7, StepKinds

(* Two requests that need the same lock are not both past it.              *)
LEMMA Exclusion ==
    ASSUME Inv, NEW c \in Clients, NEW d \in Clients
    PROVE  /\ HoldsProject(req[c]) /\ HoldsProject(req[d])
              /\ Home[req[c].w] = Home[req[d].w] => c = d
           /\ HoldsWorktree(req[c]) /\ HoldsWorktree(req[d])
              /\ req[c].w = req[d].w => c = d
BY DEF Inv, Guarded

(* A request is submitted for a checkout that exists, or for a new one.    *)
LEMMA SubmitNames ==
    ASSUME Inv, NEW d \in Clients, NEW op \in Requested, NEW w \in Checkouts,
           NEW s \in Sessions \cup {NoSession}, Submit(d, op, w, s)
    PROVE  IF op \in Creates
           THEN row[w] = "none" /\ \A c \in Clients : req[c].w # w
           ELSE HasRow(w)
<1>1. Names(op, w, s)
  BY DEF Submit
<1>2. \A t \in Sessions : Exists(t) => HasRow(session[t].w)
  BY DEF Inv, SessionsFit
<1> QED BY <1>1, <1>2 DEF Names, Creates, Fresh, Requested

(* A checkout that is being created stays without a row until its request  *)
(* records it.                                                             *)
LEMMA CreatedAloneKeeps == ASSUME Inv, Next PROVE CreatedAlone'
<1> SUFFICES ASSUME NEW c \in Clients, req'[c].op \in Creates,
                    req'[c].step \in {"check", "add", "record"}
             PROVE  /\ row'[req'[c].w] = "none"
                    /\ \A d \in Clients : d # c => req'[d].w # req'[c].w
  BY DEF CreatedAlone
<1>1. CASE IsSubmitted(c)
  <2>1. PICK op \in Requested, w \in Checkouts,
             s \in Sessions \cup {NoSession} :
          Submit(c, op, w, s) /\ req'[c] = Submitted(op, w, s)
    BY <1>1 DEF IsSubmitted
  <2>a. Names(op, w, s)
    BY <2>1 DEF Submit
  <2>2. req'[c].op = op /\ req'[c].w = w
    <3>0. op \in Requested /\ w \in Checkouts /\ s \in Sessions \cup {NoSession}
      OBVIOUS
    <3>1. Submitted(op, w, s).op = op /\ Submitted(op, w, s).w = w
      BY ONLY <3>0, <2>a, SubmittedFacts
    <3> QED BY <2>1, <3>1
  <2>3. row[w] = "none" /\ \A d \in Clients : req[d].w # w
    BY <2>1, <2>2, SubmitNames
  <2>4. row' = row /\ \A d \in Clients : d # c => req'[d] = req[d]
    BY <2>1 DEF Submit, data, Inv, RequestsAreSound
  <2> QED BY <2>2, <2>3, <2>4
<1>2. CASE ~IsSubmitted(c)
  <2> DEFINE w == req[c].w
  <2>1. /\ req[c].op \in Creates /\ req[c].step \in {"check", "add", "record"}
        /\ req'[c].w = w
    BY <1>2, OneRequest, IdleFacts DEF GoesOn, Creates
  <2>2. /\ row[w] = "none" /\ w \in Worktrees
        /\ \A d \in Clients : d # c => req[d].w # w
    BY <2>1 DEF Inv, CreatedAlone, RequestsAreSound, WellFormed
  <2>3. w \in Checkouts /\ w \notin Roots /\ w # Free
    BY <2>2, WorkbenchAssumption DEF Checkouts
  <2> HIDE DEF w
  <2>4. row'[w] = "none"
    <3>1. row \in [Checkouts -> RowStates]
      BY DEF Inv, DataType
    <3>2. ASSUME NEW r \in Roots, AddProject(r) PROVE row'[w] = "none"
      BY <2>2, <2>3, <3>1, <3>2 DEF AddProject
    <3>3. ASSUME NEW d \in Clients, Record(d) PROVE row'[w] = "none"
      <4>1. d # c
        <5>1. req'[d].step \in {"launch", "idle"}
          BY <3>3, IdleFacts
          DEF Record, Returns, Inv, RequestsAreSound, Requests
        <5> QED BY <5>1
      <4> QED BY <2>2, <2>3, <3>1, <3>3, <4>1 DEF Record
    <3>4. ASSUME NEW d \in Clients, Mark(d) PROVE row'[w] = "none"
      BY <2>2, <2>3, <3>1, <3>4 DEF Mark
    <3>5. ASSUME NEW d \in Clients, RemoveProject(d) PROVE row'[w] = "none"
      BY <2>2, <2>3, <3>5 DEF RemoveProject, HasRow
    <3>6. CASE Boot
      BY <2>2, <2>3, <3>6 DEF Boot, Vanished
    <3> QED BY <2>2, <3>2, <3>3, <3>4, <3>5, <3>6, RowSteps
  <2>5. ASSUME NEW d \in Clients, d # c PROVE req'[d].w # w
    <3>1. CASE IsSubmitted(d)
      <4>1. PICK op \in Requested, v \in Checkouts,
                 s \in Sessions \cup {NoSession} :
              Submit(d, op, v, s) /\ req'[d] = Submitted(op, v, s)
        BY <3>1 DEF IsSubmitted
      <4>a. Names(op, v, s)
        BY <4>1 DEF Submit
      <4>2. req'[d].w = v
        <5>0. op \in Requested /\ v \in Checkouts /\ s \in Sessions \cup {NoSession}
          OBVIOUS
        <5>1. Submitted(op, v, s).w = v
          BY ONLY <5>0, <4>a, SubmittedFacts
        <5> QED BY <4>1, <5>1
      <4> QED BY <2>2, <4>1, <4>2, SubmitNames DEF HasRow, w
    <3>2. CASE ~IsSubmitted(d)
      BY <2>2, <2>3, <2>5, <3>2, OneRequest, IdleFacts DEF GoesOn
    <3> QED BY <3>1, <3>2
  <2> QED BY <2>1, <2>4, <2>5
<1> QED BY <1>1, <1>2

(* What sets a Session's lifecycle to an active one.                       *)
LEMMA RowActivates ==
    ASSUME Inv, Next, NEW s \in Sessions,
           session'[s].lifecycle \in {"starting", "running"}
    PROVE  \/ IsActive(s) /\ session'[s].w = session[s].w /\ ~Boot
           \/ \E c \in Clients :
                /\ Insert(c) /\ session'[s].w = req[c].w
                /\ session[s] = NoRow
<1>1. session \in [Sessions -> SessionRows]
  BY DEF Inv, DataType
<1>2. CASE UNCHANGED <<session, links, cut>> /\ ~Boot
  BY <1>2 DEF IsActive
<1>3. ASSUME NEW c \in Clients, Insert(c)
      PROVE  \/ IsActive(s) /\ session'[s].w = session[s].w /\ ~Boot
             \/ session'[s].w = req[c].w /\ session[s] = NoRow
  <2>1. PICK n \in Sessions, k \in Conversations \cup {NoConversation} :
          Inserts(c, n, k)
    BY <1>3, InsertFacts
  <2>2. ~Boot
    BY <1>3 DEF Insert, Boot, At, Inv, SessionsFit, Idle
  <2> QED BY <1>1, <2>1, <2>2 DEF IsActive, Inserts
<1>4. ASSUME NEW t \in Sessions, NEW l,
             session' = [session EXCEPT ![t].lifecycle = l],
             l \in {"starting", "running"} => session[t].lifecycle = "starting"
      PROVE  IsActive(s) /\ session'[s].w = session[s].w
  <2>1. session'[t].lifecycle = l /\ session'[t].w = session[t].w
    BY <1>1, <1>4 DEF SessionRows
  <2>2. s # t => session'[s] = session[s]
    BY <1>1, <1>4
  <2> QED BY <1>4, <2>1, <2>2 DEF IsActive
<1>5. ASSUME NEW c \in Clients, Spawn(c)
      PROVE  IsActive(s) /\ session'[s].w = session[s].w /\ ~Boot
  <2>1. req[c].s \in Sessions /\ session[req[c].s].lifecycle = "starting"
    BY <1>5 DEF Inv, RequestsAreSound, WellFormed, Spawn, At, SpawnedOnce
  <2>2. ~Boot
    BY <1>5 DEF Spawn, Boot, At, Inv, SessionsFit, Idle
  <2> QED BY <1>4, <1>5, <2>1, <2>2 DEF Spawn
<1>6. ASSUME NEW c \in Clients, NEW recorded \in BOOLEAN,
             SpawnFails(c, recorded)
      PROVE  IsActive(s) /\ session'[s].w = session[s].w /\ ~Boot
  <2>1. req[c].s \in Sessions
    BY <1>6 DEF Inv, RequestsAreSound, WellFormed, SpawnFails, At
  <2>2. ~Boot
    BY <1>6 DEF SpawnFails, Boot, At, Inv, SessionsFit, Idle
  <2> QED BY <1>4, <1>6, <2>1, <2>2 DEF SpawnFails, IsActive
<1>7. ASSUME NEW t \in Sessions, DeleteSession(t) \/ Exit(t)
      PROVE  IsActive(s) /\ session'[s].w = session[s].w /\ ~Boot
  <2>1. ~Boot
    BY <1>7 DEF DeleteSession, Exit, Boot, Inv, SessionsFit
  <2> QED BY <1>4, <1>7, <2>1 DEF DeleteSession, Exit
<1>8. ASSUME NEW t \in Sessions, NEW k \in Conversations, NEW how,
             Announce(t, k, how)
      PROVE  IsActive(s) /\ session'[s].w = session[s].w /\ ~Boot
  <2>1. session' = [session EXCEPT ![t].conversation = k]
    BY <1>8 DEF Announce
  <2>2. session'[s].lifecycle = session[s].lifecycle /\ session'[s].w = session[s].w
    BY <1>1, <2>1 DEF SessionRows
  <2>3. ~Boot
    BY <1>8 DEF Announce, Boot, Inv, SessionsFit
  <2> QED BY <2>2, <2>3 DEF IsActive
<1>9. ~Boot
  <2>1. Boot => session'[s] = IF IsActive(s)
                              THEN [session[s] EXCEPT !.lifecycle = "ended"]
                              ELSE session[s]
    BY DEF Boot
  <2>2. [session[s] EXCEPT !.lifecycle = "ended"].lifecycle = "ended"
    BY <1>1 DEF SessionRows
  <2> QED BY <2>1, <2>2 DEF IsActive
<1> QED BY <1>2, <1>3, <1>5, <1>6, <1>7, <1>8, <1>9, SessionSteps

(* A request that is taken up is checked first, and nothing else changes.  *)
LEMMA TakenUp ==
    ASSUME Inv, NEW d \in Clients, IsSubmitted(d)
    PROVE  /\ req'[d].step = "check" /\ req'[d].permit = FALSE
           /\ req[d] = Idle
<1>1. PICK op \in Requested, w \in Checkouts, s \in Sessions \cup {NoSession} :
        Submit(d, op, w, s) /\ req'[d] = Submitted(op, w, s)
  BY DEF IsSubmitted
<1>2. req[d] = Idle
  BY <1>1 DEF Submit
<1>4. Submitted(op, w, s).step = "check"
  BY DEF Submitted, Idle
<1>5. Submitted(op, w, s).permit = FALSE
  BY DEF Submitted, Idle
<1> QED BY <1>1, <1>2, <1>4, <1>5

(* What a step makes of a request, by the action that does it.             *)
Progress(c) ==
    \/ req'[c] = req[c]
    \/ req'[c] = Idle
    \/ IsSubmitted(c)
    \/ Lock(c) /\ req[c].locks # <<>>
    \/ CheckCreate(c) /\ req'[c].step = "add"
    \/ AddCheckout(c, TRUE) /\ req'[c].step = "record"
    \/ Record(c) /\ req[c].op = "StartWork" /\ req'[c].step = "launch"
    \/ CheckCreateSession(c) /\ req'[c].step = "launch"
    \/ CheckRetry(c) /\ req'[c].step = "launch"
    \/ CheckResume(c) /\ req'[c].step = "launch"
    \/ Insert(c) /\ req'[c].step = "spawn"
    \/ CheckRemove(c) /\ req'[c].step = "remove"
    \/ RemoveCheckout(c) /\ req'[c].step = "mark"

(* Every step of a request is one of its own actions.                      *)
LEMMA ProgressOfOne ==
    ASSUME Inv, Next, NEW c \in Clients
    PROVE  Progress(c)
<1>1. req \in [Clients -> Requests]
  BY DEF Inv, RequestsAreSound
<1>2. ASSUME NEW step, req' = [req EXCEPT ![c].step = step]
      PROVE  req'[c].step = step
  BY <1>1, <1>2 DEF Requests
<1>3. CASE Advance(c)
  <2>1. CASE \/ Answer(c) \/ AddFails(c) \/ RecordFails(c) \/ Spawn(c)
             \/ (\E recorded \in BOOLEAN : SpawnFails(c, recorded))
             \/ Mark(c) \/ MarkFails(c) \/ RemoveProject(c)
             \/ AddCheckout(c, FALSE)
    <3>1. Returns(c)
      BY <2>1
      DEF Answer, AddFails, RecordFails, Spawn, SpawnFails, Mark, MarkFails,
          RemoveProject, AddCheckout
    <3> QED BY <1>1, <3>1 DEF Returns, Progress
  <2>2. CASE Lock(c)
    BY <2>2 DEF Lock, Progress
  <2>3. CASE CheckCreate(c)
    <3>1. req'[c].step = "add"
      BY <1>1, <2>3 DEF CheckCreate, Requests
    <3> QED BY <2>3, <3>1 DEF Progress
  <2>4. CASE AddCheckout(c, TRUE)
    <3>1. req'[c].step = "record"
      BY <1>2, <2>4 DEF AddCheckout, GoesTo
    <3> QED BY <2>4, <3>1 DEF Progress
  <2>5. CASE Record(c)
    <3>1. CASE req[c].op = "StartWork"
      <4>1. req'[c].step = "launch"
        BY <1>1, <2>5, <3>1 DEF Record, Requests
      <4> QED BY <2>5, <3>1, <4>1 DEF Progress
    <3>2. CASE req[c].op # "StartWork"
      BY <1>1, <2>5, <3>2 DEF Record, Returns, Progress
    <3> QED BY <3>1, <3>2
  <2>6. CASE CheckCreateSession(c) \/ CheckRetry(c)
    <3>1. req'[c].step = "launch"
      BY <1>2, <2>6 DEF CheckCreateSession, CheckRetry, GoesTo
    <3> QED BY <2>6, <3>1 DEF Progress
  <2>7. CASE CheckResume(c)
    <3>1. req'[c].step = "launch"
      BY <1>1, <2>7 DEF CheckResume, Requests
    <3> QED BY <2>7, <3>1 DEF Progress
  <2>8. CASE Insert(c)
    <3>1. req'[c].step = "spawn"
      BY <1>1, <2>8 DEF Insert, Requests
    <3> QED BY <2>8, <3>1 DEF Progress
  <2>9. CASE CheckRemove(c)
    <3>1. req'[c].step = "remove"
      BY <1>2, <2>9 DEF CheckRemove, GoesTo
    <3> QED BY <2>9, <3>1 DEF Progress
  <2>10. CASE RemoveCheckout(c)
    <3>1. req'[c].step = "mark"
      BY <1>2, <2>10 DEF RemoveCheckout, GoesTo
    <3> QED BY <2>10, <3>1 DEF Progress
  <2> QED
    BY <1>3, <2>1, <2>2, <2>3, <2>4, <2>5, <2>6, <2>7, <2>8, <2>9, <2>10
    DEF Advance
<1>4. ASSUME NEW d \in Clients, d # c, Advance(d) PROVE req'[c] = req[c]
  <2>1. Lock(d) \/ Moves(d) \/ Returns(d)
    BY <1>4, AdvanceKinds
  <2>2. CASE Lock(d)
    BY <1>1, <1>4, <2>2 DEF Lock
  <2>3. CASE Moves(d)
    BY <1>1, <1>4, <2>3 DEF Moves
  <2>4. CASE Returns(d)
    BY <1>1, <1>4, <2>4 DEF Returns
  <2> QED BY <2>1, <2>2, <2>3, <2>4
<1>5. CASE ~\E d \in Clients : Advance(d)
  <2>1. \/ req' = req \/ req' = [d \in Clients |-> Idle]
        \/ \E d \in Clients, op \in Requested, w \in Checkouts,
              s \in Sessions \cup {NoSession} : Submit(d, op, w, s)
    BY <1>5 DEF Next, Inspect, AddProject, DeleteSession, Exit, Announce,
                Edit, Crash, Boot, memory
  <2>2. ASSUME NEW d \in Clients, NEW op \in Requested, NEW w \in Checkouts,
               NEW s \in Sessions \cup {NoSession}, Submit(d, op, w, s)
        PROVE  req'[c] = req[c] \/ IsSubmitted(c)
    <3>1. req' = [req EXCEPT ![d] = Submitted(op, w, s)]
      BY <2>2 DEF Submit, Submitted
    <3> QED BY <1>1, <2>2, <3>1 DEF IsSubmitted
  <2> QED BY <2>1, <2>2 DEF Progress
<1> QED BY <1>3, <1>4, <1>5 DEF Progress

(* While the daemon is down nothing is under way.                          *)
LEMMA DownIsIdle ==
    ASSUME Inv, ~up
    PROVE  live = {} /\ \A c \in Clients : req[c].step = "idle" /\ req[c].op = "idle"
BY IdleFacts DEF Inv, SessionsFit

(* A launch and a removal of its checkout exclude each other.              *)
LEMMA LaunchExcludesRemoval ==
    ASSUME Inv, NEW c \in Clients, NEW d \in Clients,
           req[c].step \in {"launch", "spawn"},
           req[d].op = "RemoveWorktree", req[d].locks = <<>>,
           req[c].w = req[d].w
    PROVE  FALSE
<1>1. /\ req[c].op \in Launches /\ req[c].locks = <<>> /\ c # d
  BY DEF Inv, RequestsAreSound, WellFormed, Launches
<1>2. HoldsProject(req[d]) /\ HoldsWorktree(req[d])
  BY DEF HoldsProject, HoldsWorktree, Requested
<1>3. HoldsProject(req[c]) \/ HoldsWorktree(req[c])
  BY <1>1 DEF HoldsProject, HoldsWorktree, Requested, Launches
<1> QED BY <1>1, <1>2, <1>3, Exclusion

(* A checkout that is being removed stays unused.                          *)
LEMMA RemovedUnusedKeeps == ASSUME Inv, Next PROVE RemovedUnused'
<1> SUFFICES ASSUME NEW c \in Clients, req'[c].step \in {"remove", "mark"}
             PROVE  /\ req'[c].w \in Worktrees
                    /\ row'[req'[c].w] = "active"
                    /\ \A s \in Sessions :
                         ~(/\ session'[s].lifecycle \in {"starting", "running"}
                           /\ session'[s].w = req'[c].w)
  BY DEF RemovedUnused, ActiveIn, IsActive
<1> DEFINE w == req[c].w
<1>1. ~IsSubmitted(c) /\ req'[c] # Idle
  BY TakenUp, IdleFacts
<1>2. \/ req[c].step \in {"remove", "mark"}
      \/ CheckRemove(c)
  <2>1. Lock(c) /\ req[c].locks # <<>> => req'[c].step = req[c].step
    BY DEF Lock, Inv, RequestsAreSound, Requests
  <2> QED BY <1>1, <2>1, ProgressOfOne DEF Progress, RemoveCheckout, At
<1>3. /\ req[c].op = "RemoveWorktree" /\ req[c].locks = <<>>
      /\ w \in Worktrees /\ row[w] = "active" /\ ActiveIn(w) = {}
  <2>1. CASE CheckRemove(c)
    BY <2>1 DEF CheckRemove, At
  <2>2. CASE req[c].step \in {"remove", "mark"}
    BY <2>2 DEF Inv, RemovedUnused, RequestsAreSound, WellFormed
  <2> QED BY <1>2, <2>1, <2>2
<1>4. req'[c].w = w
  BY <1>1, OneRequest DEF GoesOn
<1>5. w \in Checkouts /\ w \notin Roots
  BY <1>3, WorkbenchAssumption DEF Checkouts
<1>6. up
  BY <1>3, DownIsIdle
<1> HIDE DEF w
<1>7. row'[w] = "active"
  <2>1. row \in [Checkouts -> RowStates]
    BY DEF Inv, DataType
  <2>2. ASSUME NEW r \in Roots, AddProject(r) PROVE row'[w] = "active"
    BY <1>3, <1>5, <2>1, <2>2 DEF AddProject
  <2>3. ASSUME NEW d \in Clients, Record(d) PROVE row'[w] = "active"
    BY <1>3, <1>5, <2>1, <2>3 DEF Record
  <2>4. ASSUME NEW d \in Clients, Mark(d) PROVE row'[w] = "active"
    <3>1. req[d].op = "RemoveWorktree" /\ req[d].locks = <<>>
      BY <2>4 DEF Mark, At
    <3>2. d # c
      BY <1>1, <2>4 DEF Mark, Returns, Inv, RequestsAreSound
    <3>3. HoldsWorktree(req[c]) /\ HoldsWorktree(req[d])
      BY <1>3, <3>1 DEF HoldsWorktree
    <3>4. req[d].w # w
      BY <3>2, <3>3, Exclusion DEF w
    <3> QED BY <1>3, <1>5, <2>1, <2>4, <3>4 DEF Mark
  <2>5. ASSUME NEW d \in Clients, RemoveProject(d) PROVE row'[w] = "active"
    BY <1>3, <1>5, <2>5 DEF RemoveProject, Removable
  <2>6. ~Boot
    BY <1>6 DEF Boot
  <2> QED BY <1>3, <2>2, <2>3, <2>4, <2>5, <2>6, RowSteps
<1>8. ASSUME NEW s \in Sessions,
             session'[s].lifecycle \in {"starting", "running"},
             session'[s].w = w
      PROVE  FALSE
  <2>1. CASE IsActive(s) /\ session'[s].w = session[s].w
    BY <1>3, <1>8, <2>1 DEF ActiveIn
  <2>2. ASSUME NEW d \in Clients, Insert(d), req[d].w = w PROVE FALSE
    <3>1. req[d].step = "launch"
      BY <2>2 DEF Insert, At
    <3> QED BY <1>3, <2>2, <3>1, LaunchExcludesRemoval DEF w
  <2> QED BY <1>8, <2>1, <2>2, RowActivates
<1> QED BY <1>3, <1>4, <1>7, <1>8

(* A row of sessions keeps its checkout, and is never unwritten.           *)
LEMMA SessionRowStays ==
    ASSUME Inv, Next, NEW s \in Sessions, session[s].lifecycle # "none"
    PROVE  session'[s].lifecycle # "none" /\ session'[s].w = session[s].w
<1>1. session \in [Sessions -> SessionRows]
  BY DEF Inv, DataType
<1>2. CASE UNCHANGED <<session, links, cut>>
  BY <1>2
<1>3. ASSUME NEW c \in Clients, Insert(c)
      PROVE  session'[s] = session[s]
  <2>1. PICK n \in Sessions, k \in Conversations \cup {NoConversation} :
          Inserts(c, n, k)
    BY <1>3, InsertFacts
  <2>2. session[n].lifecycle = "none"
    BY <2>1 DEF Inserts, NoRow
  <2> QED BY <1>1, <2>1, <2>2 DEF Inserts
<1>4. ASSUME NEW t \in Sessions, NEW l \in {"running", "ended", "deleted"},
             session' = [session EXCEPT ![t].lifecycle = l]
      PROVE  session'[s].lifecycle # "none" /\ session'[s].w = session[s].w
  <2>1. session'[t].lifecycle = l /\ session'[t].w = session[t].w
    BY <1>1, <1>4 DEF SessionRows
  <2>2. s # t => session'[s] = session[s]
    BY <1>1, <1>4
  <2> QED BY <2>1, <2>2
<1>5. ASSUME NEW c \in Clients,
             Spawn(c) \/ \E recorded \in BOOLEAN : SpawnFails(c, recorded)
      PROVE  session'[s].lifecycle # "none" /\ session'[s].w = session[s].w
  <2>1. req[c].s \in Sessions
    BY <1>5 DEF Inv, RequestsAreSound, WellFormed, Spawn, SpawnFails, At
  <2> QED BY <1>4, <1>5, <2>1 DEF Spawn, SpawnFails
<1>6. ASSUME NEW t \in Sessions, DeleteSession(t) \/ Exit(t)
      PROVE  session'[s].lifecycle # "none" /\ session'[s].w = session[s].w
  BY <1>4, <1>6 DEF DeleteSession, Exit
<1>7. ASSUME NEW t \in Sessions, NEW k \in Conversations, NEW how,
             Announce(t, k, how)
      PROVE  session'[s].lifecycle # "none" /\ session'[s].w = session[s].w
  <2>1. session' = [session EXCEPT ![t].conversation = k]
    BY <1>7 DEF Announce
  <2> QED BY <1>1, <2>1 DEF SessionRows
<1>8. CASE Boot
  <2>1. session'[s] = IF IsActive(s)
                      THEN [session[s] EXCEPT !.lifecycle = "ended"]
                      ELSE session[s]
    BY <1>8 DEF Boot
  <2>2. /\ [session[s] EXCEPT !.lifecycle = "ended"].lifecycle = "ended"
        /\ [session[s] EXCEPT !.lifecycle = "ended"].w = session[s].w
    BY <1>1 DEF SessionRows
  <2> QED BY <2>1, <2>2
<1> QED BY <1>2, <1>3, <1>5, <1>6, <1>7, <1>8, SessionSteps

(* A checkout that was verified for a launch stays until the launch.       *)
LEMMA LaunchedVerifiedKeeps == ASSUME Inv, Next PROVE LaunchedVerified'
<1> SUFFICES ASSUME NEW c \in Clients, req'[c].step = "launch"
             PROVE  /\ req'[c].op = "ResumeSession" =>
                         /\ req'[c].s \in Sessions
                         /\ session'[req'[c].s].lifecycle # "none"
                    /\ \/ /\ req'[c].op = "ResumeSession"
                          /\ session'[req'[c].s].w # req'[c].w
                       \/ row'[req'[c].w] \in {"active", "gone"}
  BY DEF LaunchedVerified
<1>1. req \in [Clients -> Requests] /\ WellFormed(req[c])
  BY DEF Inv, RequestsAreSound
<1>2. ~IsSubmitted(c) /\ req'[c] # Idle
  BY TakenUp, IdleFacts
<1>3. CASE Lock(c) /\ req[c].locks # <<>>
  <2>1. req'[c].step = req[c].step
    BY <1>1, <1>3 DEF Lock, Requests
  <2> QED BY <1>1, <1>3, <2>1 DEF WellFormed
<1>4. CASE Record(c) /\ req[c].op = "StartWork"
  <2>1. req'[c].op = "StartWork" /\ req'[c].w = req[c].w
    BY <1>1, <1>4 DEF Record, Requests
  <2>2. row'[req[c].w] = "active"
    <3>1. row \in [Checkouts -> RowStates] /\ req[c].w \in Checkouts
      BY <1>1, <1>4 DEF Inv, DataType, WellFormed
    <3> QED BY <1>4, <3>1 DEF Record
  <2> QED BY <2>1, <2>2
<1>5. CASE CheckCreateSession(c) \/ CheckRetry(c)
  <2>1. /\ req'[c].op = req[c].op /\ req'[c].w = req[c].w
        /\ req[c].op # "ResumeSession"
    BY <1>1, <1>5 DEF CheckCreateSession, CheckRetry, GoesTo, Requests, At
  <2>2. row' = row /\ row[req[c].w] = "active"
    BY <1>5 DEF CheckCreateSession, CheckRetry, Verified, data
  <2> QED BY <2>1, <2>2
<1>6. CASE CheckResume(c)
  <2>1. PICK leaf \in Sessions :
          /\ AllowsResume(leaf)
          /\ Verified(session[leaf].w)
          /\ req' = [req EXCEPT ![c].step = "launch", ![c].s = leaf]
    BY <1>6 DEF CheckResume
  <2>2. req'[c].s = leaf
    BY <1>1, <2>1 DEF Requests
  <2>3. UNCHANGED <<row, session>>
    BY <1>6 DEF CheckResume, data
  <2>4. session[leaf].lifecycle # "none" /\ row[session[leaf].w] = "active"
    BY <2>1 DEF AllowsResume, Verified
  <2>5. req'[c].op = "ResumeSession"
    BY <1>1, <1>6, <2>1 DEF CheckResume, At, Requests
  <2> QED BY <2>2, <2>3, <2>4, <2>5
<1>7. CASE req'[c] = req[c]
  <2> DEFINE w == req[c].w
             s == req[c].s
  <2>1. /\ req[c].step = "launch" /\ w \in Checkouts
        /\ req[c].op = "ResumeSession" =>
             s \in Sessions /\ session[s].lifecycle # "none"
        /\ \/ req[c].op = "ResumeSession" /\ session[s].w # w
           \/ row[w] \in {"active", "gone"}
    <3>1. req[c].step = "launch"
      BY <1>7
    <3> QED BY <1>1, <3>1 DEF Inv, LaunchedVerified, WellFormed
  <2>2. req[c].op = "ResumeSession" =>
          session'[s].lifecycle # "none" /\ session'[s].w = session[s].w
    BY <2>1, SessionRowStays
  <2>3. ASSUME row[w] \in {"active", "gone"} PROVE row'[w] \in {"active", "gone"}
    <3>1. row \in [Checkouts -> RowStates]
      BY DEF Inv, DataType
    <3>2. ASSUME NEW r \in Roots, AddProject(r)
          PROVE  row'[w] \in {"active", "gone"}
      BY <2>1, <2>3, <3>1, <3>2 DEF AddProject
    <3>3. ASSUME NEW d \in Clients, Record(d)
          PROVE  row'[w] \in {"active", "gone"}
      BY <2>1, <2>3, <3>1, <3>3 DEF Record
    <3>4. ASSUME NEW d \in Clients, Mark(d)
          PROVE  row'[w] \in {"active", "gone"}
      <4>1. req[d].op = "RemoveWorktree" /\ req[d].locks = <<>>
        BY <3>4 DEF Mark, At
      <4>2. req[d].w # w
        BY <2>1, <4>1, LaunchExcludesRemoval
      <4> QED BY <2>1, <2>3, <3>1, <3>4, <4>2 DEF Mark
    <3>5. ASSUME NEW d \in Clients, RemoveProject(d)
          PROVE  row'[w] \in {"active", "gone"}
      BY <2>1, <2>3, <3>5 DEF RemoveProject
    <3>6. ~Boot
      BY <2>1, DownIsIdle DEF Boot
    <3> QED BY <2>3, <3>2, <3>3, <3>4, <3>5, <3>6, RowSteps
  <2> QED BY <1>7, <2>1, <2>2, <2>3
<1> QED
  BY <1>2, <1>3, <1>4, <1>5, <1>6, <1>7, ProgressOfOne DEF Progress

(* The row that a request is about to spawn stays its own.                 *)
LEMMA SpawnedOnceKeeps == ASSUME Inv, Next PROVE SpawnedOnce'
<1>1. /\ req \in [Clients -> Requests] /\ \A c \in Clients : WellFormed(req[c])
      /\ session \in [Sessions -> SessionRows]
  BY DEF Inv, RequestsAreSound, DataType
<1>2. ASSUME NEW c \in Clients, req'[c].step = "spawn"
      PROVE  \/ req'[c] = req[c]
             \/ \E n \in Sessions :
                  /\ Insert(c) /\ req'[c].s = n /\ session[n] = NoRow
                  /\ session'[n].lifecycle = "starting"
                  /\ \A d \in Clients : d # c => req'[d] = req[d]
  <2>1. ~IsSubmitted(c) /\ req'[c] # Idle
    BY <1>2, TakenUp, IdleFacts
  <2>2. ~(Lock(c) /\ req[c].locks # <<>>)
    <3>1. Lock(c) => req'[c].step = req[c].step
      BY <1>1 DEF Lock, Requests
    <3> QED BY <1>1, <1>2, <3>1 DEF WellFormed
  <2>3. CASE Insert(c)
    <3>1. PICK n \in Sessions, k \in Conversations \cup {NoConversation} :
            Inserts(c, n, k)
      BY <2>3, InsertFacts
    <3>2. session'[n].lifecycle = "starting"
      BY <1>1, <3>1 DEF Inserts
    <3>3. \A d \in Clients : d # c => req'[d] = req[d]
      BY <1>1, <3>1 DEF Inserts
    <3> QED BY <2>3, <3>1, <3>2, <3>3 DEF Inserts
  <2> QED BY <1>2, <2>1, <2>2, <2>3, ProgressOfOne DEF Progress
<1>3. \A c \in Clients : req[c].step = "spawn" =>
        /\ req[c].s \in Sessions /\ session[req[c].s].lifecycle = "starting"
        /\ session[req[c].s] # NoRow
  BY <1>1 DEF Inv, SpawnedOnce, WellFormed, NoRow
<1>4. ASSUME NEW c \in Clients, NEW d \in Clients, c # d,
             req'[c].step = "spawn", req'[d].step = "spawn"
      PROVE  req'[c].s # req'[d].s
  <2>1. CASE req'[c] = req[c] /\ req'[d] = req[d]
    BY <1>4, <2>1 DEF Inv, SpawnedOnce
  <2>2. CASE req'[c] # req[c]
    BY <1>2, <1>3, <1>4, <2>2
  <2>3. CASE req'[d] # req[d]
    BY <1>2, <1>3, <1>4, <2>3
  <2> QED BY <2>1, <2>2, <2>3
<1>5. ASSUME NEW c \in Clients, req'[c].step = "spawn"
      PROVE  session'[req'[c].s].lifecycle = "starting"
  <2>1. CASE req'[c] # req[c]
    BY <1>2, <1>5, <2>1
  <2>2. CASE req'[c] = req[c]
    <3> DEFINE s == req[c].s
    <3>1. /\ req[c].step = "spawn" /\ s \in Sessions
          /\ session[s].lifecycle = "starting"
      BY <1>3, <1>5, <2>2
    <3>2. up
      BY <3>1, DownIsIdle
    <3> HIDE DEF s
    <3>3. CASE UNCHANGED <<session, links, cut>>
      BY <2>2, <3>1, <3>3 DEF s
    <3>4. ASSUME NEW d \in Clients, Insert(d)
          PROVE  session'[s].lifecycle = "starting"
      <4>1. PICK n \in Sessions, k \in Conversations \cup {NoConversation} :
              Inserts(d, n, k)
        BY <3>4, InsertFacts
      <4>2. n # s
        BY <3>1, <4>1 DEF Inserts, NoRow
      <4> QED BY <1>1, <3>1, <4>1, <4>2 DEF Inserts
    <3>5. ASSUME NEW d \in Clients,
                 Spawn(d) \/ \E recorded \in BOOLEAN : SpawnFails(d, recorded)
          PROVE  session'[s].lifecycle = "starting"
      <4>1. d # c
        <5>1. req'[d] = Idle
          BY <1>1, <3>5 DEF Spawn, SpawnFails, Returns
        <5> QED BY <1>5, <5>1, IdleFacts
      <4>2. req[d].step = "spawn" /\ req[d].s \in Sessions
        BY <1>3, <3>5 DEF Spawn, SpawnFails, At
      <4>3. req[d].s # s
        BY <3>1, <4>1, <4>2 DEF Inv, SpawnedOnce, s
      <4> QED BY <1>1, <3>1, <3>5, <4>2, <4>3 DEF Spawn, SpawnFails
    <3>6. ASSUME NEW t \in Sessions, DeleteSession(t) \/ Exit(t)
          PROVE  session'[s].lifecycle = "starting"
      <4>1. session[t].lifecycle # "starting"
        BY <3>6 DEF Inv, SessionsFit, DeleteSession, Exit, AllowsResume
      <4>2. t # s
        BY <3>1, <4>1
      <4> QED BY <1>1, <3>1, <3>6, <4>2 DEF DeleteSession, Exit
    <3>7. ASSUME NEW t \in Sessions, NEW k \in Conversations, NEW how,
                 Announce(t, k, how)
          PROVE  session'[s].lifecycle = "starting"
      <4>1. session' = [session EXCEPT ![t].conversation = k]
        BY <3>7 DEF Announce
      <4> QED BY <1>1, <3>1, <4>1 DEF SessionRows
    <3>8. ~Boot
      BY <3>2 DEF Boot
    <3>9. session'[s].lifecycle = "starting"
      BY <3>1, <3>3, <3>4, <3>5, <3>6, <3>7, <3>8, SessionSteps
    <3> QED BY <2>2, <3>9 DEF s
  <2> QED BY <2>1, <2>2
<1> QED BY <1>4, <1>5 DEF SpawnedOnce

----------------------------------------------------------------------------
(* Sessions and their checkouts.                                           *)

(* A Session exists because it did or because it has just been inserted.   *)
LEMMA BecomesExisting ==
    ASSUME Inv, Next, NEW s \in Sessions, Exists(s)'
    PROVE  \/ Exists(s) /\ session'[s].w = session[s].w
           \/ \E c \in Clients :
                /\ Insert(c) /\ HasRow(req[c].w) /\ req[c].w \in Checkouts
                /\ session'[s].w = req[c].w
<1>1. /\ session \in [Sessions -> SessionRows]
      /\ session'[s].lifecycle \in {"starting", "running", "ended"}
  BY DEF Inv, DataType, Exists
<1>2. CASE session[s].lifecycle = "none"
  <2>1. ASSUME NEW t \in Sessions, NEW l, session[t].lifecycle # "none",
               session' = [session EXCEPT ![t].lifecycle = l]
        PROVE  FALSE
    BY <1>1, <1>2, <2>1
  <2>2. ASSUME NEW c \in Clients,
               Spawn(c) \/ \E recorded \in BOOLEAN : SpawnFails(c, recorded)
        PROVE  FALSE
    <3>1. req[c].s \in Sessions /\ session[req[c].s].lifecycle = "starting"
      BY <2>2 DEF Inv, RequestsAreSound, WellFormed, Spawn, SpawnFails, At,
                  SpawnedOnce
    <3>2. session' # session
      BY <1>1, <1>2
    <3> QED BY <2>1, <2>2, <3>1, <3>2 DEF Spawn, SpawnFails
  <2>3. ASSUME NEW t \in Sessions, DeleteSession(t) \/ Exit(t) PROVE FALSE
    <3>1. session[t].lifecycle # "none"
      BY <2>3 DEF Inv, SessionsFit, DeleteSession, Exit, AllowsResume
    <3> QED BY <2>1, <2>3, <3>1 DEF DeleteSession, Exit
  <2>4. ASSUME NEW t \in Sessions, NEW k \in Conversations, NEW how,
               Announce(t, k, how)
        PROVE  FALSE
    <3>1. session' = [session EXCEPT ![t].conversation = k]
      BY <2>4 DEF Announce
    <3> QED BY <1>1, <1>2, <3>1 DEF SessionRows
  <2>5. ~Boot
    BY <1>1, <1>2 DEF Boot, IsActive
  <2>6. session' # session
    BY <1>1, <1>2
  <2>7. \E c \in Clients : Insert(c)
    BY <2>2, <2>3, <2>4, <2>5, <2>6, SessionSteps
  <2>8. PICK c \in Clients : Insert(c)
    BY <2>7
  <2>9. PICK n \in Sessions, k \in Conversations \cup {NoConversation} :
          Inserts(c, n, k)
    BY <2>8, InsertFacts
  <2> QED BY <1>1, <1>2, <2>8, <2>9 DEF Inserts
<1>3. CASE session[s].lifecycle = "deleted"
  <2>1. session'[s] = session[s]
    <3>1. CASE UNCHANGED <<session, links, cut>>
      BY <3>1
    <3>2. ASSUME NEW c \in Clients, Insert(c) PROVE session'[s] = session[s]
      <4>1. PICK n \in Sessions, k \in Conversations \cup {NoConversation} :
              Inserts(c, n, k)
        BY <3>2, InsertFacts
      <4>2. n # s
        BY <1>3, <4>1 DEF Inserts, NoRow
      <4> QED BY <1>1, <4>1, <4>2 DEF Inserts
    <3>3. ASSUME NEW t \in Sessions, NEW l, session[t].lifecycle # "deleted",
                 session' = [session EXCEPT ![t].lifecycle = l]
          PROVE  session'[s] = session[s]
      BY <1>1, <1>3, <3>3
    <3>4. ASSUME NEW c \in Clients,
                 Spawn(c) \/ \E recorded \in BOOLEAN : SpawnFails(c, recorded)
          PROVE  session'[s] = session[s]
      <4>1. req[c].s \in Sessions /\ session[req[c].s].lifecycle = "starting"
        BY <3>4 DEF Inv, RequestsAreSound, WellFormed, Spawn, SpawnFails, At,
                    SpawnedOnce
      <4> QED BY <3>3, <3>4, <4>1 DEF Spawn, SpawnFails
    <3>5. ASSUME NEW t \in Sessions, DeleteSession(t) \/ Exit(t)
          PROVE  session'[s] = session[s]
      <4>1. session[t].lifecycle # "deleted"
        BY <3>5 DEF Inv, SessionsFit, DeleteSession, Exit, AllowsResume
      <4> QED BY <3>3, <3>5, <4>1 DEF DeleteSession, Exit
    <3>6. ASSUME NEW t \in Sessions, NEW k \in Conversations, NEW how,
                 Announce(t, k, how)
          PROVE  session'[s] = session[s]
      <4>1. session' = [session EXCEPT ![t].conversation = k] /\ t # s
        BY <1>3, <3>6 DEF Announce, Inv, SessionsFit
      <4> QED BY <1>1, <4>1
    <3>7. CASE Boot
      BY <1>3, <3>7 DEF Boot, IsActive
    <3> QED BY <3>1, <3>2, <3>4, <3>5, <3>6, <3>7, SessionSteps
  <2> QED BY <1>1, <1>3, <2>1
<1>4. CASE Exists(s)
  BY <1>4, SessionRowStays DEF Exists
<1> QED BY <1>1, <1>2, <1>3, <1>4 DEF Exists, SessionRows

(* What runs has its row, and nothing is under way without the daemon.     *)
LEMMA SessionsFitKeeps == ASSUME Inv, Next PROVE SessionsFit'
<1>1. /\ row \in [Checkouts -> RowStates] /\ session \in [Sessions -> SessionRows]
      /\ live \subseteq Sessions /\ up \in BOOLEAN
      /\ req \in [Clients -> Requests]
  BY DEF Inv, DataType, RequestsAreSound
<1>2. ASSUME NEW s \in Sessions, Exists(s)'
      PROVE  /\ session'[s].w \in Checkouts
             /\ row'[session'[s].w] \in {"active", "missing", "removed"}
  <2>1. CASE Exists(s) /\ session'[s].w = session[s].w
    <3> DEFINE w == session[s].w
    <3>1. w \in Checkouts /\ HasRow(w)
      BY <2>1 DEF Inv, SessionsFit
    <3> HIDE DEF w
    <3>2. row'[w] \in {"active", "missing", "removed"}
      <4>0. row[w] \in {"active", "missing", "removed"}
        BY <3>1 DEF HasRow
      <4>1. ASSUME NEW r \in Roots, AddProject(r)
            PROVE  row'[w] \in {"active", "missing", "removed"}
        BY <1>1, <3>1, <4>0, <4>1 DEF AddProject
      <4>2. ASSUME NEW d \in Clients, Record(d) \/ Mark(d)
            PROVE  row'[w] \in {"active", "missing", "removed"}
        BY <1>1, <3>1, <4>0, <4>2 DEF Record, Mark
      <4>3. ASSUME NEW d \in Clients, RemoveProject(d)
            PROVE  row'[w] \in {"active", "missing", "removed"}
        <5>1. Home[w] # Home[req[d].w]
          BY <2>1, <4>3 DEF RemoveProject, Removable, w
        <5> QED BY <3>1, <4>0, <4>3, <5>1 DEF RemoveProject
      <4>4. CASE Boot
        BY <3>1, <4>0, <4>4 DEF Boot
      <4> QED BY <4>0, <4>1, <4>2, <4>3, <4>4, RowSteps
    <3> QED BY <2>1, <3>1, <3>2 DEF HasRow, w
  <2>2. ASSUME NEW c \in Clients, Insert(c), HasRow(req[c].w),
               req[c].w \in Checkouts, session'[s].w = req[c].w
        PROVE  /\ session'[s].w \in Checkouts
               /\ row'[session'[s].w] \in {"active", "missing", "removed"}
    <3>1. row' = row
      BY <2>2 DEF Insert
    <3> QED BY <2>2, <3>1 DEF HasRow
  <2> QED BY <1>2, <2>1, <2>2, BecomesExisting
<1>3. ASSUME NEW s \in live' PROVE session'[s].lifecycle = "running"
  <2>1. CASE s \in live
    <3>1. session[s].lifecycle = "running" /\ s \in Sessions /\ up
      BY <1>1, <2>1 DEF Inv, SessionsFit
    <3>2. CASE UNCHANGED <<session, links, cut>>
      BY <3>1, <3>2
    <3>3. ASSUME NEW c \in Clients, Insert(c) PROVE session'[s] = session[s]
      <4>1. PICK n \in Sessions, k \in Conversations \cup {NoConversation} :
              Inserts(c, n, k)
        BY <3>3, InsertFacts
      <4>2. n # s
        BY <3>1, <4>1 DEF Inserts, NoRow
      <4> QED BY <1>1, <3>1, <4>1, <4>2 DEF Inserts
    <3>4. ASSUME NEW c \in Clients,
                 Spawn(c) \/ \E recorded \in BOOLEAN : SpawnFails(c, recorded)
          PROVE  session'[s] = session[s]
      <4>1. req[c].s \in Sessions /\ session[req[c].s].lifecycle = "starting"
        BY <3>4 DEF Inv, RequestsAreSound, WellFormed, Spawn, SpawnFails, At,
                    SpawnedOnce
      <4>2. req[c].s # s
        BY <3>1, <4>1
      <4> QED BY <1>1, <3>1, <3>4, <4>1, <4>2 DEF Spawn, SpawnFails
    <3>5. ASSUME NEW t \in Sessions, DeleteSession(t) \/ Exit(t)
          PROVE  session'[s] = session[s]
      <4>1. t # s
        BY <1>3, <2>1, <3>5 DEF DeleteSession, Exit
      <4> QED BY <1>1, <3>1, <3>5, <4>1 DEF DeleteSession, Exit
    <3>6. ASSUME NEW t \in Sessions, NEW k \in Conversations, NEW how,
                 Announce(t, k, how)
          PROVE  session'[s].lifecycle = session[s].lifecycle
      <4>1. session' = [session EXCEPT ![t].conversation = k]
        BY <3>6 DEF Announce
      <4> QED BY <1>1, <3>1, <4>1 DEF SessionRows
    <3>7. ~Boot
      BY <3>1 DEF Boot
    <3> QED BY <3>1, <3>2, <3>3, <3>4, <3>5, <3>6, <3>7, SessionSteps
  <2>2. CASE s \notin live
    <3>1. PICK c \in Clients : Spawn(c)
      <4>1. live' \subseteq live \/ \E c \in Clients : Spawn(c)
        BY ZenonT(120) DEF Next, Advance, Submit, Lock, Answer, CheckCreate, AddCheckout,
               AddFails, Record, RecordFails, CheckCreateSession, CheckRetry,
               CheckResume, Insert, SpawnFails, CheckRemove, RemoveCheckout,
               Mark, MarkFails, RemoveProject, Inspect, AddProject,
               DeleteSession, Exit, Announce, Edit, Crash, Boot, memory
      <4> QED BY <1>3, <2>2, <4>1
    <3>2. s = req[c].s /\ s \in Sessions
      BY <1>3, <2>2, <3>1
      DEF Spawn, At, Inv, RequestsAreSound, WellFormed
    <3>3. session' = [session EXCEPT ![s].lifecycle = "running"]
      BY <3>1, <3>2 DEF Spawn
    <3> QED BY <1>1, <3>2, <3>3 DEF SessionRows
  <2> QED BY <2>1, <2>2
<1>4. ASSUME ~up' PROVE live' = {} /\ \A c \in Clients : req'[c] = Idle
  <2>1. CASE Crash
    BY <2>1 DEF Crash
  <2>2. CASE ~Crash
    <3>1. ~up
      BY <1>4, <2>2, ZenonT(120)
      DEF Next, Advance, Submit, Lock, Answer, CheckCreate, AddCheckout,
          AddFails, Record, RecordFails, CheckCreateSession, CheckRetry,
          CheckResume, Insert, Spawn, SpawnFails, CheckRemove, RemoveCheckout,
          Mark, MarkFails, RemoveProject, Inspect, AddProject, DeleteSession,
          Exit, Announce, Edit, Boot, memory
    <3>2. live = {} /\ \A c \in Clients : req[c] = Idle
      BY <3>1 DEF Inv, SessionsFit
    <3>3. ~\E c \in Clients : Advance(c)
      BY <3>2, IdleFacts, ZenonT(120)
      DEF Advance, Lock, Answer, CheckCreate, AddCheckout, AddFails, Record,
          RecordFails, CheckCreateSession, CheckRetry, CheckResume, Insert,
          Spawn, SpawnFails, CheckRemove, RemoveCheckout, Mark, MarkFails,
          RemoveProject, At, Requested
    <3>4. UNCHANGED <<req, live>>
      BY <1>4, <3>1, <3>2, <3>3
      DEF Next, Submit, Inspect, AddProject, DeleteSession, Exit, Announce,
          Edit, Crash, Boot, memory
    <3> QED BY <3>2, <3>4
  <2> QED BY <2>1, <2>2
<1>5. ASSUME up', NEW s \in Sessions,
             session'[s].lifecycle \in {"starting", "running"}
      PROVE  row'[session'[s].w] = "active"
  <2>1. CASE IsActive(s) /\ session'[s].w = session[s].w /\ ~Boot
    <3> DEFINE w == session[s].w
    <3>0. Exists(s)
      BY <2>1 DEF IsActive, Exists
    <3>1. up
      BY <1>5, <2>1, ZenonT(120)
      DEF Next, Advance, Submit, Lock, Answer, CheckCreate, AddCheckout,
          AddFails, Record, RecordFails, CheckCreateSession, CheckRetry,
          CheckResume, Insert, Spawn, SpawnFails, CheckRemove, RemoveCheckout,
          Mark, MarkFails, RemoveProject, Inspect, AddProject, DeleteSession,
          Exit, Announce, Edit, Crash, memory
    <3>2. row[w] = "active" /\ w \in Checkouts
      BY <2>1, <3>0, <3>1 DEF Inv, SessionsFit, SessionsHaveCheckouts
    <3> HIDE DEF w
    <3>3. ASSUME NEW r \in Roots, AddProject(r) PROVE row'[w] = "active"
      BY <1>1, <3>2, <3>3 DEF AddProject
    <3>4. ASSUME NEW d \in Clients, Record(d) PROVE row'[w] = "active"
      BY <1>1, <3>2, <3>4 DEF Record
    <3>5. ASSUME NEW d \in Clients, Mark(d) PROVE row'[w] = "active"
      <4>1. ActiveIn(req[d].w) = {}
        BY <3>5 DEF Mark, At, Inv, RemovedUnused
      <4>2. req[d].w # w
        BY <2>1, <4>1 DEF ActiveIn, w
      <4> QED BY <1>1, <3>2, <3>5, <4>2 DEF Mark
    <3>6. ASSUME NEW d \in Clients, RemoveProject(d) PROVE row'[w] = "active"
      <4>1. Home[w] # Home[req[d].w]
        BY <3>0, <3>6 DEF RemoveProject, Removable, w
      <4> QED BY <3>2, <3>6, <4>1 DEF RemoveProject
    <3>7. row'[w] = "active"
      BY <2>1, <3>2, <3>3, <3>4, <3>5, <3>6, RowSteps
    <3> QED BY <2>1, <3>7 DEF w
  <2>2. ASSUME NEW c \in Clients, Insert(c), session'[s].w = req[c].w
        PROVE  row'[session'[s].w] = "active"
    <3>1. PICK n \in Sessions, k \in Conversations \cup {NoConversation} :
            Inserts(c, n, k)
      BY <2>2, InsertFacts
    <3>2. /\ HasRow(req[c].w) /\ req[c].step = "launch"
          /\ req[c].op = "ResumeSession" => session[req[c].s].w = req[c].w
      BY <3>1 DEF Inserts, Eligible
    <3>3. row[req[c].w] \in {"active", "gone"}
      BY <3>2 DEF Inv, LaunchedVerified
    <3>4. row[req[c].w] = "active" /\ row' = row
      BY <2>2, <3>2, <3>3 DEF HasRow, Insert
    <3> QED BY <2>2, <3>4
  <2> QED BY <1>5, <2>1, <2>2, RowActivates
<1> QED
  BY <1>2, <1>3, <1>4, <1>5
  DEF SessionsFit, SessionsHaveCheckouts, IsActive, Exists, HasRow

----------------------------------------------------------------------------
(* The capacity for Work Sources.                                          *)

Holders == {c \in Clients : req[c].permit}

(* The permits that are held can be counted.                               *)
LEMMA HoldersAreFinite ==
    /\ IsFiniteSet(Holders) /\ Cardinality(Holders) \in Nat
<1>1. Holders \subseteq Clients
  BY DEF Holders
<1> QED BY <1>1, WorkbenchAssumption, FS_Subset, FS_CardinalityType

(* Only a StartWork between its check and its record holds a permit.       *)
LEMMA HoldsPermit ==
    ASSUME Inv, NEW c \in Clients
    PROVE  c \in Holders <=>
             req[c].op = "StartWork" /\ req[c].step \in {"add", "record"}
BY DEF Inv, RequestsAreSound, WellFormed, Holders

(* A request that is answered holds no permit any more.                    *)
LEMMA ReturnsPermit ==
    ASSUME Inv, NEW c \in Clients, Returns(c)
    PROVE  Holders' = Holders \ {c}
<1>1. req' = [req EXCEPT ![c] = Idle] /\ req \in [Clients -> Requests]
  BY DEF Returns, Inv, RequestsAreSound
<1>2. ~req'[c].permit
  BY <1>1, IdleFacts
<1>3. \A d \in Clients : d # c => req'[d] = req[d]
  BY <1>1
<1> QED BY <1>2, <1>3 DEF Holders

(* The actions of a handler that deal with permits or with rows.           *)
Accounts(c) ==
    \/ CheckCreate(c)
    \/ \E verified \in BOOLEAN : AddCheckout(c, verified)
    \/ AddFails(c)
    \/ Record(c)
    \/ RecordFails(c)
    \/ Mark(c)
    \/ RemoveProject(c)

(* All others leave the permits with whoever has them.                     *)
LEMMA OthersKeepPermits ==
    ASSUME Inv, Next, up, up', ~\E c \in Clients : Accounts(c)
    PROVE  Holders' = Holders /\ UNCHANGED <<permits, excess>>
<1>1. req \in [Clients -> Requests] /\ \A c \in Clients : WellFormed(req[c])
  BY DEF Inv, RequestsAreSound
<1>2. ASSUME NEW c \in Clients PROVE req'[c].permit <=> req[c].permit
  <2>1. CASE Lock(c) /\ req[c].locks # <<>>
    BY <1>1, <2>1 DEF Lock, Requests
  <2>2. CASE CheckCreateSession(c) \/ CheckRetry(c) \/ CheckRemove(c)
             \/ RemoveCheckout(c)
    BY <1>1, <2>2
    DEF CheckCreateSession, CheckRetry, CheckRemove, RemoveCheckout, GoesTo,
        Requests
  <2>3. CASE CheckResume(c)
    <3>1. PICK leaf \in Sessions :
            req' = [req EXCEPT ![c].step = "launch", ![c].s = leaf]
      BY <2>3 DEF CheckResume
    <3> QED BY <1>1, <3>1 DEF Requests
  <2>4. CASE Insert(c)
    BY <1>1, <2>4 DEF Insert, Requests
  <2>5. CASE IsSubmitted(c)
    BY <2>5, TakenUp, IdleFacts
  <2>6. CASE req'[c] = Idle /\ req'[c] # req[c]
    <3>1. Advance(c)
      <4>1. ~Crash
        BY DEF Crash
      <4>2. ASSUME NEW d \in Clients, d # c, Advance(d) PROVE req'[c] = req[c]
        <5>1. Lock(d) \/ Moves(d) \/ Returns(d)
          BY <4>2, AdvanceKinds
        <5>2. CASE Lock(d)
          BY <1>1, <4>2, <5>2 DEF Lock
        <5>3. CASE Moves(d)
          BY <1>1, <4>2, <5>3 DEF Moves
        <5>4. CASE Returns(d)
          BY <1>1, <4>2, <5>4 DEF Returns
        <5> QED BY <5>1, <5>2, <5>3, <5>4
      <4>3. ASSUME NEW d \in Clients, NEW op \in Requested,
                   NEW w \in Checkouts, NEW s \in Sessions \cup {NoSession},
                   Submit(d, op, w, s)
            PROVE  FALSE
        <5>1. req' = [req EXCEPT ![d] = Submitted(op, w, s)]
          BY <4>3 DEF Submit, Submitted
        <5>2. Submitted(op, w, s).step = "check"
          BY DEF Submitted, Idle
        <5> QED BY <1>1, <2>6, <5>1, <5>2, IdleFacts
      <4>4. (\E d \in Clients : Advance(d)) \/ req' = req \/ Crash
            \/ \E d \in Clients, op \in Requested, w \in Checkouts,
                  s \in Sessions \cup {NoSession} : Submit(d, op, w, s)
        BY DEF Next, Inspect, AddProject, DeleteSession, Exit, Announce, Edit,
               Boot, memory
      <4> QED BY <2>6, <4>1, <4>2, <4>3, <4>4
    <3>2. req[c].step \notin {"add", "record"}
      <4>1. Lock(c) => req[c].step \notin {"add", "record"}
        BY <1>1 DEF Lock, WellFormed
      <4> QED
        BY <3>1, <4>1
        DEF Accounts, Advance, Answer, CheckCreateSession, CheckRetry,
            CheckResume, Insert, Spawn, SpawnFails, CheckRemove,
            RemoveCheckout, MarkFails, At
    <3>3. ~req[c].permit
      BY <1>1, <3>2 DEF WellFormed
    <3> QED BY <2>6, <3>3, IdleFacts
  <2> QED
    BY <2>1, <2>2, <2>3, <2>4, <2>5, <2>6, ProgressOfOne
    DEF Progress, Accounts
<1>3. Holders' = Holders
  BY <1>2 DEF Holders
<1>4. UNCHANGED <<permits, excess>>
  BY DEF Next, Advance, Accounts, Submit, Lock, Answer, CheckCreateSession,
         CheckRetry, CheckResume, Insert, Spawn, SpawnFails, CheckRemove,
         RemoveCheckout, MarkFails, Inspect, AddProject, DeleteSession, Exit,
         Announce, Edit, Crash, Boot, memory
<1> QED BY <1>3, <1>4

(* What a handler does to the permits, the rows apart.                     *)
LEMMA AccountedPermits ==
    ASSUME Inv, NEW c \in Clients, Accounts(c)
    PROVE  \/ /\ Holders' = Holders \cup {c} /\ c \notin Holders
              /\ permits' = permits - 1 /\ excess' = excess
              /\ UNCHANGED <<row, source>>
           \/ /\ Holders' = Holders \ {c} /\ c \in Holders
              /\ permits' = permits + 1 /\ excess' = excess
              /\ UNCHANGED <<row, source>>
           \/ /\ Holders' = Holders /\ UNCHANGED <<permits, excess>>
              /\ UNCHANGED <<row, source>>
           \/ Record(c) \/ Mark(c) \/ RemoveProject(c)
<1>1. req \in [Clients -> Requests] /\ WellFormed(req[c])
  BY DEF Inv, RequestsAreSound
<1>2. CASE CheckCreate(c)
  <2>1. req[c].step = "check" /\ UNCHANGED <<row, source, excess>>
    BY <1>2 DEF CheckCreate, At, data
  <2>2. c \notin Holders
    BY <2>1, HoldsPermit
  <2>3. CASE req[c].op = "StartWork"
    <3>1. /\ permits' = permits - 1
          /\ req' = [req EXCEPT ![c].step = "add", ![c].permit = TRUE]
      BY <1>2, <2>3 DEF CheckCreate
    <3>2. req'[c].permit
      BY <1>1, <3>1 DEF Requests
    <3>3. \A d \in Clients : d # c => req'[d] = req[d]
      BY <1>1, <3>1
    <3>4. Holders' = Holders \cup {c}
      BY <3>2, <3>3 DEF Holders
    <3> QED BY <2>1, <2>2, <3>1, <3>4
  <2>4. CASE req[c].op # "StartWork"
    <3>1. permits' = permits /\ req' = [req EXCEPT ![c].step = "add"]
      BY <1>2, <2>4 DEF CheckCreate
    <3>2. \A d \in Clients : req'[d].permit <=> req[d].permit
      BY <1>1, <3>1 DEF Requests
    <3>3. Holders' = Holders
      BY <3>2 DEF Holders
    <3> QED BY <2>1, <3>1, <3>3
  <2> QED BY <2>3, <2>4
<1>3. CASE AddCheckout(c, TRUE)
  <2>1. /\ req' = [req EXCEPT ![c].step = "record"]
        /\ UNCHANGED <<row, source, permits, excess>>
    BY <1>3 DEF AddCheckout, GoesTo, data
  <2>2. \A d \in Clients : req'[d].permit <=> req[d].permit
    BY <1>1, <2>1 DEF Requests
  <2>3. Holders' = Holders
    BY <2>2 DEF Holders
  <2> QED BY <2>1, <2>3
<1>4. CASE AddCheckout(c, FALSE) \/ AddFails(c) \/ RecordFails(c)
  <2>1. /\ Returns(c) /\ PermitReturns(c)
        /\ UNCHANGED <<row, source, excess>>
    BY <1>4 DEF AddCheckout, AddFails, RecordFails, data
  <2>2. Holders' = Holders \ {c}
    BY <2>1, ReturnsPermit
  <2>3. permits' = IF c \in Holders THEN permits + 1 ELSE permits
    BY <2>1 DEF PermitReturns, Holders
  <2> QED BY <2>1, <2>2, <2>3
<1> QED BY <1>2, <1>3, <1>4 DEF Accounts

(* A recorded Work Source is one more.                                     *)
LEMMA RecordGains ==
    ASSUME Inv, NEW c \in Clients, Record(c)
    PROVE  IF req[c].op = "StartWork"
           THEN /\ req[c].w \notin ActiveSources
                /\ ActiveSources' = ActiveSources \cup {req[c].w}
           ELSE ActiveSources' = ActiveSources
<1> DEFINE w == req[c].w
<1>1. /\ row \in [Checkouts -> RowStates] /\ source \subseteq Worktrees
      /\ Worktrees \subseteq Checkouts /\ \A v \in source : row[v] # "none"
  BY DEF Inv, DataType, SourcesHaveRows, Checkouts
<1>2. row[w] = "none" /\ w \in Checkouts
  BY DEF Record, At, Inv, CreatedAlone, Creates, RequestsAreSound, WellFormed
<1>3. /\ row' = [row EXCEPT ![w] = "active"]
      /\ source' = IF req[c].op = "StartWork" THEN source \cup {w} ELSE source
  BY DEF Record
<1> HIDE DEF w
<1>4. /\ w \notin source /\ row'[w] = "active"
      /\ \A v \in Checkouts : v # w => row'[v] = row[v]
  BY <1>1, <1>2, <1>3
<1>5. CASE req[c].op # "StartWork"
  BY <1>1, <1>3, <1>4, <1>5 DEF ActiveSources
<1>6. CASE req[c].op = "StartWork"
  <2>1. w \notin ActiveSources
    BY <1>4 DEF ActiveSources
  <2>2. ActiveSources' = ActiveSources \cup {w}
    BY <1>1, <1>3, <1>4, <1>6 DEF ActiveSources
  <2> QED BY <1>6, <2>1, <2>2 DEF w
<1> QED BY <1>5, <1>6

(* The Work Source of a removed checkout is one less.                      *)
LEMMA MarkLoses ==
    ASSUME Inv, NEW c \in Clients, Mark(c)
    PROVE  IF req[c].w \in source
           THEN /\ req[c].w \in ActiveSources
                /\ ActiveSources' = ActiveSources \ {req[c].w}
           ELSE ActiveSources' = ActiveSources
<1> DEFINE w == req[c].w
<1>1. /\ row \in [Checkouts -> RowStates] /\ source \subseteq Checkouts
      /\ row[w] = "active" /\ w \in Checkouts /\ source' = source
      /\ row' = [row EXCEPT ![w] = "removed"]
  BY DEF Mark, At, Inv, DataType, RequestsAreSound, WellFormed, Checkouts
<1> HIDE DEF w
<1>2. row'[w] = "removed" /\ \A v \in Checkouts : v # w => row'[v] = row[v]
  BY <1>1
<1>3. w \in source => w \in ActiveSources
  BY <1>1 DEF ActiveSources
<1>4. ActiveSources' = ActiveSources \ {w}
  BY <1>1, <1>2 DEF ActiveSources
<1>5. w \notin source => w \notin ActiveSources
  BY DEF ActiveSources
<1> QED BY <1>3, <1>4, <1>5 DEF w

(* Nothing else changes the Work Sources: a Project that is removed has    *)
(* none, and a checkout that vanished keeps its own.                       *)
LEMMA SourcesStay ==
    ASSUME Inv, Next,
           \/ \E c \in Clients : RemoveProject(c)
           \/ ~\E c \in Clients : Record(c) \/ Mark(c)
    PROVE  ActiveSources' = ActiveSources
<1>1. /\ row \in [Checkouts -> RowStates] /\ source \subseteq Worktrees
      /\ Worktrees \subseteq Checkouts
  BY DEF Inv, DataType, Checkouts
<1>2. CASE UNCHANGED <<row, source>>
  BY <1>2 DEF ActiveSources
<1>3. ASSUME NEW r \in Roots, AddProject(r)
      PROVE  ActiveSources' = ActiveSources
  <2>1. r \notin source
    BY <1>1, WorkbenchAssumption
  <2> QED BY <1>1, <1>3, <2>1 DEF AddProject, ActiveSources
<1>4. ASSUME NEW c \in Clients, RemoveProject(c)
      PROVE  ActiveSources' = ActiveSources
  <2> DEFINE p == Home[req[c].w]
  <2>1. /\ \A w \in Worktrees :
             Home[w] = p => row[w] \notin {"active", "missing"}
        /\ source' = {w \in source : Home[w] # p}
        /\ \A w \in Checkouts : Home[w] # p => row'[w] = row[w]
    BY <1>4 DEF RemoveProject, Removable
  <2> QED BY <1>1, <2>1 DEF ActiveSources
<1>5. CASE Boot
  <2>1. /\ source' = source
        /\ \A w \in Checkouts :
             row'[w] = IF row[w] = "active" /\ disk[w] = "absent"
                       THEN "missing" ELSE row[w]
    BY <1>5 DEF Boot, Vanished
  <2> QED BY <1>1, <2>1 DEF ActiveSources
<1> QED BY <1>2, <1>3, <1>4, <1>5, RowSteps

(* Work Sources stay recorded.                                             *)
LEMMA SourcesHaveRowsKeeps == ASSUME Inv, Next PROVE SourcesHaveRows'
<1>1. /\ row \in [Checkouts -> RowStates] /\ source \subseteq Worktrees
      /\ Worktrees \subseteq Checkouts /\ \A w \in source : row[w] # "none"
  BY DEF Inv, DataType, SourcesHaveRows, Checkouts
<1>2. CASE UNCHANGED <<row, source>>
  BY <1>1, <1>2 DEF SourcesHaveRows
<1>3. ASSUME NEW r \in Roots, AddProject(r) PROVE SourcesHaveRows'
  BY <1>1, <1>3 DEF AddProject, SourcesHaveRows
<1>4. ASSUME NEW c \in Clients, Record(c) \/ Mark(c) PROVE SourcesHaveRows'
  <2>1. req[c].w \in Checkouts
    BY <1>4 DEF Record, Mark, At, Inv, RequestsAreSound, WellFormed
  <2> QED BY <1>1, <1>4, <2>1 DEF Record, Mark, SourcesHaveRows
<1>5. ASSUME NEW c \in Clients, RemoveProject(c) PROVE SourcesHaveRows'
  BY <1>1, <1>5 DEF RemoveProject, SourcesHaveRows
<1>6. CASE Boot
  BY <1>1, <1>6 DEF Boot, SourcesHaveRows
<1> QED BY <1>2, <1>3, <1>4, <1>5, <1>6, RowSteps

(* The permits that are free, the ones that are held and the Work Sources  *)
(* make up the capacity.                                                   *)
LEMMA CapacityKeeps == ASSUME Inv, Next PROVE CapacityIsExact'
<1> DEFINE held == Cardinality(Holders)
           used == Cardinality(ActiveSources)
<1>1. /\ DataType /\ DataType' /\ permits \in Nat /\ excess \in Nat
      /\ Capacity \in Nat
  BY TypesKeep, WorkbenchAssumption DEF Inv, CountType
<1>2. /\ IsFiniteSet(Holders) /\ IsFiniteSet(ActiveSources)
      /\ held \in Nat /\ used \in Nat
  BY <1>1, HoldersAreFinite, SourcesAreFinite
<1>3. up => permits - excess + held + used = Capacity
  BY DEF Inv, CapacityIsExact, Holders
<1> HIDE DEF held, used
<1> SUFFICES ASSUME up'
             PROVE  permits' - excess' + held' + used' = Capacity
  BY DEF CapacityIsExact, Holders, held, used
<1>4. CASE ~up
  <2>1. Boot
    BY <1>4, ZenonT(120)
    DEF Next, Advance, Submit, Lock, Answer, CheckCreate, AddCheckout,
        AddFails, Record, RecordFails, CheckCreateSession, CheckRetry,
        CheckResume, Insert, Spawn, SpawnFails, CheckRemove, RemoveCheckout,
        Mark, MarkFails, RemoveProject, Inspect, AddProject, DeleteSession,
        Exit, Announce, Edit, Crash, memory
  <2>2. ActiveSources' = ActiveSources
    <3>1. ~\E c \in Clients : Record(c) \/ Mark(c)
      BY <1>4, DownIsIdle DEF Record, Mark, At
    <3> QED BY <3>1, SourcesStay
  <2>3. Holders' = {}
    <3>1. req' = req
      BY <2>1 DEF Boot
    <3>2. \A c \in Clients : c \notin Holders
      BY <1>4, DownIsIdle, HoldsPermit
    <3> QED BY <3>1, <3>2 DEF Holders
  <2>4. held' = 0 /\ used' = used
    BY <2>2, <2>3, FS_EmptySet DEF held, used
  <2>5. /\ permits' = Minus(Capacity, used) /\ excess' = Minus(used, Capacity)
    BY <2>1 DEF Boot, used
  <2> QED BY <1>1, <1>2, <2>4, <2>5 DEF Minus
<1>5. CASE up
  <2>1. ASSUME NEW c, Holders' = Holders \cup {c}, c \notin Holders
        PROVE  held' = held + 1
    BY <1>2, <2>1, FS_AddElement DEF held
  <2>2. ASSUME NEW c, Holders' = Holders \ {c}, c \in Holders
        PROVE  held' = held - 1
    BY <1>2, <2>2, FS_RemoveElement DEF held
  <2>3. Holders' = Holders => held' = held
    BY DEF held
  <2>4. ActiveSources' = ActiveSources => used' = used
    BY DEF used
  <2>5. CASE ~\E c \in Clients : Accounts(c)
    <3>1. Holders' = Holders /\ UNCHANGED <<permits, excess>>
      BY <1>5, <2>5, OthersKeepPermits
    <3>2. ActiveSources' = ActiveSources
      BY <2>5, SourcesStay DEF Accounts
    <3> QED BY <1>1, <1>2, <1>3, <1>5, <2>3, <2>4, <3>1, <3>2
  <2>6. ASSUME NEW c \in Clients, Record(c)
        PROVE  permits' - excess' + held' + used' = Capacity
    <3>1. permits' = permits /\ excess' = excess
      BY <2>6 DEF Record
    <3>2. CASE req[c].op = "StartWork"
      <4>1. /\ req[c].step = "record"
            /\ req' = [req EXCEPT ![c].step = "launch", ![c].permit = FALSE]
        BY <2>6, <3>2 DEF Record, At
      <4>2. c \in Holders
        BY <3>2, <4>1, HoldsPermit
      <4>3. Holders' = Holders \ {c}
        <5>1. req \in [Clients -> Requests]
          BY DEF Inv, RequestsAreSound
        <5>2. ~req'[c].permit
          BY <4>1, <5>1 DEF Requests
        <5>3. \A d \in Clients : d # c => req'[d] = req[d]
          BY <4>1, <5>1
        <5> QED BY <5>2, <5>3 DEF Holders
      <4>4. /\ req[c].w \notin ActiveSources
            /\ ActiveSources' = ActiveSources \cup {req[c].w}
        BY <2>6, <3>2, RecordGains
      <4>5. used' = used + 1
        BY <1>2, <4>4, FS_AddElement DEF used
      <4>6. held' = held - 1
        BY <2>2, <4>2, <4>3
      <4> QED BY <1>1, <1>2, <1>3, <1>5, <3>1, <4>5, <4>6
    <3>3. CASE req[c].op # "StartWork"
      <4>1. Returns(c)
        BY <2>6, <3>3 DEF Record
      <4>2. c \notin Holders
        BY <3>3, HoldsPermit
      <4>3. Holders' = Holders
        BY <4>1, <4>2, ReturnsPermit
      <4>4. ActiveSources' = ActiveSources
        BY <2>6, <3>3, RecordGains
      <4> QED BY <1>1, <1>2, <1>3, <1>5, <2>3, <2>4, <3>1, <4>3, <4>4
    <3> QED BY <3>2, <3>3
  <2>7. ASSUME NEW c \in Clients, Mark(c)
        PROVE  permits' - excess' + held' + used' = Capacity
    <3>1. Returns(c) /\ CapacityReturns(req[c].w) /\ req[c].step = "mark"
      BY <2>7 DEF Mark, At
    <3>2. Holders' = Holders
      BY <3>1, HoldsPermit, ReturnsPermit
    <3>3. held' = held
      BY <2>3, <3>2
    <3>4. CASE req[c].w \in source
      <4>1. /\ req[c].w \in ActiveSources
            /\ ActiveSources' = ActiveSources \ {req[c].w}
        BY <2>7, <3>4, MarkLoses
      <4>2. used' = used - 1
        BY <1>2, <4>1, FS_RemoveElement DEF used
      <4>3. \/ permits' = permits /\ excess' = excess - 1
            \/ permits' = permits + 1 /\ excess' = excess
        BY <3>1, <3>4 DEF CapacityReturns
      <4> QED BY <1>1, <1>2, <1>3, <1>5, <3>3, <4>2, <4>3
    <3>5. CASE req[c].w \notin source
      <4>1. UNCHANGED <<permits, excess>>
        BY <3>1, <3>5 DEF CapacityReturns
      <4>2. ActiveSources' = ActiveSources
        BY <2>7, <3>5, MarkLoses
      <4> QED BY <1>1, <1>2, <1>3, <1>5, <2>4, <3>3, <4>1, <4>2
    <3> QED BY <3>4, <3>5
  <2>8. ASSUME NEW c \in Clients, RemoveProject(c)
        PROVE  permits' - excess' + held' + used' = Capacity
    <3>1. /\ Returns(c) /\ req[c].step = "check"
          /\ UNCHANGED <<permits, excess>>
      BY <2>8 DEF RemoveProject, At
    <3>2. Holders' = Holders
      BY <3>1, HoldsPermit, ReturnsPermit
    <3>3. ActiveSources' = ActiveSources
      BY <2>8, SourcesStay
    <3> QED BY <1>1, <1>2, <1>3, <1>5, <2>3, <2>4, <3>1, <3>2, <3>3
  <2>9. ASSUME NEW c \in Clients, Accounts(c), ~Record(c), ~Mark(c),
               ~RemoveProject(c)
        PROVE  permits' - excess' + held' + used' = Capacity
    <3>1. UNCHANGED <<row, source>>
      BY <2>9, AccountedPermits
    <3>2. ActiveSources' = ActiveSources
      BY <3>1 DEF ActiveSources
    <3>3. \/ held' = held + 1 /\ permits' = permits - 1 /\ excess' = excess
          \/ held' = held - 1 /\ permits' = permits + 1 /\ excess' = excess
          \/ held' = held /\ permits' = permits /\ excess' = excess
      BY <2>1, <2>2, <2>3, <2>9, AccountedPermits
    <3> QED BY <1>1, <1>2, <1>3, <1>5, <2>4, <3>2, <3>3
  <2> QED BY <2>5, <2>6, <2>7, <2>8, <2>9
<1> QED BY <1>1, <1>4, <1>5 DEF DataType

----------------------------------------------------------------------------
(* The lineage.                                                            *)

(* Links are between Sessions.                                             *)
LEMMA LinkFacts ==
    ASSUME Inv
    PROVE  /\ \A l \in links :
                /\ l[1] \in Sessions /\ l[2] \in Sessions
                /\ l = <<l[1], l[2]>>
                /\ session[l[1]].lifecycle = "ended" /\ Exists(l[2])
           /\ \A l, m \in links : l[2] = m[2] => l = m
           /\ \A s, t \in Sessions, k \in Conversations :
                EndOf(s, k) /\ EndOf(t, k) /\ k \notin cut => s = t
           /\ session \in [Sessions -> SessionRows]
<1>1. links \subseteq Sessions \X Sessions
  BY DEF Inv, DataType
<1>2. \A l \in links : l[1] \in Sessions /\ l[2] \in Sessions
        /\ l = <<l[1], l[2]>>
  BY <1>1
<1> QED BY <1>2 DEF Inv, DataType, Lineage

(* Which Sessions end a conversation does not change while the rows keep   *)
(* their conversations and their being there.                              *)
LEMMA LineageStays ==
    ASSUME Inv, links' = links, cut' = cut,
           \A s \in Sessions :
             /\ session'[s].conversation = session[s].conversation
             /\ Exists(s)' <=> Exists(s)
             /\ session[s].lifecycle = "ended"
                  => session'[s].lifecycle = "ended"
    PROVE  Lineage'
<1>1. \A l \in links' : session'[l[1]].lifecycle = "ended" /\ Exists(l[2])'
  <2> SUFFICES ASSUME NEW l \in links
               PROVE  session'[l[1]].lifecycle = "ended" /\ Exists(l[2])'
    OBVIOUS
  <2>1. /\ l[1] \in Sessions /\ l[2] \in Sessions
        /\ session[l[1]].lifecycle = "ended" /\ Exists(l[2])
    BY LinkFacts
  <2> QED BY <2>1
<1>2. \A l, m \in links' : l[2] = m[2] => l = m
  BY LinkFacts
<1>3. ASSUME NEW s \in Sessions, NEW k \in Conversations, EndOf(s, k)'
      PROVE  EndOf(s, k)
  BY <1>3, LinkFacts DEF EndOf
<1>4. \A s, t \in Sessions, k \in Conversations :
        EndOf(s, k)' /\ EndOf(t, k)' /\ k \notin cut' => s = t
  BY <1>3, LinkFacts
<1> QED BY <1>1, <1>2, <1>4 DEF Lineage

(* A step that only moves the lifecycle of Sessions that are not ended.    *)
LEMMA LifecycleKeepsLineage ==
    ASSUME Inv, links' = links, cut' = cut, NEW t \in Sessions,
           NEW l \in {"running", "ended"},
           session[t].lifecycle \in {"starting", "running"},
           session' = [session EXCEPT ![t].lifecycle = l]
    PROVE  Lineage'
<1>1. session \in [Sessions -> SessionRows]
  BY DEF Inv, DataType
<1>2. /\ session'[t].lifecycle = l
      /\ session'[t].conversation = session[t].conversation
  BY <1>1 DEF SessionRows
<1>3. \A s \in Sessions : s # t => session'[s] = session[s]
  BY <1>1
<1>4. ASSUME NEW s \in Sessions
      PROVE  /\ session'[s].conversation = session[s].conversation
             /\ Exists(s)' <=> Exists(s)
             /\ session[s].lifecycle = "ended"
                  => session'[s].lifecycle = "ended"
  BY <1>2, <1>3 DEF Exists
<1> QED BY <1>4, LineageStays

(* A successor takes the end of its predecessor's conversation over.       *)
LEMMA InsertKeepsLineage ==
    ASSUME Inv, NEW c \in Clients, Insert(c)
    PROVE  Lineage'
<1>1. PICK n \in Sessions, k \in Conversations \cup {NoConversation} :
        Inserts(c, n, k)
  BY InsertFacts
<1>2. session[n].lifecycle = "none"
  BY <1>1 DEF Inserts, NoRow
<1>3. /\ session'[n].lifecycle = "starting" /\ session'[n].conversation = k
      /\ \A s \in Sessions : s # n => session'[s] = session[s]
  BY <1>1, LinkFacts DEF Inserts
<1>4. cut' = cut
  BY DEF Insert
<1>5. \A l \in links : l[1] # n /\ l[2] # n
  BY <1>2, LinkFacts DEF Exists
<1>6. \A l \in links : session'[l[1]].lifecycle = "ended" /\ Exists(l[2])'
  BY <1>3, <1>5, LinkFacts DEF Exists
<1>7. ASSUME NEW s \in Sessions, s # n, NEW j \in Conversations, EndOf(s, j)',
             links \subseteq links'
      PROVE  EndOf(s, j)
  <2>1. session[s] = session'[s]
    BY <1>3, <1>7
  <2>2. \A l \in links : session'[l[2]] = session[l[2]]
    BY <1>3, <1>5, LinkFacts
  <2> QED BY <1>7, <2>1, <2>2 DEF EndOf, Exists
<1>8. CASE req[c].op # "ResumeSession"
  <2>1. links' = links /\ k = NoConversation
    BY <1>1, <1>8 DEF Inserts
  <2>2. \A j \in Conversations : ~EndOf(n, j)'
    BY <1>3, <2>1, WorkbenchAssumption DEF EndOf
  <2>3. \A s, t \in Sessions, j \in Conversations :
          EndOf(s, j)' /\ EndOf(t, j)' /\ j \notin cut' => s = t
    BY <1>4, <1>7, <2>1, <2>2, LinkFacts
  <2>4. \A l, m \in links' : l[2] = m[2] => l = m
    BY <2>1, LinkFacts
  <2> QED BY <1>6, <2>1, <2>3, <2>4 DEF Lineage
<1>9. CASE req[c].op = "ResumeSession"
  <2>1. PICK p \in Sessions :
          /\ links' = links \cup {<<p, n>>}
          /\ k = session[p].conversation
          /\ Eligible(p, req[c].w)
    BY <1>1, <1>9 DEF Inserts
  <2>2. /\ session[p].lifecycle = "ended" /\ k # NoConversation
        /\ \A l \in links : l[1] # p
    BY <2>1 DEF Eligible, AllowsResume
  <2>3. p # n /\ k \in Conversations
    BY <1>2, <2>2
  <2>4. EndOf(p, k)
    BY <2>1, <2>2 DEF EndOf, Exists
  <2>5. ~EndOf(p, k)'
    <3>1. <<p, n>> \in links' /\ <<p, n>>[1] = p /\ <<p, n>>[2] = n
      BY <2>1
    <3> QED BY <1>3, <3>1 DEF EndOf
  <2>6. ASSUME NEW j \in Conversations, EndOf(n, j)' PROVE j = k
    BY <1>3, <2>6 DEF EndOf
  <2>7. links \subseteq links'
    BY <2>1
  <2>8. ASSUME NEW s \in Sessions, NEW t \in Sessions, NEW j \in Conversations,
               EndOf(s, j)', EndOf(t, j)', j \notin cut'
        PROVE  s = t
    <3>1. CASE s # n /\ t # n
      BY <1>4, <1>7, <2>7, <2>8, <3>1, LinkFacts
    <3>2. CASE s = n /\ t # n
      <4>1. j = k /\ EndOf(t, k)
        BY <1>7, <2>6, <2>7, <2>8, <3>2
      <4>2. t = p
        BY <1>4, <2>1, <2>3, <2>4, <2>8, <4>1, LinkFacts
      <4> QED BY <2>5, <2>8, <4>1, <4>2
    <3>3. CASE s # n /\ t = n
      <4>1. j = k /\ EndOf(s, k)
        BY <1>7, <2>6, <2>7, <2>8, <3>3
      <4>2. s = p
        BY <1>4, <2>1, <2>3, <2>4, <2>8, <4>1, LinkFacts
      <4> QED BY <2>5, <2>8, <4>1, <4>2
    <3> QED BY <3>1, <3>2, <3>3
  <2>9. ASSUME NEW l \in links', NEW m \in links', l[2] = m[2] PROVE l = m
    BY <1>5, <2>1, <2>9, LinkFacts
  <2>10. ASSUME NEW l \in links'
         PROVE  session'[l[1]].lifecycle = "ended" /\ Exists(l[2])'
    <3>1. CASE l \in links
      BY <1>6, <3>1
    <3>2. CASE l = <<p, n>>
      BY <1>3, <2>1, <2>2, <2>3, <3>2 DEF Exists
    <3> QED BY <2>1, <3>1, <3>2
  <2> QED BY <2>8, <2>9, <2>10 DEF Lineage
<1> QED BY <1>8, <1>9

(* Where a Session leaves a conversation it ends, at most the predecessor  *)
(* it is linked to ends it instead.                                        *)
LEMMA LeavingKeepsEnds ==
    ASSUME Inv, NEW s \in Sessions, NEW k \in Conversations,
           \A x \in Sessions :
             EndOf(x, k)' /\ k \notin cut' =>
               /\ x # s
               /\ \/ EndOf(x, k)
                  \/ <<x, s>> \in links /\ EndOf(s, k),
           k \notin cut' => k \notin cut
    PROVE  \A x, y \in Sessions :
             EndOf(x, k)' /\ EndOf(y, k)' /\ k \notin cut' => x = y
<1> SUFFICES ASSUME NEW x \in Sessions, NEW y \in Sessions, EndOf(x, k)',
                    EndOf(y, k)', k \notin cut'
             PROVE  x = y
  OBVIOUS
<1>1. \A a, b \in Sessions : EndOf(a, k) /\ EndOf(b, k) => a = b
  BY LinkFacts
<1>2. <<x, s>> \in links /\ <<y, s>> \in links => x = y
  <2>1. <<x, s>>[2] = s /\ <<y, s>>[2] = s /\ (<<x, s>> = <<y, s>> => x = y)
    OBVIOUS
  <2> QED BY <2>1, LinkFacts
<1> QED BY <1>1, <1>2

(* A deleted Session leaves the lineage; where it was in the middle, its   *)
(* conversation counts as cut.                                             *)
LEMMA DeleteKeepsLineage ==
    ASSUME Inv, NEW s \in Sessions, DeleteSession(s)
    PROVE  Lineage'
<1>1. /\ session[s].lifecycle = "ended"
      /\ session' = [session EXCEPT ![s].lifecycle = "deleted"]
      /\ links' = {l \in links : l[1] # s /\ l[2] # s}
      /\ cut' = IF (\E l \in links : l[1] = s) /\ (\E l \in links : l[2] = s)
                THEN cut \cup {session[s].conversation} ELSE cut
  BY DEF DeleteSession, AllowsResume
<1>2. /\ session'[s].lifecycle = "deleted"
      /\ \A x \in Sessions : x # s => session'[x] = session[x]
  BY <1>1, LinkFacts DEF SessionRows
<1>3. ASSUME NEW l \in links'
      PROVE  session'[l[1]].lifecycle = "ended" /\ Exists(l[2])'
  <2>1. l \in links /\ l[1] # s /\ l[2] # s
    BY <1>1
  <2> QED BY <1>2, <2>1, LinkFacts DEF Exists
<1>4. \A l, m \in links' : l[2] = m[2] => l = m
  BY <1>1, LinkFacts
<1>5. ASSUME NEW k \in Conversations, NEW x \in Sessions, EndOf(x, k)',
             k \notin cut'
      PROVE  x # s /\ (EndOf(x, k) \/ (<<x, s>> \in links /\ EndOf(s, k)))
  <2>1. x # s
    BY <1>2, <1>5 DEF EndOf, Exists
  <2>2. Exists(x) /\ session[x].conversation = k
    BY <1>2, <1>5, <2>1 DEF EndOf, Exists
  <2>3. ASSUME ~EndOf(x, k) PROVE <<x, s>> \in links /\ EndOf(s, k)
    <3>1. PICK l \in links : l[1] = x /\ session[l[2]].conversation = k
      BY <2>2, <2>3 DEF EndOf
    <3>2. l[2] = s
      <4>1. l[2] # s => l \in links' /\ session'[l[2]] = session[l[2]]
        BY <1>1, <1>2, <2>1, <3>1, LinkFacts
      <4> QED BY <1>5, <3>1, <4>1 DEF EndOf
    <3>3. l = <<x, s>> /\ session[s].conversation = k
      BY <3>1, <3>2, LinkFacts
    <3>4. ~\E m \in links : m[1] = s
      BY <1>1, <1>5, <3>1, <3>2, <3>3
    <3> QED BY <1>1, <3>3, <3>4 DEF EndOf, Exists
  <2> QED BY <2>1, <2>3
<1>6. \A k \in Conversations : k \notin cut' => k \notin cut
  BY <1>1
<1>7. ASSUME NEW k \in Conversations
      PROVE  \A x, y \in Sessions :
               EndOf(x, k)' /\ EndOf(y, k)' /\ k \notin cut' => x = y
  BY <1>5, <1>6, LeavingKeepsEnds
<1> QED BY <1>3, <1>4, <1>7 DEF Lineage

(* What a provider announces leaves a conversation with one end, or it     *)
(* counts as cut.                                                          *)
LEMMA AnnounceKeepsLineage ==
    ASSUME Inv, NEW s \in Sessions, NEW k \in Conversations, NEW how,
           Announce(s, k, how)
    PROVE  Lineage'
<1> DEFINE taken == {session[t].conversation : t \in Sessions}
<1>1. /\ s \in live /\ links' = links
      /\ session' = [session EXCEPT ![s].conversation = k]
      /\ cut' = IF k \in taken THEN cut \cup {k} ELSE cut
  BY DEF Announce
<1>2. session[s].lifecycle = "running"
  BY <1>1 DEF Inv, SessionsFit
<1>3. /\ session'[s].conversation = k /\ session'[s].lifecycle = "running"
      /\ \A x \in Sessions : x # s => session'[x] = session[x]
  BY <1>1, <1>2, LinkFacts DEF SessionRows
<1>4. \A l \in links : l[1] # s
  BY <1>2, LinkFacts
<1>5. ASSUME NEW l \in links'
      PROVE  session'[l[1]].lifecycle = "ended" /\ Exists(l[2])'
  <2>1. l \in links /\ l[1] # s
    BY <1>1, <1>4
  <2> QED BY <1>3, <2>1, LinkFacts DEF Exists
<1>6. \A l, m \in links' : l[2] = m[2] => l = m
  BY <1>1, LinkFacts
<1>7. ASSUME NEW x \in Sessions, EndOf(x, k)', k \notin cut' PROVE x = s
  <2>1. k \notin taken
    BY <1>1, <1>7
  <2>2. session[x].conversation # k
    BY <2>1
  <2> QED BY <1>3, <1>7, <2>2 DEF EndOf
<1>8. ASSUME NEW j \in Conversations, j # k, NEW x \in Sessions, EndOf(x, j)',
             j \notin cut'
      PROVE  x # s /\ (EndOf(x, j) \/ (<<x, s>> \in links /\ EndOf(s, j)))
  <2>1. x # s
    BY <1>3, <1>8 DEF EndOf
  <2>2. Exists(x) /\ session[x].conversation = j
    BY <1>3, <1>8, <2>1 DEF EndOf, Exists
  <2>3. ASSUME ~EndOf(x, j) PROVE <<x, s>> \in links /\ EndOf(s, j)
    <3>1. PICK l \in links : l[1] = x /\ session[l[2]].conversation = j
      BY <2>2, <2>3 DEF EndOf
    <3>2. l[2] = s
      <4>1. l[2] # s => session'[l[2]] = session[l[2]]
        BY <1>3, LinkFacts
      <4> QED BY <1>1, <1>8, <3>1, <4>1 DEF EndOf
    <3>3. l = <<x, s>> /\ session[s].conversation = j
      BY <3>1, <3>2, LinkFacts
    <3> QED BY <1>2, <1>4, <3>3 DEF EndOf, Exists
  <2> QED BY <2>1, <2>3
<1>9. \A j \in Conversations : j \notin cut' => j \notin cut
  BY <1>1
<1>10. ASSUME NEW j \in Conversations
       PROVE  \A x, y \in Sessions :
                EndOf(x, j)' /\ EndOf(y, j)' /\ j \notin cut' => x = y
  <2>1. CASE j = k
    BY <1>7, <2>1
  <2>2. CASE j # k
    BY <1>8, <1>9, <2>2, LeavingKeepsEnds
  <2> QED BY <2>1, <2>2
<1> QED BY <1>5, <1>6, <1>10 DEF Lineage

(* Every step keeps the lineage.                                           *)
LEMMA LineageKeeps == ASSUME Inv, Next PROVE Lineage'
<1>1. CASE UNCHANGED <<session, links, cut>>
  BY <1>1, LineageStays DEF Exists
<1>2. ASSUME NEW c \in Clients, Spawn(c) PROVE Lineage'
  <2>1. req[c].s \in Sessions /\ session[req[c].s].lifecycle = "starting"
    BY <1>2 DEF Inv, RequestsAreSound, WellFormed, Spawn, At, SpawnedOnce
  <2> QED BY <1>2, <2>1, LifecycleKeepsLineage DEF Spawn
<1>3. ASSUME NEW c \in Clients, NEW recorded \in BOOLEAN,
             SpawnFails(c, recorded)
      PROVE  Lineage'
  <2>1. req[c].s \in Sessions /\ session[req[c].s].lifecycle = "starting"
    BY <1>3 DEF Inv, RequestsAreSound, WellFormed, SpawnFails, At, SpawnedOnce
  <2>2. /\ links' = links /\ cut' = cut
        /\ \/ session' = [session EXCEPT ![req[c].s].lifecycle = "ended"]
           \/ session' = session
    BY <1>3 DEF SpawnFails
  <2>3. CASE session' = session
    BY <1>1, <2>2, <2>3
  <2> QED BY <2>1, <2>2, <2>3, LifecycleKeepsLineage
<1>4. ASSUME NEW s \in Sessions, Exit(s) PROVE Lineage'
  <2>1. session[s].lifecycle = "running"
    BY <1>4 DEF Inv, SessionsFit, Exit
  <2> QED BY <1>4, <2>1, LifecycleKeepsLineage DEF Exit
<1>5. CASE Boot
  <2>1. links' = links /\ cut' = cut
    BY <1>5 DEF Boot
  <2>2. ASSUME NEW s \in Sessions
        PROVE  /\ session'[s].conversation = session[s].conversation
               /\ Exists(s)' <=> Exists(s)
               /\ session[s].lifecycle = "ended"
                    => session'[s].lifecycle = "ended"
    <3>1. session'[s] = IF IsActive(s)
                        THEN [session[s] EXCEPT !.lifecycle = "ended"]
                        ELSE session[s]
      BY <1>5 DEF Boot
    <3>2. LET e == [session[s] EXCEPT !.lifecycle = "ended"]
          IN  e.lifecycle = "ended" /\ e.conversation = session[s].conversation
      BY LinkFacts DEF SessionRows
    <3> QED BY <3>1, <3>2 DEF IsActive, Exists
  <2> QED BY <2>1, <2>2, LineageStays
<1> QED
  BY <1>1, <1>2, <1>3, <1>4, <1>5, InsertKeepsLineage, DeleteKeepsLineage,
     AnnounceKeepsLineage, SessionSteps

----------------------------------------------------------------------------
(* The theorems.                                                           *)

(* The state the daemon starts from.                                       *)
LEMMA InitKeeps == Init => Inv
<1> SUFFICES ASSUME Init PROVE Inv
  OBVIOUS
<1>1. /\ row \in [Checkouts -> RowStates] /\ source = {} /\ links = {} /\ live = {}
      /\ session = [s \in Sessions |-> NoRow] /\ up = TRUE
      /\ req = [c \in Clients |-> Idle] /\ permits = Capacity /\ excess = 0
  BY DEF Init, RowStates
<1>2. \A c \in Clients : req[c] = Idle
  BY <1>1
<1>3. NoRow \in SessionRows /\ NoRow.lifecycle = "none"
  BY DEF NoRow, SessionRows
<1>4. \A s \in Sessions : session[s].lifecycle = "none"
  BY <1>1, <1>3
<1>5. DataType
  BY <1>1, <1>3 DEF Init, DataType
<1>6. CountType
  BY WorkbenchAssumption DEF Init, CountType
<1>7. RequestsAreSound
  BY <1>1, IdleFacts DEF RequestsAreSound
<1>8. Guarded
  BY <1>2, IdleFacts DEF Init, Guarded
<1>9. CreatedAlone /\ RemovedUnused /\ LaunchedVerified /\ SpawnedOnce
  BY <1>2, IdleFacts
  DEF CreatedAlone, RemovedUnused, LaunchedVerified, SpawnedOnce, Creates
<1>10. SessionsFit
  BY <1>1, <1>4
  DEF SessionsFit, SessionsHaveCheckouts, Exists, IsActive
<1>11. SourcesHaveRows
  BY <1>1 DEF SourcesHaveRows
<1>12. CapacityIsExact
  <2>1. ActiveSources = {} /\ {c \in Clients : req[c].permit} = {}
    BY <1>1, <1>2, IdleFacts DEF ActiveSources
  <2>2. Cardinality({}) = 0
    BY FS_EmptySet
  <2>3. permits = Capacity /\ excess = 0 /\ Capacity \in Nat
    BY <1>1, WorkbenchAssumption
  <2>4. permits - excess + 0 + 0 = Capacity
    BY <2>3
  <2> QED BY <2>1, <2>2, <2>4, Zenon DEF CapacityIsExact
<1>13. Lineage
  BY <1>1, <1>4 DEF Lineage, EndOf, Exists
<1> QED
  BY <1>5, <1>6, <1>7, <1>8, <1>9, <1>10, <1>11, <1>12, <1>13 DEF Inv

(* A step that changes nothing.                                            *)
LEMMA StutterKeeps == ASSUME Inv, UNCHANGED vars PROVE Inv'
<1>1. UNCHANGED <<row, source, session, links, disk, up, live, permits, excess,
                  count, req, plock, wlock, cut>>
  BY DEF vars, data, memory
<1>2. (DataType /\ CountType /\ RequestsAreSound /\ Guarded)'
  BY <1>1 DEF Inv, DataType, CountType, RequestsAreSound, Guarded
<1>3. (CreatedAlone /\ LaunchedVerified /\ SpawnedOnce)'
  BY <1>1 DEF Inv, CreatedAlone, LaunchedVerified, SpawnedOnce
<1>4. RemovedUnused'
  BY <1>1 DEF Inv, RemovedUnused, ActiveIn, IsActive
<1>5. SessionsFit'
  BY <1>1
  DEF Inv, SessionsFit, SessionsHaveCheckouts, Exists, IsActive, HasRow
<1>6. (SourcesHaveRows /\ CapacityIsExact)'
  BY <1>1 DEF Inv, SourcesHaveRows, CapacityIsExact, ActiveSources
<1>7. Lineage'
  BY <1>1 DEF Inv, Lineage, EndOf, Exists
<1> QED BY <1>2, <1>3, <1>4, <1>5, <1>6, <1>7 DEF Inv

(* Inv is an invariant: requests hold the locks they are past, what they   *)
(* have checked stays true until they act on it, permits are conserved and *)
(* a conversation has one end.                                             *)
THEOREM Invariance == Spec => []Inv
<1>1. Init => Inv
  BY InitKeeps
<1>2. Inv /\ [Next]_vars => Inv'
  <2> SUFFICES ASSUME Inv, [Next]_vars PROVE Inv'
    OBVIOUS
  <2>1. CASE Next
    BY <2>1, RequestsKeep, TypesKeep, CreatedAloneKeeps, RemovedUnusedKeeps,
       LaunchedVerifiedKeeps, SpawnedOnceKeeps, SessionsFitKeeps,
       SourcesHaveRowsKeeps, CapacityKeeps, LineageKeeps
    DEF Inv
  <2>2. CASE UNCHANGED vars
    BY <2>2, StutterKeeps
  <2> QED BY <2>1, <2>2
<1> QED BY <1>1, <1>2, PTL DEF Spec

(* No Session that starts or runs under this daemon loses its checkout to  *)
(* a RemoveWorktree or a RemoveProject, however their Git commands and     *)
(* transactions interleave with its launch.                                *)
THEOREM LaunchesKeepCheckouts == Spec => []SessionsHaveCheckouts
<1>1. Inv => SessionsHaveCheckouts
  BY DEF Inv, SessionsFit
<1> QED BY <1>1, Invariance, PTL

(* The semaphore of Work Sources neither leaks nor invents a permit.       *)
THEOREM CapacityHolds == Spec => []CapacityIsExact
<1>1. Inv => CapacityIsExact
  BY DEF Inv
<1> QED BY <1>1, Invariance, PTL

(* A conversation is run by one Session, unless its lineage was cut.       *)
THEOREM OneRunner == Spec => []OneLivePerConversation
<1>1. Inv => OneLivePerConversation
  <2> SUFFICES ASSUME Inv, NEW s \in live, NEW t \in live, s # t,
                      session[s].conversation = session[t].conversation,
                      session[s].conversation # NoConversation
               PROVE  session[s].conversation \in cut
    BY DEF OneLivePerConversation
  <2>1. /\ s \in Sessions /\ t \in Sessions
        /\ session[s].lifecycle = "running" /\ session[t].lifecycle = "running"
    BY DEF Inv, DataType, SessionsFit
  <2>2. session[s].conversation \in Conversations
    BY <2>1, LinkFacts DEF SessionRows
  <2>3. \A l \in links : l[1] # s /\ l[1] # t
    BY <2>1, LinkFacts
  <2>4. /\ EndOf(s, session[s].conversation)
        /\ EndOf(t, session[s].conversation)
    BY <2>1, <2>3 DEF EndOf, Exists
  <2> QED BY <2>1, <2>2, <2>4, LinkFacts
<1> QED BY <1>1, Invariance, PTL

(* The daemon deletes no checkout but a managed one whose row is active,   *)
(* in which nothing runs and nothing is changed.                           *)
THEOREM RemovalIsSafe == Spec => RemovalKeepsWork
<1> DEFINE Safe ==
      \A w \in Checkouts :
        /\ disk[w] # "absent" /\ disk'[w] = "absent"
        /\ count'.edits = count.edits
        => /\ w \in Worktrees /\ row[w] = "active"
           /\ disk[w] # "changed"
           /\ ActiveIn(w) = {}
<1>1. Inv /\ [Next]_vars => [Safe]_vars
  <2> SUFFICES ASSUME Inv, Next, NEW w \in Checkouts, disk[w] # "absent",
                      disk'[w] = "absent", count'.edits = count.edits
               PROVE  /\ w \in Worktrees /\ row[w] = "active"
                      /\ disk[w] # "changed"
                      /\ ActiveIn(w) = {}
    OBVIOUS
  <2>1. disk \in [Checkouts -> {"absent", "clean", "ignored", "changed"}]
    BY DEF Inv, DataType
  <2>2. ASSUME NEW v \in Checkouts, NEW to, Edit(v, to) PROVE FALSE
    <3>1. count' = [count EXCEPT !["edits"] = @ + 1]
      BY <2>2 DEF Edit, Tally
    <3>2. count'.edits = count.edits + 1 /\ count.edits \in Nat
      BY <3>1 DEF Inv, CountType
    <3> QED BY <3>2
  <2>3. ASSUME NEW c \in Clients, NEW verified \in BOOLEAN,
               AddCheckout(c, verified)
        PROVE  FALSE
    BY <2>1, <2>3 DEF AddCheckout
  <2>4. ASSUME NEW c \in Clients, RemoveCheckout(c)
        PROVE  w = req[c].w /\ req[c].step = "remove" /\ GitRemoves(w)
    BY <2>1, <2>4 DEF RemoveCheckout, At
  <2>5. \/ disk' = disk
        \/ \E v \in Checkouts,
              to \in {"clean", "ignored", "changed", "absent"} : Edit(v, to)
        \/ \E c \in Clients, verified \in BOOLEAN : AddCheckout(c, verified)
        \/ \E c \in Clients : RemoveCheckout(c)
    BY ZenonT(120) DEF Next, Advance, Submit, Lock, Answer, CheckCreate, AddFails, Record,
           RecordFails, CheckCreateSession, CheckRetry, CheckResume, Insert,
           Spawn, SpawnFails, CheckRemove, Mark, MarkFails, RemoveProject,
           Inspect, AddProject, DeleteSession, Exit, Announce, Crash, Boot
  <2>6. PICK c \in Clients : RemoveCheckout(c)
    BY <2>2, <2>3, <2>5
  <2> QED BY <2>4, <2>6 DEF Inv, RemovedUnused, GitRemoves
<1>2. Spec => [][Safe]_vars
  BY <1>1, Invariance, PTL DEF Spec
<1> QED BY <1>2 DEF RemovalKeepsWork

----------------------------------------------------------------------------
(* The explorer.                                                           *)

(* How many of the first i elements of a sequence are in a set.            *)
RankIn(seq, S, i) == Cardinality({j \in 1 .. i : seq[j] \in S})

(* The recursion of Only.                                                  *)
IsFilter(f, seq, S) ==
    f = [i \in 0 .. Len(seq) |->
            IF i = 0 THEN <<>>
            ELSE IF seq[i] \in S THEN Append(f[i - 1], seq[i]) ELSE f[i - 1]]

(* A rank grows by one at what is in the set, and not elsewhere.           *)
LEMMA RankSteps ==
    ASSUME NEW seq, NEW S
    PROVE  /\ RankIn(seq, S, 0) = 0
           /\ \A i \in Nat : RankIn(seq, S, i) \in Nat
           /\ \A i \in Nat \ {0} :
                 /\ seq[i] \in S => RankIn(seq, S, i) = RankIn(seq, S, i - 1) + 1
                 /\ seq[i] \notin S => RankIn(seq, S, i) = RankIn(seq, S, i - 1)
<1> DEFINE upTo(i) == {j \in 1 .. i : seq[j] \in S}
<1>1. ASSUME NEW i \in Nat PROVE IsFiniteSet(upTo(i)) /\ Cardinality(upTo(i)) \in Nat
    <2>1. IsFiniteSet(1 .. i)
        BY FS_Interval
    <2>2. upTo(i) \in SUBSET (1 .. i)
        OBVIOUS
    <2>3. IsFiniteSet(upTo(i))
        BY <2>1, <2>2, FS_Subset
    <2> QED
        BY <2>3, FS_CardinalityType
<1>2. upTo(0) = {}
    OBVIOUS
<1>3. ASSUME NEW i \in Nat \ {0}
      PROVE  /\ seq[i] \in S => Cardinality(upTo(i)) = Cardinality(upTo(i - 1)) + 1
             /\ seq[i] \notin S => Cardinality(upTo(i)) = Cardinality(upTo(i - 1))
    <2>1. CASE seq[i] \in S
        <3>1. upTo(i) = upTo(i - 1) \cup {i} /\ i \notin upTo(i - 1) /\ i - 1 \in Nat
            BY <2>1
        <3>2. IsFiniteSet(upTo(i - 1))
            BY <1>1, <3>1
        <3> QED
            BY <3>1, <3>2, <2>1, FS_AddElement
    <2>2. CASE seq[i] \notin S
        <3>1. upTo(i) = upTo(i - 1)
            BY <2>2
        <3> QED
            BY <3>1, <2>2
    <2> QED
        BY <2>1, <2>2
<1> QED
    BY <1>1, <1>2, <1>3, FS_EmptySet DEF RankIn

(* What is in the set and later has the higher rank.                       *)
LEMMA RankGrows ==
    ASSUME NEW seq, NEW S
    PROVE  /\ \A i, j \in Nat : i <= j => RankIn(seq, S, i) <= RankIn(seq, S, j)
           /\ \A i \in Nat, j \in Nat \ {0} :
                 i < j /\ seq[j] \in S => RankIn(seq, S, i) < RankIn(seq, S, j)
<1>1. ASSUME NEW i \in Nat, NEW j \in Nat, i <= j
      PROVE  RankIn(seq, S, i) <= RankIn(seq, S, j)
    <2>1. IsFiniteSet(1 .. j)
        BY FS_Interval
    <2>2. {k \in 1 .. j : seq[k] \in S} \in SUBSET (1 .. j)
        OBVIOUS
    <2>3. IsFiniteSet({k \in 1 .. j : seq[k] \in S})
        BY <2>1, <2>2, FS_Subset
    <2>4. {k \in 1 .. i : seq[k] \in S} \in SUBSET {k \in 1 .. j : seq[k] \in S}
        BY <1>1
    <2> QED
        BY <2>3, <2>4, FS_Subset DEF RankIn
<1>2. ASSUME NEW i \in Nat, NEW j \in Nat \ {0}, i < j, seq[j] \in S
      PROVE  RankIn(seq, S, i) < RankIn(seq, S, j)
    <2>1. j - 1 \in Nat /\ i <= j - 1
        BY <1>2
    <2>2. RankIn(seq, S, i) <= RankIn(seq, S, j - 1)
        BY <1>1, <2>1
    <2>3. /\ RankIn(seq, S, j) = RankIn(seq, S, j - 1) + 1
          /\ RankIn(seq, S, i) \in Nat /\ RankIn(seq, S, j - 1) \in Nat
        BY <1>2, <2>1, RankSteps
    <2> QED
        BY <2>2, <2>3
<1> QED
    BY <1>1, <1>2

(* The recursion of Only has a solution.                                   *)
LEMMA FilterExists ==
    ASSUME NEW T, NEW seq \in Seq(T), NEW S
    PROVE  \E f : IsFilter(f, seq, S)
<1>r. /\ RankIn(seq, S, 0) = 0
      /\ \A i \in Nat : RankIn(seq, S, i) \in Nat
      /\ \A i \in Nat \ {0} :
            /\ seq[i] \in S => RankIn(seq, S, i) = RankIn(seq, S, i - 1) + 1
            /\ seq[i] \notin S => RankIn(seq, S, i) = RankIn(seq, S, i - 1)
    BY RankSteps, Zenon
<1> DEFINE n == Len(seq)
           at(k) == CHOOSE j \in 1 .. n : seq[j] \in S /\ RankIn(seq, S, j) = k
           w == [i \in 0 .. n |-> [k \in 1 .. RankIn(seq, S, i) |-> seq[at(k)]]]
<1>0. n \in Nat /\ \A j \in 1 .. n : seq[j] \in T
    BY LenProperties, ElementOfSeq
<1>g. \A i \in Nat, j \in Nat \ {0} :
         i < j /\ seq[j] \in S => RankIn(seq, S, i) < RankIn(seq, S, j)
    BY RankGrows
<1>1. ASSUME NEW j \in 1 .. n, seq[j] \in S PROVE at(RankIn(seq, S, j)) = j
    <2>1. ASSUME NEW i \in 1 .. n, seq[i] \in S, RankIn(seq, S, i) = RankIn(seq, S, j) PROVE i = j
        <3>1. /\ i < j => RankIn(seq, S, i) < RankIn(seq, S, j)
              /\ j < i => RankIn(seq, S, j) < RankIn(seq, S, i)
            BY <1>0, <1>1, <2>1, <1>g
        <3>2. RankIn(seq, S, i) \in Nat /\ RankIn(seq, S, j) \in Nat
            BY <1>0, <1>r
        <3> QED
            BY <3>1, <3>2, <2>1, <1>0
    <2> QED
        BY <2>1, <1>1
<1>2. ASSUME NEW i \in 0 .. n
      PROVE  w[i] = IF i = 0 THEN <<>>
                    ELSE IF seq[i] \in S THEN Append(w[i - 1], seq[i]) ELSE w[i - 1]
    <2> HIDE DEF at
    <2>1. RankIn(seq, S, 0) = 0 /\ RankIn(seq, S, i) \in Nat
        BY <1>0, <1>r
    <2>2. CASE i = 0
        BY <2>1, <2>2, <1>0
    <2>3. CASE i # 0
        <3>1. i \in Nat \ {0} /\ i - 1 \in 0 .. n /\ i \in 1 .. n
            BY <2>3, <1>0
        <3>2. /\ RankIn(seq, S, i - 1) \in Nat
              /\ seq[i] \in S => RankIn(seq, S, i) = RankIn(seq, S, i - 1) + 1
              /\ seq[i] \notin S => RankIn(seq, S, i) = RankIn(seq, S, i - 1)
            <4>1. i \in Nat \ {0} /\ i - 1 \in Nat
                BY <3>1
            <4> QED
                BY <4>1, <1>r, Zenon
        <3>3. w[i] = [k \in 1 .. RankIn(seq, S, i) |-> seq[at(k)]]
                 /\ w[i - 1] = [k \in 1 .. RankIn(seq, S, i - 1) |-> seq[at(k)]]
            BY <3>1
        <3>4. CASE seq[i] \notin S
            BY <3>2, <3>3, <3>4, <3>1
        <3>5. CASE seq[i] \in S
            <4> DEFINE new == Append(w[i - 1], seq[i])
            <4>1. at(RankIn(seq, S, i)) = i
                BY <1>1, <3>1, <3>5
            <4>2. RankIn(seq, S, i) = RankIn(seq, S, i - 1) + 1
                BY <3>2, <3>5
            <4>u. w[i - 1] \in Seq({seq[at(k)] : k \in 1 .. RankIn(seq, S, i - 1)})
                <5> DEFINE U == {seq[at(k)] : k \in 1 .. RankIn(seq, S, i - 1)}
                <5>1. w[i - 1] \in [1 .. RankIn(seq, S, i - 1) -> U]
                    BY <3>2, <3>3
                <5> HIDE DEF U, w
                <5>2. \A f \in [1 .. RankIn(seq, S, i - 1) -> U] : f \in Seq(U)
                    BY <3>2
                <5> QED
                    BY <5>1, <5>2 DEF U
            <4>3. Len(w[i - 1]) = RankIn(seq, S, i - 1)
                BY <3>2, <3>3
            <4>4. new = [k \in 1 .. RankIn(seq, S, i - 1) + 1 |->
                            IF k = RankIn(seq, S, i - 1) + 1 THEN seq[i] ELSE w[i - 1][k]]
                BY <4>3, <4>u, <3>2, <1>0, <3>1
            <4>5. \A k \in 1 .. RankIn(seq, S, i) : w[i][k] = new[k]
                <5> SUFFICES ASSUME NEW k \in 1 .. RankIn(seq, S, i) PROVE w[i][k] = new[k]
                    OBVIOUS
                <5>1. CASE k = RankIn(seq, S, i)
                    BY <5>1, <4>1, <4>2, <4>4, <3>2, <3>3
                <5>2. CASE k # RankIn(seq, S, i)
                    BY <5>2, <4>2, <4>4, <3>2, <3>3
                <5> QED
                    BY <5>1, <5>2
            <4>6. w[i] = new
                BY <4>5, <4>4, <4>2, <3>2, <3>3
            <4> QED
                BY <4>6, <3>5, <2>3
        <3> QED
            BY <3>4, <3>5
    <2> QED
        BY <2>2, <2>3
<1>3. IsFilter(w, seq, S)
    <2> HIDE DEF at
    <2> DEFINE g == [i \in 0 .. n |->
                        IF i = 0 THEN <<>>
                        ELSE IF seq[i] \in S THEN Append(w[i - 1], seq[i]) ELSE w[i - 1]]
    <2>1. DOMAIN w = 0 .. n /\ DOMAIN g = 0 .. n
        OBVIOUS
    <2>2. \A i \in 0 .. n : w[i] = g[i]
        BY <1>2
    <2>3. w = [i \in 0 .. n |-> w[i]] /\ g = [i \in 0 .. n |-> g[i]]
        OBVIOUS
    <2>4. w = g
        BY <2>2, <2>3
    <2> QED
        BY <2>4 DEF IsFilter
<1> QED
    BY <1>3

FilteredTo(f, seq, S, i) ==
    /\ f[i] \in Seq(Range(seq) \cap S)
    /\ Len(f[i]) = RankIn(seq, S, i)
    /\ \A j \in 1 .. i : seq[j] \in S => f[i][RankIn(seq, S, j)] = seq[j]
    /\ \A k \in 1 .. RankIn(seq, S, i) :
          \E j \in 1 .. i : seq[j] \in S /\ RankIn(seq, S, j) = k

(* Each prefix is filtered into what of it is in the set, by rank.         *)
LEMMA FilterByRank ==
    ASSUME NEW T, NEW seq \in Seq(T), NEW S, NEW f, IsFilter(f, seq, S)
    PROVE  \A i \in 0 .. Len(seq) : FilteredTo(f, seq, S, i)
<1> DEFINE P(i) == FilteredTo(f, seq, S, i)
<1>s. seq \in Seq(Range(seq))
    BY SeqOfRange
<1>r. /\ RankIn(seq, S, 0) = 0
      /\ \A i \in Nat : RankIn(seq, S, i) \in Nat
      /\ \A i \in Nat \ {0} :
            /\ seq[i] \in S => RankIn(seq, S, i) = RankIn(seq, S, i - 1) + 1
            /\ seq[i] \notin S => RankIn(seq, S, i) = RankIn(seq, S, i - 1)
    BY RankSteps, Zenon
<1>m. \A i, j \in Nat : i <= j => RankIn(seq, S, i) <= RankIn(seq, S, j)
    BY RankGrows
<1>l. Len(seq) \in Nat /\ \A j \in 1 .. Len(seq) : seq[j] \in Range(seq)
    BY <1>s, LenProperties, ElementOfSeq
<1>1. P(0)
    <2>1. f[0] = <<>>
        BY <1>l DEF IsFilter
    <2> QED
        BY <2>1, <1>r DEF FilteredTo
<1>2. ASSUME NEW i \in 1 .. Len(seq), P(i - 1) PROVE P(i)
    <2> USE DEF FilteredTo
    <2>1. /\ i \in Nat \ {0} /\ i - 1 \in Nat /\ i \in 0 .. Len(seq)
          /\ i # 0 /\ seq[i] \in Range(seq)
        BY <1>l
    <2>2. /\ RankIn(seq, S, i - 1) \in Nat
          /\ seq[i] \in S => RankIn(seq, S, i) = RankIn(seq, S, i - 1) + 1
          /\ seq[i] \notin S => RankIn(seq, S, i) = RankIn(seq, S, i - 1)
        BY <2>1, <1>r, Zenon
    <2>3. f[i] = IF seq[i] \in S THEN Append(f[i - 1], seq[i]) ELSE f[i - 1]
        BY <2>1 DEF IsFilter
    <2>4. \A j \in 1 .. i - 1 : RankIn(seq, S, j) \in 0 .. RankIn(seq, S, i - 1)
        BY <2>1, <1>m, <1>r
    <2>5. CASE seq[i] \notin S
        <3>1. f[i] = f[i - 1] /\ RankIn(seq, S, i) = RankIn(seq, S, i - 1)
            BY <2>5, <2>2, <2>3
        <3>2. \A j \in 1 .. i : seq[j] \in S => j \in 1 .. i - 1
            BY <2>5, <2>1
        <3>3. \A j \in 1 .. i - 1 : j \in 1 .. i
            BY <2>1
        <3> QED
            BY <3>1, <3>2, <3>3, <1>2
    <2>6. CASE seq[i] \in S
        <3> DEFINE r == RankIn(seq, S, i - 1)
        <3>1. /\ f[i] = Append(f[i - 1], seq[i]) /\ RankIn(seq, S, i) = r + 1
              /\ r \in Nat
            BY <2>6, <2>2, <2>3
        <3>2. /\ f[i] \in Seq(Range(seq) \cap S)
              /\ Len(f[i]) = r + 1
              /\ \A k \in 1 .. r : f[i][k] = f[i - 1][k]
              /\ f[i][r + 1] = seq[i]
            BY <3>1, <1>2, <2>1, <2>6, AppendProperties
        <3>3. ASSUME NEW j \in 1 .. i, seq[j] \in S
              PROVE  f[i][RankIn(seq, S, j)] = seq[j]
            <4>1. CASE j = i
                BY <4>1, <3>1, <3>2
            <4>2. CASE j # i
                <5>1. j \in 1 .. i - 1 /\ j - 1 \in Nat /\ j \in Nat \ {0}
                    BY <4>2, <2>1
                <5>2. RankIn(seq, S, j) = RankIn(seq, S, j - 1) + 1 /\ RankIn(seq, S, j - 1) \in Nat
                    BY <5>1, <3>3, <1>r, Zenon
                <5>3. RankIn(seq, S, j) \in 1 .. r
                    BY <5>1, <5>2, <2>4, <3>1
                <5>4. f[i - 1][RankIn(seq, S, j)] = seq[j]
                    BY <5>1, <3>3, <1>2
                <5> QED
                    BY <5>3, <5>4, <3>2
            <4> QED
                BY <4>1, <4>2
        <3>4. ASSUME NEW k \in 1 .. RankIn(seq, S, i)
              PROVE  \E j \in 1 .. i : seq[j] \in S /\ RankIn(seq, S, j) = k
            <4>1. CASE k = r + 1
                BY <4>1, <3>1, <2>6, <2>1
            <4>2. CASE k # r + 1
                <5>1. k \in 1 .. r
                    BY <4>2, <3>1
                <5>2. PICK j \in 1 .. i - 1 : seq[j] \in S /\ RankIn(seq, S, j) = k
                    BY <5>1, <1>2
                <5>3. j \in 1 .. i
                    BY <2>1
                <5> QED
                    BY <5>2, <5>3
            <4> QED
                BY <4>1, <4>2
        <3> QED
            BY <3>1, <3>2, <3>3, <3>4
    <2> QED
        BY <2>5, <2>6
<1>3. ASSUME NEW i \in 0 .. Len(seq), ~P(i) PROVE FALSE
    <2> HIDE DEF P
    <2> DEFINE bad == {j \in 0 .. Len(seq) : ~P(j)}
    <2>1. bad \subseteq Nat /\ bad # {}
        BY <1>3, <1>l
    <2>2. PICK m \in bad : \A j \in bad : ~(<<j, m>> \in OpToRel(<, Nat))
        BY <2>1, WFMin, NatLessThanWellFounded
    <2>3. \A j \in bad : ~(j < m)
        BY <2>1, <2>2 DEF OpToRel
    <2>4. m # 0 /\ m \in 1 .. Len(seq) /\ m - 1 \in 0 .. Len(seq) /\ m - 1 < m
        BY <1>1, <1>l
    <2>5. P(m - 1)
        BY <2>3, <2>4
    <2> QED
        BY <2>4, <2>5, <1>2
<1> QED
    BY <1>3

(* What a filtered sequence has, by rank.                                  *)
LEMMA OnlyByRank ==
    ASSUME NEW T, NEW seq \in Seq(T), NEW S
    PROVE  /\ Only(seq, S) \in Seq(T \cap S)
           /\ Len(Only(seq, S)) = RankIn(seq, S, Len(seq))
           /\ \A j \in 1 .. Len(seq) :
                 seq[j] \in S => Only(seq, S)[RankIn(seq, S, j)] = seq[j]
           /\ \A k \in 1 .. Len(Only(seq, S)) :
                 \E j \in 1 .. Len(seq) : seq[j] \in S /\ RankIn(seq, S, j) = k
<1>1. PICK f : IsFilter(f, seq, S) /\ Only(seq, S) = f[Len(seq)]
    <2> DEFINE g == CHOOSE f : IsFilter(f, seq, S)
    <2>1. IsFilter(g, seq, S)
        BY FilterExists
    <2>2. Only(seq, S) = g[Len(seq)]
        BY DEF Only, IsFilter
    <2> QED
        BY <2>1, <2>2
<1>2. Len(seq) \in 0 .. Len(seq)
    BY LenProperties
<1> HIDE DEF IsFilter
<1>3. FilteredTo(f, seq, S, Len(seq))
    BY <1>1, <1>2, FilterByRank
<1>4. Range(seq) \cap S \subseteq T \cap S
    BY RangeOfSeq
<1> QED
    BY <1>1, <1>3, <1>4, SeqMonotonic DEF FilteredTo

(* What a filtered sequence has, whatever the order.                       *)
LEMMA OnlyRange ==
    ASSUME NEW T, NEW seq \in Seq(T), NEW S
    PROVE  /\ Only(seq, S) \in Seq(T \cap S)
           /\ Range(Only(seq, S)) = Range(seq) \cap S
           /\ \A n : Contains(Only(seq, S), n) <=> n \in Range(seq) \cap S
           /\ Only(seq, S) = <<>> <=> Range(seq) \cap S = {}
<1> DEFINE o == Only(seq, S)
<1>1. /\ o \in Seq(T \cap S)
      /\ \A j \in 1 .. Len(seq) : seq[j] \in S => o[RankIn(seq, S, j)] = seq[j]
      /\ \A k \in 1 .. Len(o) : \E j \in 1 .. Len(seq) : seq[j] \in S /\ RankIn(seq, S, j) = k
      /\ Len(o) = RankIn(seq, S, Len(seq))
    BY OnlyByRank
<1>2. /\ DOMAIN seq = 1 .. Len(seq) /\ Len(seq) \in Nat
      /\ DOMAIN o = 1 .. Len(o) /\ Len(o) \in Nat
    BY <1>1, LenProperties
<1>3. ASSUME NEW j \in 1 .. Len(seq), seq[j] \in S PROVE RankIn(seq, S, j) \in 1 .. Len(o)
    <2>1. j \in Nat \ {0} /\ j - 1 \in Nat /\ j <= Len(seq)
        BY <1>2
    <2>2. RankIn(seq, S, j) = RankIn(seq, S, j - 1) + 1 /\ RankIn(seq, S, j - 1) \in Nat
        BY <2>1, <1>3, RankSteps, Zenon
    <2>3. RankIn(seq, S, j) <= RankIn(seq, S, Len(seq))
        BY <2>1, <1>2, RankGrows
    <2> QED
        BY <2>2, <2>3, <1>1, <1>2
<1> HIDE DEF o
<1>4. \A n \in Range(seq) \cap S : \E k \in 1 .. Len(o) : o[k] = n
    BY <1>1, <1>2, <1>3 DEF Range
<1>5. \A k \in 1 .. Len(o) : o[k] \in Range(seq) \cap S
    BY <1>1, <1>2 DEF Range
<1>6. Range(o) = Range(seq) \cap S
    BY <1>4, <1>5, <1>2 DEF Range
<1>7. \A n : Contains(o, n) <=> n \in Range(seq) \cap S
    BY <1>4, <1>5 DEF Contains
<1>8. o = <<>> <=> Range(seq) \cap S = {}
    <2>1. o = <<>> => Len(o) = 0
        OBVIOUS
    <2>2. o # <<>> => Len(o) # 0
        BY <1>1, EmptySeq
    <2> QED
        BY <2>1, <2>2, <1>2, <1>4, <1>5
<1> QED
    BY <1>1, <1>6, <1>7, <1>8 DEF o

----------------------------------------------------------------------------
(* The tree.                                                               *)

(* A node has one node above it at each lesser depth.                      *)
LEMMA TreeFacts ==
    ASSUME NEW n \in Nodes
    PROVE  /\ n # Root /\ Depth[n] \in 0 .. 3
           /\ Above[n] \subseteq Nodes
           /\ IF Depth[n] = 0 THEN Tree[n] = Root /\ Above[n] = {}
              ELSE /\ Tree[n] \in Nodes /\ Depth[Tree[n]] = Depth[n] - 1
                   /\ Above[n] = {Tree[n]} \cup Above[Tree[n]]
<1>1. /\ n # Root /\ Depth[n] \in 0 .. 3 /\ Root \notin Nodes
      /\ IF Depth[n] = 0 THEN Tree[n] = Root
         ELSE Tree[n] \in Nodes /\ Depth[Tree[n]] = Depth[n] - 1
    BY ExplorerAssumption
<1>2. \A m \in Nodes :
         Above[m] = {Parent(m), Parent(Parent(m)), Parent(Parent(Parent(m)))} \ {Root}
    <2> SUFFICES ASSUME NEW m \in Nodes
                 PROVE  Above[m] = {Parent(m), Parent(Parent(m)), Parent(Parent(Parent(m)))} \ {Root}
        OBVIOUS
    <2>1. Parents[m] = <<Parent(m), Parent(Parent(m)), Parent(Parent(Parent(m)))>>
        BY DEF Parents
    <2>2. Range(Parents[m]) = {Parent(m), Parent(Parent(m)), Parent(Parent(Parent(m)))}
        BY <2>1 DEF Range
    <2> QED
        BY <2>2 DEF Above
<1>3. \A m \in Nodes :
         /\ Depth[m] \in 0 .. 3 /\ m # Root
         /\ IF Depth[m] = 0 THEN Tree[m] = Root
            ELSE Tree[m] \in Nodes /\ Depth[Tree[m]] = Depth[m] - 1
         /\ Parent(m) = Tree[m]
    BY ExplorerAssumption DEF Parent
<1>4. Parent(Root) = Root
    BY DEF Parent
<1>5. CASE Depth[n] = 0
    BY <1>5, <1>1, <1>2, <1>3, <1>4
<1>6. CASE Depth[n] # 0
    <2> DEFINE t == Tree[n]
    <2>1. t \in Nodes /\ Depth[t] = Depth[n] - 1 /\ t # Root /\ Parent(n) = t
        BY <1>6, <1>1, <1>3
    <2>2. Above[n] = {t, Parent(t), Parent(Parent(t))} \ {Root}
        BY <2>1, <1>2
    <2>3. Above[t] = {Parent(t), Parent(Parent(t)), Parent(Parent(Parent(t)))} \ {Root}
        BY <2>1, <1>2
    <2>4. Parent(Parent(Parent(t))) = Root
        <3>1. CASE Depth[t] = 0
            BY <3>1, <2>1, <1>3, <1>4
        <3>2. CASE Depth[t] = 1
            BY <3>2, <2>1, <1>3, <1>4
        <3>3. CASE Depth[t] = 2
            BY <3>3, <2>1, <1>3, <1>4
        <3> QED
            BY <3>1, <3>2, <3>3, <2>1, <1>1
    <2>5. Above[n] = {t} \cup Above[t]
        BY <2>1, <2>2, <2>3, <2>4
    <2>6. Parent(t) \in Nodes \cup {Root} /\ Parent(Parent(t)) \in Nodes \cup {Root}
        BY <2>1, <1>3, <1>4
    <2>7. Above[n] \subseteq Nodes
        BY <2>1, <2>2, <2>6
    <2> QED
        BY <1>6, <1>1, <2>1, <2>5, <2>7
<1> QED
    BY <1>5, <1>6

(* The nodes above a node, with those above them.                          *)
LEMMA PathFacts ==
    ASSUME NEW n \in Nodes
    PROVE  /\ n \notin Above[n]
           /\ \A m \in Above[n] : Depth[m] < Depth[n] /\ Above[m] \subseteq Above[n]
           /\ \A x, y \in Above[n] \cup {n} : Depth[x] = Depth[y] => x = y
           /\ \A d \in 0 .. Depth[n] : \E x \in Above[n] \cup {n} : Depth[x] = d
<1> DEFINE P(m) == /\ \A x \in Above[m] : Depth[x] < Depth[m] /\ Above[x] \subseteq Above[m]
                   /\ \A x, y \in Above[m] \cup {m} : Depth[x] = Depth[y] => x = y
                   /\ \A d \in 0 .. Depth[m] : \E x \in Above[m] \cup {m} : Depth[x] = d
<1>1. ASSUME NEW m \in Nodes, Depth[m] = 0 PROVE P(m)
    BY <1>1, TreeFacts
<1>2. ASSUME NEW m \in Nodes, Depth[m] # 0, P(Tree[m]) PROVE P(m)
    <2>1. /\ Tree[m] \in Nodes /\ Depth[Tree[m]] = Depth[m] - 1 /\ Depth[m] \in 0 .. 3
          /\ Above[m] = {Tree[m]} \cup Above[Tree[m]] /\ Above[m] \subseteq Nodes
          /\ Above[Tree[m]] \subseteq Nodes
        BY <1>2, TreeFacts
    <2>2. \A x \in Nodes : Depth[x] \in Int
        BY TreeFacts
    <2>3. \A x \in Above[m] : Depth[x] < Depth[m] /\ Above[x] \subseteq Above[m]
        BY <2>1, <2>2, <1>2
    <2>4. \A x, y \in Above[m] \cup {m} : Depth[x] = Depth[y] => x = y
        BY <2>1, <2>2, <2>3, <1>2
    <2>5. \A d \in 0 .. Depth[m] : \E x \in Above[m] \cup {m} : Depth[x] = d
        <3> SUFFICES ASSUME NEW d \in 0 .. Depth[m]
                     PROVE  \E x \in Above[m] \cup {m} : Depth[x] = d
            OBVIOUS
        <3>1. CASE d = Depth[m]
            BY <3>1
        <3>2. CASE d # Depth[m]
            <4>1. d \in 0 .. Depth[Tree[m]]
                BY <3>2, <2>1
            <4> QED
                BY <4>1, <2>1, <1>2
        <3> QED
            BY <3>1, <3>2
    <2> QED
        BY <2>3, <2>4, <2>5
<1> HIDE DEF P
<1>3. \A m \in Nodes : /\ Depth[m] \in 0 .. 3
                       /\ Depth[m] # 0 => Tree[m] \in Nodes /\ Depth[Tree[m]] = Depth[m] - 1
    BY TreeFacts
<1>4. \A m \in Nodes : Depth[m] = 0 => P(m)
    BY <1>1
<1>5. \A m \in Nodes : Depth[m] = 1 => P(m)
    BY <1>2, <1>3, <1>4
<1>6. \A m \in Nodes : Depth[m] = 2 => P(m)
    BY <1>2, <1>3, <1>5
<1>7. \A m \in Nodes : Depth[m] = 3 => P(m)
    BY <1>2, <1>3, <1>6
<1>8. P(n)
    BY <1>3, <1>4, <1>5, <1>6, <1>7
<1>9. Depth[n] \in Int
    BY TreeFacts
<1> QED
    BY <1>8, <1>9 DEF P

----------------------------------------------------------------------------
(* The states of the daemon and of the explorer.                           *)

States ==
    {s \in [nodes : SUBSET Nodes, order : Seq(Nodes), open : Nodes \cup {Root},
            overview : Seq(Nodes)] :
        /\ InPreorder(s.order)
        /\ \A n \in s.nodes : Above[n] \subseteq s.nodes
        /\ IF s.open = Root THEN s.nodes = {} ELSE s.open \in s.nodes /\ Depth[s.open] = 0}

Selections == {NoSelection} \cup {PathTo[n] : n \in Nodes}

Apps ==
    [snap : States, workspace : BOOLEAN, sel : Selections, row : Nat \ {0},
     unfolded : BOOLEAN, expanded : SUBSET (Nodes \ AtWorkspaces), active : BOOLEAN,
     confirm : Nodes \cup {Root}, recovery : Nodes \cup {Root}, shifted : BOOLEAN]

(* What is offered is the open Workspace and what is below it.             *)
LEMMA OfferedFacts ==
    ASSUME NEW s \in States
    PROVE  /\ Offered(s) \subseteq s.nodes /\ s.nodes \subseteq Nodes
           /\ s.open = Root => Offered(s) = {}
           /\ s.open # Root => s.open \in Offered(s)
           /\ \A n \in Offered(s) :
                 /\ Above[n] \subseteq Offered(s)
                 /\ IF Depth[n] = 0 THEN n = s.open ELSE s.open \in Above[n]
<1>1. /\ s.nodes \subseteq Nodes
      /\ \A n \in s.nodes : Above[n] \subseteq s.nodes
      /\ IF s.open = Root THEN s.nodes = {} ELSE s.open \in s.nodes /\ Depth[s.open] = 0
    BY DEF States
<1>2. \A n : n \in Offered(s) <=> n \in s.nodes /\ s.open \in Above[n] \cup {n}
    BY DEF Offered, Has
<1>3. ASSUME NEW n \in Offered(s)
      PROVE  /\ Above[n] \subseteq Offered(s)
             /\ IF Depth[n] = 0 THEN n = s.open ELSE s.open \in Above[n]
    <2>1. /\ n \in Nodes /\ n \in s.nodes /\ s.open \in Above[n] \cup {n}
          /\ s.open # Root /\ Depth[s.open] = 0 /\ s.open \in Nodes
        BY <1>1, <1>2
    <2>2. ASSUME NEW m \in Above[n] PROVE m \in Offered(s)
        <3>1. m \in s.nodes /\ m \in Nodes
            BY <2>1, <1>1
        <3>2. Above[m] \subseteq Above[n]
            BY <2>1, PathFacts
        <3>3. 0 \in 0 .. Depth[m]
            BY <3>1, TreeFacts
        <3>4. PICK x \in Above[m] \cup {m} : Depth[x] = 0
            BY <3>1, <3>3, PathFacts
        <3>5. x = s.open
            BY <3>2, <3>4, <2>1, PathFacts
        <3> QED
            BY <3>1, <3>4, <3>5, <1>2
    <2>3. Depth[n] = 0 => Above[n] = {}
        BY <2>1, TreeFacts
    <2> QED
        BY <2>1, <2>2, <2>3
<1> QED
    BY <1>1, <1>2, <1>3

(* What is shown has all that is above it shown; folded it is the          *)
(* Workspace alone.                                                        *)
LEMMA ShownFacts ==
    ASSUME NEW a \in Apps
    PROVE  /\ Shown(a) \subseteq Offered(a.snap)
           /\ a.snap.open = Root => Shown(a) = {}
           /\ a.snap.open # Root => a.snap.open \in Shown(a)
           /\ \A n \in Shown(a) : Above[n] \subseteq Shown(a)
           /\ ~a.unfolded => \A n \in Shown(a) : n = a.snap.open
<1>1. a.snap \in States /\ a.expanded \subseteq Nodes \ AtWorkspaces /\ a.unfolded \in BOOLEAN
    BY DEF Apps
<1>2. /\ Offered(a.snap) \subseteq a.snap.nodes /\ a.snap.nodes \subseteq Nodes
      /\ a.snap.open = Root => Offered(a.snap) = {}
      /\ a.snap.open # Root => a.snap.open \in Offered(a.snap)
      /\ \A n \in Offered(a.snap) :
                 /\ Above[n] \subseteq Offered(a.snap)
                 /\ IF Depth[n] = 0 THEN n = a.snap.open ELSE a.snap.open \in Above[n]
    BY <1>1, OfferedFacts
<1>3. \A n : n \in Shown(a) <=> n \in Offered(a.snap) /\ Above[n] \subseteq Unfolded(a)
    BY DEF Shown
<1>4. a.snap.open # Root => Depth[a.snap.open] = 0
    BY <1>1 DEF States
<1>5. a.snap.open # Root => a.snap.open \in Shown(a)
    BY <1>2, <1>3, <1>4, TreeFacts
<1>6. \A n \in Shown(a) : Above[n] \subseteq Shown(a)
    <2> SUFFICES ASSUME NEW n \in Shown(a), NEW m \in Above[n] PROVE m \in Shown(a)
        OBVIOUS
    <2>1. n \in Nodes /\ m \in Offered(a.snap)
        BY <1>2, <1>3
    <2>2. Above[m] \subseteq Above[n]
        BY <2>1, PathFacts
    <2> QED
        BY <2>1, <2>2, <1>3
<1>7. ASSUME ~a.unfolded, NEW n \in Shown(a) PROVE n = a.snap.open
    <2>1. Unfolded(a) \cap AtWorkspaces = {}
        BY <1>1, <1>7 DEF Unfolded
    <2>2. a.snap.open # Root /\ n \in Offered(a.snap) /\ Above[n] \subseteq Unfolded(a)
        BY <1>2, <1>3, <1>7
    <2>3. a.snap.open \in AtWorkspaces
        BY <1>2, <1>4, <2>2 DEF AtWorkspaces
    <2>4. a.snap.open \notin Above[n]
        BY <2>1, <2>2, <2>3
    <2> QED
        BY <2>2, <2>4, <1>2
<1> QED
    BY <1>2, <1>3, <1>5, <1>6, <1>7

(* The rows are what is shown.                                             *)
LEMMA RowsFacts ==
    ASSUME NEW a \in Apps
    PROVE  /\ Rows(a) \in Seq(Nodes) /\ Range(Rows(a)) = Shown(a)
           /\ \A n : Contains(Rows(a), n) <=> n \in Shown(a)
           /\ Rows(a) = <<>> <=> a.snap.open = Root
           /\ Root \notin Shown(a) /\ Shown(a) \subseteq Nodes
<1>1. a.snap \in States
    BY DEF Apps
<1>2. a.snap.order \in Seq(Nodes) /\ Range(a.snap.order) = Nodes
    BY <1>1 DEF States, InPreorder
<1>3. Shown(a) \subseteq Nodes /\ Root \notin Nodes
    BY <1>1, ShownFacts, OfferedFacts, ExplorerAssumption
<1>4. /\ Only(a.snap.order, Shown(a)) \in Seq(Nodes \cap Shown(a))
      /\ Range(Only(a.snap.order, Shown(a))) = Nodes \cap Shown(a)
      /\ \A n : Contains(Only(a.snap.order, Shown(a)), n) <=> n \in Nodes \cap Shown(a)
      /\ Only(a.snap.order, Shown(a)) = <<>> <=> Nodes \cap Shown(a) = {}
    BY <1>2, OnlyRange
<1>5. Nodes \cap Shown(a) = Shown(a)
    BY <1>3
<1>6. Shown(a) = {} <=> a.snap.open = Root
    BY ShownFacts
<1>7. Rows(a) \in Seq(Nodes)
    BY <1>3, <1>4, <1>5, SeqMonotonic DEF Rows
<1> QED
    BY <1>3, <1>4, <1>5, <1>6, <1>7 DEF Rows

(* The marked node by the rank of its place in the order.                  *)
LEMMA RowNodeByRank ==
    ASSUME NEW a \in Apps, NEW n, n # Root
    PROVE  RowNode(a) = n <=>
              \E i \in 1 .. Len(a.snap.order) :
                 /\ a.snap.order[i] = n /\ n \in Shown(a)
                 /\ a.row = RankIn(a.snap.order, Shown(a), i)
<1> DEFINE o == a.snap.order
           S == Shown(a)
           rows == Only(o, S)
<1>1. o \in Seq(Nodes) /\ Rows(a) = rows /\ a.row \in Nat
    BY DEF Rows, Apps, States
<1>2. /\ rows \in Seq(Nodes \cap S)
      /\ Len(rows) = RankIn(o, S, Len(o))
      /\ \A j \in 1 .. Len(o) : o[j] \in S => rows[RankIn(o, S, j)] = o[j]
      /\ \A k \in 1 .. Len(rows) : \E j \in 1 .. Len(o) : o[j] \in S /\ RankIn(o, S, j) = k
    <2>1. o \in Seq(Nodes)
        BY <1>1
    <2> HIDE DEF o, S
    <2> QED
        BY <2>1, OnlyByRank
<1>3. /\ DOMAIN rows = 1 .. Len(rows) /\ Len(rows) \in Nat /\ Len(o) \in Nat
    BY <1>1, <1>2, LenProperties
<1>4. RowNode(a) = IF a.row \in DOMAIN rows THEN rows[a.row] ELSE Root
    BY <1>1 DEF RowNode
<1>5. \A j \in 1 .. Len(o) : o[j] \in S => RankIn(o, S, j) \in 1 .. Len(rows)
    <2> SUFFICES ASSUME NEW j \in 1 .. Len(o), o[j] \in S
                 PROVE  RankIn(o, S, j) \in 1 .. Len(rows)
        OBVIOUS
    <2> HIDE DEF o, S, rows
    <2>1. j \in Nat \ {0} /\ j - 1 \in Nat /\ j <= Len(o)
        BY <1>3
    <2>2. RankIn(o, S, j) = RankIn(o, S, j - 1) + 1 /\ RankIn(o, S, j - 1) \in Nat
        BY <2>1, RankSteps, Zenon
    <2>3. RankIn(o, S, j) <= RankIn(o, S, Len(o))
        BY <2>1, <1>3, RankGrows
    <2> QED
        BY <2>2, <2>3, <1>2, <1>3
<1> HIDE DEF o, S, rows
<1>6. ASSUME RowNode(a) = n
      PROVE  \E i \in 1 .. Len(o) : o[i] = n /\ n \in S /\ a.row = RankIn(o, S, i)
    <2>1. a.row \in 1 .. Len(rows) /\ rows[a.row] = n
        BY <1>3, <1>4, <1>6
    <2>2. PICK j \in 1 .. Len(o) : o[j] \in S /\ RankIn(o, S, j) = a.row
        BY <2>1, <1>2
    <2> QED
        BY <2>1, <2>2, <1>2
<1>7. ASSUME NEW i \in 1 .. Len(o), o[i] = n, n \in S, a.row = RankIn(o, S, i)
      PROVE  RowNode(a) = n
    BY <1>2, <1>3, <1>4, <1>5, <1>7
<1> QED
    BY <1>6, <1>7 DEF o, S

(* Rows that come only below the marked one leave the mark on it.          *)
LEMMA RowStays ==
    ASSUME NEW a \in Apps, NEW b \in Apps,
           a.snap = b.snap, a.row = b.row, Shown(a) \subseteq Shown(b),
           NEW n \in Nodes, RowNode(a) = n,
           \A m \in Shown(b) \ Shown(a) : n \in Above[m]
    PROVE  RowNode(b) = n
<1> DEFINE o == a.snap.order
<1>1. n # Root /\ o \in Seq(Nodes) /\ InPreorder(o)
    BY ExplorerAssumption DEF Apps, States
<1>2. PICK i \in 1 .. Len(o) : o[i] = n /\ n \in Shown(a) /\ a.row = RankIn(o, Shown(a), i)
    BY <1>1, RowNodeByRank
<1>3. DOMAIN o = 1 .. Len(o) /\ Len(o) \in Nat
    BY <1>1, LenProperties
<1>4. \A j \in 1 .. Len(o) : n \in Above[o[j]] => i < j
    BY <1>1, <1>2, <1>3 DEF InPreorder
<1>5. \A j \in 1 .. i : o[j] \in Shown(b) <=> o[j] \in Shown(a)
    BY <1>3, <1>4
<1>6. {j \in 1 .. i : o[j] \in Shown(b)} = {j \in 1 .. i : o[j] \in Shown(a)}
    BY <1>5
<1>7. RankIn(o, Shown(b), i) = RankIn(o, Shown(a), i)
    BY <1>6 DEF RankIn
<1>8. b.snap.order = o /\ n \in Shown(b) /\ b.row = RankIn(o, Shown(b), i)
    BY <1>2, <1>7
<1> HIDE DEF o
<1>9. \E k \in 1 .. Len(b.snap.order) :
         /\ b.snap.order[k] = n /\ n \in Shown(b)
         /\ b.row = RankIn(b.snap.order, Shown(b), k)
    BY <1>2, <1>8
<1> QED
    BY <1>1, <1>9, RowNodeByRank

----------------------------------------------------------------------------
(* Marking and selecting.                                                  *)

(* The marked row is of the node that the identities name.                 *)
Agrees(a) == Target(a) \in Shown(a) /\ RowNode(a) = Target(a)

(* The identities of what is above a node, by depth.                       *)
LEMMA PathToFacts ==
    ASSUME NEW n \in Nodes
    PROVE  /\ PathTo[n] \in [1 .. 3 -> Nodes \cup {Root}]
           /\ \A d \in 1 .. 3 :
                 IF d <= Depth[n] THEN PathTo[n][d] \in Above[n] \cup {n} /\ Depth[PathTo[n][d]] = d
                 ELSE PathTo[n][d] = Root
<1> DEFINE at(d) == {m \in Above[n] \cup {n} : Depth[m] = d}
           one(d) == IF at(d) = {} THEN Root ELSE CHOOSE m \in at(d) : TRUE
<1>1. /\ Above[n] \subseteq Nodes /\ Depth[n] \in 0 .. 3
      /\ \A m \in Above[n] : Depth[m] < Depth[n]
      /\ \A d \in 0 .. Depth[n] : \E x \in Above[n] \cup {n} : Depth[x] = d
      /\ \A m \in Nodes : Depth[m] \in 0 .. 3
    BY TreeFacts, PathFacts
<1>2. PathTo[n] = [d \in 1 .. 3 |-> one(d)]
    BY DEF PathTo
<1>3. \A d : at(d) # {} => one(d) \in at(d)
    OBVIOUS
<1>4. \A d \in 1 .. 3 : at(d) # {} <=> d <= Depth[n]
    BY <1>1
<1> HIDE DEF one
<1>5. \A d \in 1 .. 3 : at(d) = {} => one(d) = Root
    BY DEF one
<1>6. \A d \in 1 .. 3 : one(d) \in Nodes \cup {Root}
    BY <1>1, <1>3, <1>5
<1>7. \A d \in 1 .. 3 : PathTo[n][d] = one(d)
    BY <1>2
<1> QED
    BY <1>2, <1>3, <1>4, <1>5, <1>6, <1>7

(* What the identities of a path name.                                     *)
LEMMA TargetFacts ==
    ASSUME NEW a
    PROVE  /\ a.sel = NoSelection => Target(a) = IF a.workspace THEN a.snap.open ELSE Root
           /\ \A n \in Nodes :
                 /\ Depth[n] = 0 => PathTo[n] = NoSelection
                 /\ a.sel = PathTo[n] /\ Depth[n] # 0 => Target(a) = n
<1> DEFINE at == {d \in 1 .. 3 : a.sel[d] # Root}
<1>1. ASSUME a.sel = NoSelection
      PROVE  Target(a) = IF a.workspace THEN a.snap.open ELSE Root
    <2>1. at = {}
        BY <1>1 DEF NoSelection
    <2> QED
        BY <2>1 DEF Target
<1>2. ASSUME NEW n \in Nodes, Depth[n] = 0 PROVE PathTo[n] = NoSelection
    <2>1. /\ PathTo[n] = [d \in 1 .. 3 |-> PathTo[n][d]]
          /\ \A d \in 1 .. 3 : PathTo[n][d] = Root
        BY <1>2, PathToFacts
    <2> QED
        BY <2>1 DEF NoSelection
<1>3. ASSUME NEW n \in Nodes, a.sel = PathTo[n], Depth[n] # 0 PROVE Target(a) = n
    <2>1. /\ Depth[n] \in 1 .. 3 /\ Root \notin Nodes /\ Above[n] \subseteq Nodes
        BY <1>3, TreeFacts, ExplorerAssumption
    <2>2. \A d \in 1 .. 3 :
                 IF d <= Depth[n] THEN PathTo[n][d] \in Above[n] \cup {n} /\ Depth[PathTo[n][d]] = d
                 ELSE PathTo[n][d] = Root
        BY PathToFacts
    <2>3. at = 1 .. Depth[n]
        BY <1>3, <2>1, <2>2
    <2>4. Max(at) = Depth[n]
        <3>1. Depth[n] \in at /\ \A d \in at : Depth[n] >= d
            BY <2>1, <2>3
        <3>2. \A x \in at : x \in Int
            BY <2>3
        <3>3. Max(at) \in at /\ \A d \in at : Max(at) >= d
            BY <3>1 DEF Max
        <3> QED
            BY <3>1, <3>2, <3>3
    <2>5. PathTo[n][Depth[n]] = n
        BY <2>1, <2>2, PathFacts
    <2>6. at # {}
        BY <2>1, <2>3
    <2> QED
        BY <1>3, <2>4, <2>5, <2>6 DEF Target
<1> QED
    BY <1>1, <1>2, <1>3

(* A position in the rows, of what is shown.                               *)
LEMMA PositionFacts ==
    ASSUME NEW a \in Apps, NEW n
    PROVE  LET p == Position(Rows(a), n) IN
           /\ n \in Shown(a) => p \in 1 .. Len(Rows(a)) /\ Rows(a)[p] = n /\ p \in Nat \ {0}
           /\ n \notin Shown(a) => p = 0
<1> DEFINE r == Rows(a)
<1>1. DOMAIN r = 1 .. Len(r) /\ Len(r) \in Nat
    BY RowsFacts, LenProperties
<1>2. Contains(r, n) <=> n \in Shown(a)
    BY RowsFacts
<1>3. Contains(r, n) <=> \E i \in 1 .. Len(r) : r[i] = n
    BY DEF Contains
<1> HIDE DEF r
<1>4. Position(r, n) = IF Contains(r, n) THEN CHOOSE i \in DOMAIN r : r[i] = n ELSE 0
    BY DEF Position
<1>5. ASSUME n \in Shown(a)
      PROVE  Position(r, n) \in 1 .. Len(r) /\ r[Position(r, n)] = n
    <2>1. \E i \in DOMAIN r : r[i] = n
        BY <1>1, <1>2, <1>3, <1>5
    <2>2. (CHOOSE i \in DOMAIN r : r[i] = n) \in DOMAIN r /\ r[CHOOSE i \in DOMAIN r : r[i] = n] = n
        BY <2>1
    <2> QED
        BY <1>1, <1>2, <1>4, <1>5, <2>2
<1> QED
    BY <1>1, <1>2, <1>4, <1>5 DEF r

(* The rows are of the snapshot and the folds.                             *)
LEMMA SameRows ==
    ASSUME NEW a, NEW b, a.snap = b.snap, a.expanded = b.expanded, a.unfolded = b.unfolded
    PROVE  Shown(a) = Shown(b) /\ Rows(a) = Rows(b)
BY DEF Shown, Unfolded, Rows

(* sync_explorer_index marks what is selected, if it is shown.             *)
LEMMA SyncMarks ==
    ASSUME NEW a \in Apps
    PROVE  \E p \in Nat \ {0} :
              /\ SyncExplorerIndex(a) = [a EXCEPT !.row = p]
              /\ SyncExplorerIndex(a) \in Apps
              /\ Target(a) \in Shown(a) => Agrees(SyncExplorerIndex(a))
<1> DEFINE p == Position(Rows(a), Target(a))
           q == IF p = 0 THEN 1 ELSE p
           b == [a EXCEPT !.row = q]
<1>1. /\ Target(a) \in Shown(a)
            => p \in 1 .. Len(Rows(a)) /\ Rows(a)[p] = Target(a) /\ p \in Nat \ {0}
      /\ Target(a) \notin Shown(a) => p = 0
    BY PositionFacts
<1>2. q \in Nat \ {0}
    BY <1>1
<1>3. SyncExplorerIndex(a) = b
    BY DEF SyncExplorerIndex
<1>4. b \in Apps
    BY <1>2 DEF Apps
<1>5. /\ b.snap = a.snap /\ b.expanded = a.expanded /\ b.unfolded = a.unfolded
      /\ b.row = q /\ b.sel = a.sel /\ b.workspace = a.workspace
    BY DEF Apps
<1>6. Shown(b) = Shown(a) /\ Rows(b) = Rows(a)
    <2> HIDE DEF b
    <2> QED
        BY <1>5, SameRows
<1>7. Target(b) = Target(a)
    BY <1>5 DEF Target
<1>8. DOMAIN Rows(a) = 1 .. Len(Rows(a))
    BY RowsFacts, LenProperties
<1>9. ASSUME Target(a) \in Shown(a) PROVE Agrees(b)
    <2> HIDE DEF p, b
    <2>1. q = p /\ p \in DOMAIN Rows(a) /\ Rows(a)[p] = Target(a)
        BY <1>1, <1>8, <1>9
    <2> QED
        BY <2>1, <1>5, <1>6, <1>7, <1>9 DEF Agrees, RowNode
<1> HIDE DEF q
<1> QED
    BY <1>2, <1>3, <1>4, <1>9

(* A row that is marked with the identities of what it shows.              *)
LEMMA SelectRow ==
    ASSUME NEW a \in Apps, NEW p \in 1 .. Len(Rows(a))
    PROVE  /\ Rows(a)[p] \in Shown(a)
           /\ \A b : b = [a EXCEPT !.row = p, !.workspace = Depth[Rows(a)[p]] = 0,
                                   !.sel = PathTo[Rows(a)[p]], !.shifted = FALSE]
                        => b \in Apps /\ b.snap = a.snap /\ Agrees(b) /\ ~b.shifted
<1> DEFINE n == Rows(a)[p]
<1>1. DOMAIN Rows(a) = 1 .. Len(Rows(a)) /\ Len(Rows(a)) \in Nat
    BY RowsFacts, LenProperties
<1>2. n \in Shown(a) /\ n \in Nodes
    BY <1>1, RowsFacts DEF Range
<1> HIDE DEF n
<1>3. ASSUME NEW b, b = [a EXCEPT !.row = p, !.workspace = Depth[n] = 0,
                                  !.sel = PathTo[n], !.shifted = FALSE]
      PROVE  b \in Apps /\ b.snap = a.snap /\ Agrees(b) /\ ~b.shifted
    <2>1. p \in Nat \ {0}
        BY <1>1
    <2>2. b \in Apps
        BY <1>2, <1>3, <2>1 DEF Apps, Selections
    <2>3. /\ b.snap = a.snap /\ b.expanded = a.expanded /\ b.unfolded = a.unfolded
          /\ b.row = p /\ b.sel = PathTo[n] /\ b.workspace = (Depth[n] = 0) /\ ~b.shifted
        BY <1>3 DEF Apps
    <2>4. Shown(b) = Shown(a) /\ Rows(b) = Rows(a)
        BY <2>3, SameRows
    <2>5. RowNode(b) = n
        BY <1>1, <2>3, <2>4 DEF RowNode, n
    <2>6. CASE Depth[n] # 0
        <3>1. Target(b) = n
            BY <1>2, <2>3, <2>6, TargetFacts
        <3> QED
            BY <1>2, <2>2, <2>3, <2>4, <2>5, <3>1 DEF Agrees
    <2>7. CASE Depth[n] = 0
        <3>1. b.sel = NoSelection /\ b.workspace
            BY <1>2, <2>3, <2>7, TargetFacts
        <3>2. Target(b) = a.snap.open
            BY <2>3, <3>1, TargetFacts
        <3>3. a.snap \in States /\ n \in Offered(a.snap)
            BY <1>2, ShownFacts DEF Apps
        <3>4. n = a.snap.open
            BY <2>7, <3>3, OfferedFacts
        <3> QED
            BY <1>2, <2>2, <2>3, <2>4, <2>5, <3>2, <3>4 DEF Agrees
    <2> QED
        BY <2>6, <2>7
<1> QED
    BY <1>2, <1>3 DEF n

(* select_node marks and selects what is shown, and nothing else.          *)
LEMMA SelectMarks ==
    ASSUME NEW a \in Apps, NEW n \in Nodes
    PROVE  /\ n \notin Shown(a) => SelectNode(a, n) = a
           /\ n \in Shown(a) => /\ SelectNode(a, n) \in Apps
                                /\ Agrees(SelectNode(a, n)) /\ ~SelectNode(a, n).shifted
<1> DEFINE p == Position(Rows(a), n)
           b == [a EXCEPT !.row = p, !.workspace = Depth[Rows(a)[p]] = 0,
                          !.sel = PathTo[Rows(a)[p]], !.shifted = FALSE]
<1>1. /\ n \in Shown(a) => p \in 1 .. Len(Rows(a)) /\ Rows(a)[p] = n /\ p \in Nat \ {0}
      /\ n \notin Shown(a) => p = 0
    BY PositionFacts
<1>2. n \notin Shown(a) => SelectNode(a, n) = a
    BY <1>1 DEF SelectNode
<1>3. ASSUME n \in Shown(a) PROVE SelectNode(a, n) = b /\ p \in 1 .. Len(Rows(a))
    <2>1. p \in 1 .. Len(Rows(a)) /\ p # 0
        BY <1>1, <1>3
    <2>2. DOMAIN Rows(a) = 1 .. Len(Rows(a)) /\ Len(Rows(a)) \in Nat
        BY RowsFacts, LenProperties
    <2>3. Rows(a) # <<>> /\ ~(p > Len(Rows(a)))
        BY <2>1, <2>2
    <2>4. SelectNode(a, n) = SelectExplorerIndex(a, p)
        BY <2>1 DEF SelectNode
    <2> HIDE DEF p
    <2>5. SelectExplorerIndex(a, p) = b
        BY <2>3 DEF SelectExplorerIndex
    <2> QED
        BY <2>1, <2>4, <2>5
<1> HIDE DEF p
<1>4. ASSUME n \in Shown(a) PROVE b \in Apps /\ Agrees(b) /\ ~b.shifted
    BY <1>3, <1>4, SelectRow
<1> QED
    BY <1>2, <1>3, <1>4

----------------------------------------------------------------------------
(* What the handlers do to an explorer whose mark and identities agree.    *)

Sound(a) ==
    /\ a \in Apps
    /\ a.snap.open # Root /\ ~a.shifted => Agrees(a)

(* Rows that come only below what is selected change nothing of it.        *)
LEMMA StillAgrees ==
    ASSUME NEW a \in Apps, NEW b \in Apps, Agrees(a),
           b.snap = a.snap, b.row = a.row, b.sel = a.sel, b.workspace = a.workspace,
           Shown(a) \subseteq Shown(b),
           \A m \in Shown(b) \ Shown(a) : Target(a) \in Above[m]
    PROVE  Agrees(b)
<1>1. Target(b) = Target(a)
    BY DEF Target
<1>2. Target(a) \in Nodes /\ RowNode(a) = Target(a) /\ Target(a) \in Shown(b)
    BY RowsFacts DEF Agrees
<1>3. RowNode(b) = Target(a)
    BY <1>2, RowStays
<1> QED
    BY <1>1, <1>2, <1>3 DEF Agrees

(* What is offered below the Workspace has the Workspace above it.         *)
LEMMA UnfoldingAddsBelow ==
    ASSUME NEW a \in Apps, NEW b \in Apps, b.snap = a.snap,
           NEW m \in Shown(b), m # a.snap.open
    PROVE  a.snap.open \in Above[m]
<1>1. a.snap \in States /\ m \in Offered(a.snap)
    BY ShownFacts DEF Apps
<1> QED
    BY <1>1, OfferedFacts

Unfolds(a, b, X, u) == b = [a EXCEPT !.expanded = @ \cup X, !.unfolded = u]

(* Selecting a node after what is above it was unfolded: it is selected,   *)
(* or nothing is and the mark stays right.                                 *)
LEMMA SelectKeepsSound ==
    ASSUME NEW a, Sound(a), NEW n \in Nodes, NEW b \in Apps,
           NEW X \in SUBSET (Above[n] \cup {n}), NEW u \in BOOLEAN, a.unfolded => u,
           Unfolds(a, b, X, u),
           n \in a.snap.nodes => Above[n] \ AtWorkspaces \subseteq b.expanded,
           n \notin a.snap.nodes => X = {}
    PROVE  Sound(SelectNode(b, n))
<1>1. CASE n \in Shown(b)
    BY <1>1, SelectMarks DEF Sound
<1>2. CASE n \notin Shown(b)
    <2>1. SelectNode(b, n) = b
        BY <1>2, SelectMarks
    <2>2. /\ a \in Apps /\ b.snap = a.snap /\ b.row = a.row /\ b.sel = a.sel
          /\ b.workspace = a.workspace /\ b.shifted = a.shifted
          /\ b.expanded = a.expanded \cup X /\ b.unfolded = u
          /\ a.snap \in States
        BY DEF Sound, Apps, Unfolds
    <2>3. SUFFICES ASSUME a.snap.open # Root, ~a.shifted PROVE Agrees(b)
        BY <2>1, <2>2 DEF Sound
    <2>4. Agrees(a) /\ Target(a) \in Shown(a)
        BY <2>3 DEF Sound, Agrees
    <2>5. Shown(a) \subseteq Shown(b)
        <3>1. Unfolded(a) \subseteq Unfolded(b)
            BY <2>2 DEF Unfolded
        <3> QED
            BY <3>1, <2>2 DEF Shown
    <2>6. CASE ~u
        <3>1. \A m \in Shown(b) : m = a.snap.open
            BY <2>6, <2>2, ShownFacts
        <3>2. a.snap.open \in Shown(a)
            BY <2>2, <2>3, ShownFacts
        <3> QED
            BY <2>2, <2>4, <2>5, <3>1, <3>2, StillAgrees
    <2>7. CASE u /\ ~a.unfolded
        <3>1. Target(a) = a.snap.open
            BY <2>2, <2>4, <2>7, ShownFacts
        <3>2. \A m \in Shown(b) \ Shown(a) : Target(a) \in Above[m]
            BY <2>2, <2>4, <3>1, UnfoldingAddsBelow
        <3> QED
            BY <2>2, <2>4, <2>5, <3>2, StillAgrees
    <2>8. CASE u /\ a.unfolded
        <3>1. Unfolded(b) = a.expanded \cup X \cup AtWorkspaces
                 /\ Unfolded(a) = a.expanded \cup AtWorkspaces
            BY <2>2, <2>8 DEF Unfolded
        <3>2. n \notin Offered(a.snap)
            <4>1. n \in Offered(a.snap) => Above[n] \subseteq Unfolded(b)
                BY <2>2, <3>1, OfferedFacts
            <4> QED
                BY <4>1, <1>2, <2>2 DEF Shown
        <3>3. ASSUME NEW m \in Shown(b), NEW x \in X, x \in Above[m] PROVE FALSE
            <4>1. m \in Offered(a.snap) /\ x \in Offered(a.snap)
                BY <3>3, <2>2, ShownFacts, OfferedFacts
            <4>2. x # n /\ x \in Above[n] /\ n \in a.snap.nodes
                BY <4>1, <3>2, <3>3
            <4>3. a.snap.open \in Above[x] \cup {x}
                BY <4>1 DEF Offered, Has
            <4>4. Above[x] \subseteq Above[n]
                BY <4>2, PathFacts
            <4> QED
                BY <4>2, <4>3, <4>4, <3>2 DEF Offered, Has
        <3>4. \A m \in Shown(b) : m \in Shown(a)
            BY <3>1, <3>3, <2>2 DEF Shown
        <3> QED
            BY <2>2, <2>4, <2>5, <3>4, StillAgrees
    <2> QED
        BY <2>6, <2>7, <2>8
<1> QED
    BY <1>1, <1>2

(* expand_to_node.                                                         *)
LEMMA ExpandFacts ==
    ASSUME NEW a \in Apps, NEW n \in Nodes
    PROVE  \E X \in SUBSET Above[n] :
              /\ Expand(a, n) = [a EXCEPT !.expanded = @ \cup X]
              /\ Expand(a, n) \in Apps
              /\ n \in a.snap.nodes => X = Above[n] \ AtWorkspaces
              /\ n \notin a.snap.nodes => X = {}
<1> DEFINE X == IF n \in a.snap.nodes THEN Above[n] \ AtWorkspaces ELSE {}
<1>1. X \in SUBSET Above[n] /\ X \subseteq Nodes \ AtWorkspaces
    BY TreeFacts
<1>2. Expand(a, n) = [a EXCEPT !.expanded = @ \cup X]
    <2>1. [a EXCEPT !.expanded = @ \cup {}] = a
        BY DEF Apps
    <2> QED
        BY <2>1 DEF Expand
<1>3. [a EXCEPT !.expanded = @ \cup X] \in Apps
    <2> HIDE DEF X
    <2> QED
        BY <1>1 DEF Apps
<1> QED
    BY <1>1, <1>2, <1>3

(* expand_to_node and then select_node keep the mark right.                *)
LEMMA ExpandAndSelect ==
    ASSUME NEW a, Sound(a), NEW n \in Nodes
    PROVE  Sound(SelectNode(Expand(a, n), n))
<1>1. PICK X \in SUBSET Above[n] :
              /\ Expand(a, n) = [a EXCEPT !.expanded = @ \cup X]
              /\ Expand(a, n) \in Apps
              /\ n \in a.snap.nodes => X = Above[n] \ AtWorkspaces
              /\ n \notin a.snap.nodes => X = {}
    BY ExpandFacts DEF Sound
<1> DEFINE b == Expand(a, n)
<1>2. b = [a EXCEPT !.expanded = @ \cup X, !.unfolded = a.unfolded] /\ a.unfolded \in BOOLEAN
    BY <1>1 DEF Sound, Apps
<1>3. n \in a.snap.nodes => Above[n] \ AtWorkspaces \subseteq b.expanded
    BY <1>1 DEF Sound, Apps
<1> HIDE DEF b
<1>4. Sound(SelectNode(b, n))
    BY <1>1, <1>2, <1>3, SelectKeepsSound DEF b, Unfolds
<1> QED
    BY <1>4 DEF b

(* reveal_and_select_node.                                                 *)
LEMMA RevealFacts ==
    ASSUME NEW a \in Apps, NEW n \in Nodes
    PROVE  /\ Sound(a) => Sound(RevealAndSelect(a, n))
           /\ n \in Offered(a.snap) => Sound(RevealAndSelect(a, n))
<1> DEFINE c == [a EXCEPT !.unfolded = TRUE]
           b == Expand(c, n)
<1>1. c \in Apps /\ c.snap = a.snap /\ c.expanded = a.expanded /\ c.unfolded
    BY DEF Apps
<1>2. PICK X \in SUBSET Above[n] :
              /\ b = [c EXCEPT !.expanded = @ \cup X]
              /\ b \in Apps
              /\ n \in a.snap.nodes => X = Above[n] \ AtWorkspaces
              /\ n \notin a.snap.nodes => X = {}
    <2> HIDE DEF c
    <2> QED
        BY <1>1, ExpandFacts
<1>3. /\ b = [a EXCEPT !.expanded = @ \cup X, !.unfolded = TRUE]
      /\ b.snap = a.snap /\ b.unfolded /\ b.expanded = a.expanded \cup X
    <2> HIDE DEF b
    <2> QED
        BY <1>2 DEF Apps
<1>4. RevealAndSelect(a, n) = SelectNode(b, n)
    BY DEF RevealAndSelect
<1> HIDE DEF b, c
<1>5. Sound(a) => Sound(SelectNode(b, n))
    BY <1>2, <1>3, SelectKeepsSound DEF Unfolds
<1>6. ASSUME n \in Offered(a.snap) PROVE Sound(SelectNode(b, n))
    <2>1. n \in a.snap.nodes
        BY <1>6 DEF Offered
    <2>2. Above[n] \subseteq Unfolded(b)
        BY <1>2, <1>3, <2>1 DEF Unfolded
    <2>3. n \in Shown(b)
        BY <1>3, <1>6, <2>2 DEF Shown
    <2> QED
        BY <1>2, <2>3, SelectMarks DEF Sound
<1> QED
    BY <1>4, <1>5, <1>6

----------------------------------------------------------------------------
(* A snapshot in the place of the one before.                              *)

KeepOr(old, seq) == IF Contains(seq, old) THEN old ELSE IF seq = <<>> THEN Root ELSE seq[1]

(* What is kept of a level is a child of what is kept above it, if any.    *)
LEMMA KeptChild ==
    ASSUME NEW s \in States, NEW n, NEW old
    PROVE  LET k == KeepOr(old, Children(s, n)) IN
           k = Root \/ (k \in s.nodes /\ k \in Nodes /\ Tree[k] = n)
<1> DEFINE S == {m \in s.nodes : Tree[m] = n}
           seq == Children(s, n)
<1>1. s.order \in Seq(Nodes) /\ Range(s.order) = Nodes /\ s.nodes \subseteq Nodes
    BY DEF States, InPreorder
<1>2. /\ seq \in Seq(Nodes \cap S) /\ Range(seq) = Nodes \cap S
      /\ \A m : Contains(seq, m) <=> m \in Nodes \cap S
    <2>1. seq = Only(s.order, S)
        BY DEF Children
    <2> HIDE DEF S, seq
    <2> QED
        BY <1>1, <2>1, OnlyRange
<1>3. seq # <<>> => seq[1] \in Nodes \cap S
    <2> HIDE DEF seq, S
    <2>1. seq # <<>> => 1 \in 1 .. Len(seq)
        BY <1>2, EmptySeq
    <2> QED
        BY <1>2, <2>1, ElementOfSeq
<1> QED
    BY <1>2, <1>3 DEF KeepOr

IsPath(s, p, w, k) ==
    IF p = Root THEN <<p, w, k>> = NoSelection
    ELSE \E n \in Offered(s) : /\ <<p, w, k>> = PathTo[n] /\ Depth[n] # 0
                               /\ Above[n] \subseteq {s.open, p, w}

(* A Project, a Worktree below it and a Session below that are a path.     *)
LEMMA PathOf ==
    ASSUME NEW s \in States, s.open # Root, NEW p, NEW w, NEW k,
           p = Root \/ (p \in s.nodes /\ Tree[p] = s.open),
           w = Root \/ (w \in s.nodes /\ Tree[w] = p /\ p # Root),
           k = Root \/ (k \in s.nodes /\ Tree[k] = w /\ w # Root)
    PROVE  IsPath(s, p, w, k)
<1> USE DEF IsPath
<1>1. /\ s.nodes \subseteq Nodes /\ s.open \in s.nodes /\ Depth[s.open] = 0
      /\ Root \notin Nodes
    BY ExplorerAssumption DEF States
<1>2. CASE p = Root
    <2>1. w = Root /\ k = Root
        BY <1>2
    <2>2. <<p, w, k>> = [d \in 1 .. 3 |-> Root]
        BY <1>2, <2>1
    <2> QED
        BY <1>2, <2>2 DEF NoSelection
<1>3. CASE p # Root
    <2>1. /\ p \in Nodes /\ p \in s.nodes /\ Depth[p] = 1 /\ Above[p] = {s.open}
        BY <1>1, <1>3, TreeFacts
    <2>2. p \in Offered(s)
        BY <2>1 DEF Offered, Has
    <2>3. ASSUME NEW n \in Nodes, NEW q, q = PathTo[n]
          PROVE  /\ q \in [1 .. 3 -> Nodes \cup {Root}]
                 /\ \A d \in 1 .. 3 :
                       IF d <= Depth[n] THEN q[d] \in Above[n] \cup {n} /\ Depth[q[d]] = d
                       ELSE q[d] = Root
        BY <2>3, PathToFacts
    <2>4. CASE w = Root
        <3>1. k = Root
            BY <2>4
        <3> DEFINE q == PathTo[p]
        <3>2. q[1] = p /\ q[2] = Root /\ q[3] = Root /\ q \in [1 .. 3 -> Nodes \cup {Root}]
            BY <2>1, <2>3, <1>1
        <3> HIDE DEF q
        <3>3. <<p, w, k>> = q
            BY <3>1, <3>2, <2>4
        <3> QED
            BY <1>3, <2>1, <2>2, <3>3 DEF q
    <2>5. CASE w # Root
        <3>1. w \in Nodes /\ w \in s.nodes /\ Depth[w] = 2 /\ Above[w] = {p, s.open}
            BY <1>1, <2>1, <2>5, TreeFacts
        <3>2. w \in Offered(s)
            BY <3>1 DEF Offered, Has
        <3>3. CASE k = Root
            <4> DEFINE q == PathTo[w]
            <4>1. q[1] = p /\ q[2] = w /\ q[3] = Root /\ q \in [1 .. 3 -> Nodes \cup {Root}]
                BY <2>1, <2>3, <3>1, <1>1
            <4> HIDE DEF q
            <4>2. <<p, w, k>> = q
                BY <3>3, <4>1
            <4> QED
                BY <1>3, <3>1, <3>2, <4>2 DEF q
        <3>4. CASE k # Root
            <4>0. k \in Nodes /\ k \in s.nodes /\ Depth[k] = 3 /\ Above[k] = {w, p, s.open}
                BY <1>1, <3>1, <3>4, TreeFacts
            <4>i. k \in Offered(s)
                BY <4>0 DEF Offered, Has
            <4> DEFINE q == PathTo[k]
            <4>s. /\ q \in [1 .. 3 -> Nodes \cup {Root}]
                  /\ \A d \in 1 .. 3 : q[d] \in {w, p, s.open, k} /\ Depth[q[d]] = d
                BY <2>3, <4>0
            <4> HIDE DEF q
            <4>1. q[1] = p /\ q[2] = w /\ q[3] = k
                BY <4>s, <2>1, <3>1, <4>0, <1>1
            <4>2. <<p, w, k>> = q
                BY <4>1, <4>s
            <4> QED
                BY <1>3, <4>0, <4>i, <4>2 DEF q
        <3> QED
            BY <3>3, <3>4
    <2> QED
        BY <2>4, <2>5
<1> QED
    BY <1>2, <1>3

(* restore_selection selects what is offered; it is marked unless it is a  *)
(* Project, or below one, under a folded Workspace.                        *)
LEMMA RestoreFacts ==
    ASSUME NEW a \in Apps
    PROVE  LET r == RestoreSelection(a) IN
           /\ r \in Apps /\ r.snap = a.snap /\ r.shifted = a.shifted
           /\ a.snap.open # Root /\ (a.unfolded \/ r.workspace) => Agrees(r)
<1> DEFINE r == RestoreSelection(a)
           p == KeepOr(a.sel[1], Children(a.snap, a.snap.open))
           w == IF p = Root THEN Root ELSE KeepOr(a.sel[2], Children(a.snap, p))
           k == IF w = Root THEN Root ELSE KeepOr(a.sel[3], Children(a.snap, w))
           b == [a EXCEPT !.sel = NoSelection]
           c == [a EXCEPT !.sel = <<p, w, k>>, !.workspace = p = Root,
                          !.expanded = @ \cup ({p, w} \ {Root})]
<1>1. r = IF a.snap.open = Root THEN [a EXCEPT !.workspace = FALSE, !.sel = NoSelection, !.row = 1]
          ELSE IF a.workspace THEN SyncExplorerIndex(b) ELSE SyncExplorerIndex(c)
    BY DEF RestoreSelection, KeepOr
<1>0. a.snap \in States /\ a.unfolded \in BOOLEAN
    BY DEF Apps
<1>2. CASE a.snap.open = Root
    <2>1. NoSelection \in Selections /\ 1 \in Nat \ {0}
        BY DEF Selections
    <2>2. r = [a EXCEPT !.workspace = FALSE, !.sel = NoSelection, !.row = 1]
        BY <1>1, <1>2
    <2> HIDE DEF r
    <2> QED
        BY <2>1, <2>2, <1>2 DEF Apps, r
<1>3. CASE a.snap.open # Root /\ a.workspace
    <2>1. b \in Apps
        BY DEF Apps, Selections
    <2>2. /\ b.snap = a.snap /\ b.shifted = a.shifted /\ b.workspace = a.workspace
          /\ b.sel = NoSelection
        BY DEF Apps
    <2>3. r = SyncExplorerIndex(b)
        BY <1>1, <1>3
    <2> HIDE DEF b, r
    <2>4. Target(b) = a.snap.open
        BY <1>3, <2>2, TargetFacts
    <2>5. Target(b) \in Shown(b)
        BY <1>3, <2>1, <2>2, <2>4, ShownFacts
    <2>6. PICK q \in Nat \ {0} : /\ SyncExplorerIndex(b) = [b EXCEPT !.row = q]
                                 /\ SyncExplorerIndex(b) \in Apps
                                 /\ Target(b) \in Shown(b) => Agrees(SyncExplorerIndex(b))
        BY <2>1, SyncMarks
    <2>7. r \in Apps /\ Agrees(r)
        BY <2>3, <2>5, <2>6
    <2>8. r.snap = a.snap /\ r.shifted = a.shifted
        BY <2>1, <2>2, <2>3, <2>6 DEF Apps
    <2> QED
        BY <2>7, <2>8 DEF r
<1>4. CASE a.snap.open # Root /\ ~a.workspace
    <2>1. p = Root \/ (p \in a.snap.nodes /\ Tree[p] = a.snap.open)
        BY <1>0, KeptChild
    <2>2. w = Root \/ (w \in a.snap.nodes /\ Tree[w] = p /\ p # Root)
        <3> HIDE DEF p
        <3> QED
            BY <1>0, KeptChild
    <2>3. k = Root \/ (k \in a.snap.nodes /\ Tree[k] = w /\ w # Root)
        <3> HIDE DEF w
        <3> QED
            BY <1>0, KeptChild
    <2>4. r = SyncExplorerIndex(c)
        BY <1>1, <1>4
    <2> HIDE DEF p, w, k, r, b, c
    <2>5. IF p = Root THEN <<p, w, k>> = NoSelection
          ELSE \E n \in Offered(a.snap) : /\ <<p, w, k>> = PathTo[n] /\ Depth[n] # 0
                                          /\ Above[n] \subseteq {a.snap.open, p, w}
        <3>1. IsPath(a.snap, p, w, k)
            BY <1>0, <1>4, <2>1, <2>2, <2>3, PathOf
        <3> QED
            BY <3>1 DEF IsPath
    <2>n. a.snap.nodes \subseteq Nodes /\ Offered(a.snap) \subseteq Nodes /\ Depth[a.snap.open] = 0
        BY <1>0, <1>4, OfferedFacts DEF States
    <2>6. <<p, w, k>> \in Selections
        BY <2>5, <2>n DEF Selections
    <2>7. {p, w} \ {Root} \subseteq Nodes \ AtWorkspaces
        <3>1. \A m \in Nodes : Tree[m] # Root => Depth[m] # 0
            BY TreeFacts
        <3>2. p # Root => p \in Nodes /\ Depth[p] # 0
            BY <2>1, <2>n, <3>1, <1>4
        <3>3. w # Root => w \in Nodes /\ Depth[w] # 0
            BY <2>2, <2>n, <3>1
        <3> QED
            BY <3>2, <3>3 DEF AtWorkspaces
    <2>8. c \in Apps
        BY <2>6, <2>7 DEF Apps, c
    <2>9. /\ c.snap = a.snap /\ c.shifted = a.shifted /\ c.workspace = (p = Root)
          /\ c.sel = <<p, w, k>> /\ c.unfolded = a.unfolded
          /\ c.expanded = a.expanded \cup ({p, w} \ {Root})
        BY DEF Apps, c
    <2>10. ASSUME a.unfolded \/ p = Root PROVE Target(c) \in Shown(c)
        <3>1. CASE p = Root
            <4>1. Target(c) = a.snap.open
                BY <3>1, <2>5, <2>9, TargetFacts
            <4> QED
                BY <4>1, <2>8, <2>9, <1>4, ShownFacts
        <3>2. CASE p # Root
            <4>1. PICK n \in Offered(a.snap) : /\ <<p, w, k>> = PathTo[n] /\ Depth[n] # 0
                                               /\ Above[n] \subseteq {a.snap.open, p, w}
                BY <3>2, <2>5
            <4>2. n \in Nodes /\ Above[n] \subseteq Nodes /\ Root \notin Nodes
                BY <2>n, TreeFacts, ExplorerAssumption
            <4>3. Target(c) = n
                BY <4>1, <4>2, <2>9, TargetFacts
            <4>4. a.snap.open \in AtWorkspaces
                BY <1>0, <1>4, <2>n DEF AtWorkspaces, States
            <4>5. Above[n] \subseteq Unfolded(c)
                BY <4>1, <4>2, <4>4, <2>9, <2>10, <3>2 DEF Unfolded
            <4> QED
                BY <4>1, <4>3, <4>5, <2>9 DEF Shown
        <3> QED
            BY <3>1, <3>2
    <2>11. PICK q \in Nat \ {0} : /\ SyncExplorerIndex(c) = [c EXCEPT !.row = q]
                                  /\ SyncExplorerIndex(c) \in Apps
                                  /\ Target(c) \in Shown(c) => Agrees(SyncExplorerIndex(c))
        BY <2>8, SyncMarks
    <2>12. r.snap = a.snap /\ r.shifted = a.shifted /\ r.workspace = (p = Root)
        BY <2>4, <2>8, <2>9, <2>11 DEF Apps
    <2> QED
        BY <2>4, <2>10, <2>11, <2>12 DEF r
<1> QED
    BY <1>2, <1>3, <1>4, <1>0 DEF Apps

(* The first of a filtered sequence, if there is one.                      *)
LEMMA FirstOfOnly ==
    ASSUME NEW T, NEW seq \in Seq(T), NEW S, Only(seq, S) # <<>>
    PROVE  Only(seq, S)[1] \in T \cap S
<1> DEFINE o == Only(seq, S)
<1>1. o \in Seq(T \cap S)
    BY OnlyRange
<1> HIDE DEF o
<1>2. 1 \in 1 .. Len(o)
    <2>1. o # <<>>
        BY DEF o
    <2> QED
        BY <1>1, <2>1, EmptySeq
<1>3. o[1] \in T \cap S
    BY <1>1, <1>2, ElementOfSeq
<1> QED
    BY <1>3 DEF o

(* Without its Session a selection is of what was above it.                *)
LEMMA WithoutSession ==
    ASSUME NEW sel \in Selections
    PROVE  \/ [sel EXCEPT ![3] = Root] = sel
           \/ \E n \in Nodes : /\ sel = PathTo[n] /\ Depth[n] = 3
                               /\ [sel EXCEPT ![3] = Root] = PathTo[Tree[n]]
<1> DEFINE less == [sel EXCEPT ![3] = Root]
<1>1. CASE sel = NoSelection
    <2>1. less = sel
        BY <1>1 DEF NoSelection
    <2> QED
        BY <2>1
<1>2. ASSUME NEW n \in Nodes, sel = PathTo[n]
      PROVE  less = sel \/ (Depth[n] = 3 /\ less = PathTo[Tree[n]])
    <2>1. /\ sel \in [1 .. 3 -> Nodes \cup {Root}]
          /\ \A d \in 1 .. 3 :
                IF d <= Depth[n] THEN sel[d] \in Above[n] \cup {n} /\ Depth[sel[d]] = d
                ELSE sel[d] = Root
          /\ Depth[n] \in 0 .. 3
        BY <1>2, PathToFacts, TreeFacts
    <2>2. CASE Depth[n] # 3
        <3>1. sel[3] = Root
            BY <2>1, <2>2
        <3> QED
            BY <2>1, <3>1
    <2>3. CASE Depth[n] = 3
        <3> DEFINE t == Tree[n]
                   q == PathTo[t]
        <3>1. /\ t \in Nodes /\ Depth[t] = 2 /\ Above[n] = {t} \cup Above[t]
            BY <2>3, TreeFacts
        <3>2. /\ q \in [1 .. 3 -> Nodes \cup {Root}]
              /\ \A d \in 1 .. 3 :
                    IF d <= Depth[t] THEN q[d] \in Above[t] \cup {t} /\ Depth[q[d]] = d
                    ELSE q[d] = Root
            BY <3>1, PathToFacts
        <3>3. \A x, y \in Above[n] \cup {n} : Depth[x] = Depth[y] => x = y
            BY PathFacts
        <3> HIDE DEF q, t
        <3>4. q[1] = sel[1] /\ q[2] = sel[2] /\ q[3] = Root
            <4>1. /\ q[1] \in Above[n] \cup {n} /\ Depth[q[1]] = 1
                  /\ q[2] \in Above[n] \cup {n} /\ Depth[q[2]] = 2
                  /\ q[3] = Root
                BY <3>1, <3>2
            <4>2. /\ sel[1] \in Above[n] \cup {n} /\ Depth[sel[1]] = 1
                  /\ sel[2] \in Above[n] \cup {n} /\ Depth[sel[2]] = 2
                BY <2>1, <2>3
            <4> QED
                BY <4>1, <4>2, <3>3
        <3>5. less = q
            BY <2>1, <3>2, <3>4
        <3> QED
            BY <2>3, <3>5 DEF q, t
    <2> QED
        BY <2>2, <2>3
<1> QED
    BY <1>1, <1>2 DEF Selections

(* reconcile_overview_selection keeps the mark right.                      *)
LEMMA ReconcileKeepsSound ==
    ASSUME NEW a, Sound(a)
    PROVE  Sound(ReconcileOverview(a))
<1> DEFINE ids == Overview(a.snap)
           b == [a EXCEPT !.sel[3] = Root]
<1>0. a \in Apps /\ a.snap \in States /\ a.sel \in Selections
    BY DEF Sound, Apps
<1>1. ReconcileOverview(a) = IF ~a.active \/ Contains(ids, a.sel[3]) THEN a
                             ELSE IF ids # <<>> THEN RevealAndSelect(a, ids[1])
                             ELSE SyncExplorerIndex(b)
    BY DEF ReconcileOverview
<1>2. ids # <<>> => ids[1] \in Nodes /\ ids[1] \in Offered(a.snap)
    <2>1. a.snap.overview \in Seq(Nodes)
        BY <1>0 DEF States
    <2> QED
        BY <2>1, FirstOfOnly DEF Overview
<1> HIDE DEF ids
<1>3. ids # <<>> => Sound(RevealAndSelect(a, ids[1]))
    BY <1>0, <1>2, RevealFacts
<1>4. Sound(SyncExplorerIndex(b))
    <2>1. /\ b.snap = a.snap /\ b.shifted = a.shifted /\ b.expanded = a.expanded
          /\ b.unfolded = a.unfolded /\ b.sel = [a.sel EXCEPT ![3] = Root]
          /\ b.workspace = a.workspace
        BY <1>0 DEF Apps
    <2>2. \/ b.sel = a.sel
          \/ \E n \in Nodes : a.sel = PathTo[n] /\ Depth[n] = 3 /\ b.sel = PathTo[Tree[n]]
        BY <1>0, <2>1, WithoutSession
    <2>3. b.sel \in Selections
        BY <1>0, <2>2, TreeFacts DEF Selections
    <2>4. b \in Apps
        BY <1>0, <2>1, <2>3 DEF Apps
    <2> HIDE DEF b
    <2>5. ASSUME a.snap.open # Root, ~a.shifted PROVE Target(b) \in Shown(b)
        <3>1. Target(a) \in Shown(a) /\ Shown(b) = Shown(a)
            BY <2>1, <2>5, SameRows DEF Sound, Agrees
        <3>2. CASE b.sel = a.sel
            <4>1. Target(b) = Target(a)
                BY <2>1, <3>2 DEF Target
            <4> QED
                BY <3>1, <4>1
        <3>3. CASE b.sel # a.sel
            <4>1. PICK n \in Nodes :
                     a.sel = PathTo[n] /\ Depth[n] = 3 /\ b.sel = PathTo[Tree[n]]
                BY <2>2, <3>3
            <4>2. /\ Tree[n] \in Nodes /\ Depth[Tree[n]] # 0 /\ Tree[n] \in Above[n]
                BY <4>1, TreeFacts
            <4>3. Target(a) = n /\ Target(b) = Tree[n]
                BY <4>1, <4>2, TargetFacts
            <4> QED
                BY <1>0, <3>1, <4>2, <4>3, ShownFacts
        <3> QED
            BY <3>2, <3>3
    <2>6. PICK q \in Nat \ {0} : /\ SyncExplorerIndex(b) = [b EXCEPT !.row = q]
                                 /\ SyncExplorerIndex(b) \in Apps
                                 /\ Target(b) \in Shown(b) => Agrees(SyncExplorerIndex(b))
        BY <2>4, SyncMarks
    <2>7. SyncExplorerIndex(b).snap = a.snap /\ SyncExplorerIndex(b).shifted = a.shifted
        BY <2>1, <2>4, <2>6 DEF Apps
    <2> QED
        BY <2>5, <2>6, <2>7 DEF Sound
<1> HIDE DEF b
<1> QED
    BY <1>1, <1>3, <1>4

(* What is fallen back on is nodes, and what is marked is one or none.     *)
LEMMA FallbacksFacts ==
    ASSUME NEW a \in Apps
    PROVE  Fallbacks(a) \in Seq(Nodes \cup {Root}) /\ RowNode(a) \in Nodes \cup {Root}
<1> DEFINE n == RowNode(a)
           seq == Children(a.snap, Tree[n])
<1>1. n \in Nodes \cup {Root}
    BY RowsFacts, LenProperties, ElementOfSeq DEF RowNode
<1>2. <<>> \in Seq(Nodes \cup {Root})
    OBVIOUS
<1>3. seq \in Seq(Nodes)
    <2>1. a.snap.order \in Seq(Nodes)
        BY DEF Apps, States
    <2>2. seq \in Seq(Nodes \cap {m \in a.snap.nodes : Tree[m] = Tree[n]})
        BY <2>1, OnlyRange DEF Children
    <2> QED
        BY <2>2, SeqMonotonic
<1> HIDE DEF n, seq
<1>4. Nearest(seq, n) \in Seq(Nodes \cup {Root})
    <2> DEFINE i(k) == IF k % 2 = 1 THEN Position(seq, n) + (k + 1) \div 2
                       ELSE Position(seq, n) - k \div 2
               at(k) == IF i(k) \in DOMAIN seq THEN seq[i(k)] ELSE Root
    <2>1. Nearest(seq, n) = [k \in 1 .. 2 * Len(seq) |-> at(k)]
        BY DEF Nearest
    <2>2. Len(seq) \in Nat /\ DOMAIN seq = 1 .. Len(seq) /\ \A j \in 1 .. Len(seq) : seq[j] \in Nodes
        BY <1>3, LenProperties, ElementOfSeq
    <2>3. \A k : at(k) \in Nodes \cup {Root}
        <3> HIDE DEF i
        <3> QED
            BY <2>2
    <2> HIDE DEF at
    <2>4. 2 * Len(seq) \in Nat
        BY <2>2
    <2>5. [k \in 1 .. 2 * Len(seq) |-> at(k)] \in [1 .. 2 * Len(seq) -> Nodes \cup {Root}]
        BY <2>3
    <2>6. \A l \in Nat : \A f \in [1 .. l -> Nodes \cup {Root}] : f \in Seq(Nodes \cup {Root})
        OBVIOUS
    <2> QED
        BY <2>1, <2>4, <2>5, <2>6
<1>5. ASSUME n # Root PROVE Parents[n] \in Seq(Nodes \cup {Root})
    <2>1. n \in Nodes
        BY <1>1, <1>5
    <2>2. \A m \in Nodes \cup {Root} : Parent(m) \in Nodes \cup {Root}
        BY TreeFacts DEF Parent
    <2>3. Parents[n] = <<Parent(n), Parent(Parent(n)), Parent(Parent(Parent(n)))>>
        BY <2>1 DEF Parents
    <2> DEFINE x == Parent(n)
               y == Parent(x)
               z == Parent(y)
    <2>4. x \in Nodes \cup {Root} /\ y \in Nodes \cup {Root} /\ z \in Nodes \cup {Root}
        BY <2>1, <2>2
    <2> HIDE DEF x, y, z
    <2>5. <<x, y, z>> \in Seq(Nodes \cup {Root})
        BY <2>4
    <2> QED
        BY <2>3, <2>5 DEF x, y, z
<1>6. Fallbacks(a) = IF n = Root \/ Tree[n] = Root THEN <<>> ELSE Nearest(seq, n) \o Parents[n]
    BY DEF Fallbacks, n, seq
<1>7. n # Root => Nearest(seq, n) \o Parents[n] \in Seq(Nodes \cup {Root})
    BY <1>4, <1>5, ConcatProperties
<1> QED
    BY <1>1, <1>2, <1>6, <1>7 DEF n

(* replace_snapshot leaves the mark on what the identities name, whatever  *)
(* they were before.                                                       *)
LEMMA ReplaceIsSound ==
    ASSUME NEW a \in Apps, NEW s \in States
    PROVE  Sound(ReplaceSnapshot(a, s))
<1> DEFINE before == RowNode(a)
           stale == before # Root /\ ~Has(s, before)
           left == Only(Fallbacks(a), Offered(s))
           kept == IF ~stale THEN before ELSE IF left # <<>> THEN left[1] ELSE s.open
           placed == IF stale THEN [Placed(a, s) EXCEPT !.workspace = FALSE, !.sel = NoSelection]
                     ELSE Placed(a, s)
           restored == RestoreSelection(placed)
           revealed == IF kept # Root THEN RevealAndSelect(restored, kept)
                       ELSE [restored EXCEPT !.shifted = ~a.unfolded /\ ~restored.workspace]
<1>1. ReplaceSnapshot(a, s) = ReconcileOverview(revealed)
    BY DEF ReplaceSnapshot
<1>2. placed \in Apps /\ placed.snap = s /\ placed.unfolded = a.unfolded /\ ~placed.shifted
    <2>1. Placed(a, s) \in Apps
        BY DEF Placed, Apps
    <2>2. Placed(a, s).snap = s /\ Placed(a, s).unfolded = a.unfolded /\ ~Placed(a, s).shifted
        BY DEF Placed, Apps
    <2>3. [Placed(a, s) EXCEPT !.workspace = FALSE, !.sel = NoSelection] \in Apps
        BY <2>1 DEF Apps, Selections
    <2>4. /\ [Placed(a, s) EXCEPT !.workspace = FALSE, !.sel = NoSelection].snap = s
          /\ [Placed(a, s) EXCEPT !.workspace = FALSE, !.sel = NoSelection].unfolded = a.unfolded
          /\ ~[Placed(a, s) EXCEPT !.workspace = FALSE, !.sel = NoSelection].shifted
        <3> DEFINE pl == Placed(a, s)
        <3> HIDE DEF pl
        <3> QED
            BY <2>1, <2>2 DEF Apps, pl
    <2> QED
        BY <2>1, <2>2, <2>3, <2>4
<1>3. kept # Root => kept \in Nodes /\ kept \in Offered(s)
    <2>0. before \in Nodes \cup {Root}
        BY FallbacksFacts
    <2>1. CASE ~stale
        BY <2>0, <2>1 DEF Offered, Has
    <2>2. CASE stale /\ left # <<>>
        <3>1. left[1] \in (Nodes \cup {Root}) \cap Offered(s)
            BY <2>2, FallbacksFacts, FirstOfOnly
        <3>2. Offered(s) \subseteq Nodes
            BY OfferedFacts
        <3> QED
            BY <2>2, <3>1, <3>2
    <2>3. CASE stale /\ left = <<>>
        BY <2>3, OfferedFacts
    <2> QED
        BY <2>1, <2>2, <2>3
<1> HIDE DEF placed, kept
<1>4. /\ restored \in Apps /\ restored.snap = s /\ ~restored.shifted
      /\ s.open # Root /\ (a.unfolded \/ restored.workspace) => Agrees(restored)
    BY <1>2, RestoreFacts
<1> HIDE DEF restored
<1>5. Sound(revealed)
    <2>1. CASE kept # Root
        BY <1>3, <1>4, <2>1, RevealFacts
    <2>2. CASE kept = Root
        <3> DEFINE h == ~a.unfolded /\ ~restored.workspace
                   r == [restored EXCEPT !.shifted = h]
        <3>1. /\ r \in Apps /\ r.snap = restored.snap /\ r.shifted = h /\ r.sel = restored.sel
              /\ r.row = restored.row /\ r.workspace = restored.workspace
              /\ r.expanded = restored.expanded /\ r.unfolded = restored.unfolded
            BY <1>4 DEF Apps
        <3>2. revealed = r
            BY <2>2
        <3> HIDE DEF r
        <3>3. Agrees(restored) => Agrees(r)
            <4>1. Shown(r) = Shown(restored) /\ Rows(r) = Rows(restored)
                BY <3>1, SameRows
            <4> QED
                BY <3>1, <4>1 DEF Agrees, Target, RowNode
        <3> QED
            BY <1>4, <3>1, <3>2, <3>3 DEF Sound
    <2> QED
        BY <2>1, <2>2
<1> HIDE DEF revealed
<1> QED
    BY <1>1, <1>5, ReconcileKeepsSound

----------------------------------------------------------------------------
(* The daemon's states stay as they are read.                              *)

Ordered(seq) ==
    \A i, j \in 1 .. Len(seq) :
       /\ seq[i] = seq[j] => i = j
       /\ seq[i] \in Above[seq[j]] => i < j

(* A filtered sequence has its elements in their order, each once.         *)
LEMMA OnlyOrdered ==
    ASSUME NEW seq \in Seq(Nodes), Ordered(seq), NEW S
    PROVE  Ordered(Only(seq, S))
<1> DEFINE o == Only(seq, S)
<1>1. /\ o \in Seq(Nodes \cap S)
      /\ \A j \in 1 .. Len(seq) : seq[j] \in S => o[RankIn(seq, S, j)] = seq[j]
      /\ \A k \in 1 .. Len(o) : \E j \in 1 .. Len(seq) : seq[j] \in S /\ RankIn(seq, S, j) = k
    BY OnlyByRank
<1> HIDE DEF o
<1>2. Len(seq) \in Nat
    BY LenProperties
<1>3. ASSUME NEW k \in 1 .. Len(o), NEW l \in 1 .. Len(o)
      PROVE  /\ o[k] = o[l] => k = l
             /\ o[k] \in Above[o[l]] => k < l
    <2>1. PICK i \in 1 .. Len(seq) : seq[i] \in S /\ RankIn(seq, S, i) = k
        BY <1>1
    <2>2. PICK j \in 1 .. Len(seq) : seq[j] \in S /\ RankIn(seq, S, j) = l
        BY <1>1
    <2>3. o[k] = seq[i] /\ o[l] = seq[j]
        BY <1>1, <2>1, <2>2
    <2>4. i < j => k < l
        <3>1. i \in Nat /\ j \in Nat \ {0}
            BY <1>2
        <3>2. i < j => RankIn(seq, S, i) < RankIn(seq, S, j)
            BY <2>2, <3>1, RankGrows
        <3> QED
            BY <2>1, <2>2, <3>2
    <2>5. /\ seq[i] = seq[j] => i = j
          /\ seq[i] \in Above[seq[j]] => i < j
        BY DEF Ordered
    <2> QED
        BY <2>1, <2>2, <2>3, <2>4, <2>5
<1> QED
    BY <1>3 DEF Ordered, o

Inserted(r, p, m) == SubSeq(r, 1, p) \o m \o SubSeq(r, p + 1, Len(r))

(* A sequence put into another.                                            *)
LEMMA PutInto ==
    ASSUME NEW T, NEW r \in Seq(T), NEW m \in Seq(T), NEW p \in 0 .. Len(r)
    PROVE  /\ Inserted(r, p, m) \in Seq(T) /\ Len(Inserted(r, p, m)) = Len(r) + Len(m)
           /\ \A i \in 1 .. p : Inserted(r, p, m)[i] = r[i]
           /\ \A i \in 1 .. Len(m) : Inserted(r, p, m)[p + i] = m[i]
           /\ \A i \in p + 1 .. Len(r) : Inserted(r, p, m)[Len(m) + i] = r[i]
<1> DEFINE x == SubSeq(r, 1, p)
           y == SubSeq(r, p + 1, Len(r))
<1>1. Len(r) \in Nat /\ Len(m) \in Nat /\ p \in Nat /\ \A i \in 1 .. Len(r) : r[i] \in T
    BY LenProperties, ElementOfSeq
<1>2. x \in Seq(T) /\ Len(x) = p /\ \A i \in 1 .. p : x[i] = r[i]
    <2>1. \A i \in 1 .. p : r[i] \in T
        BY <1>1
    <2>2. /\ x \in Seq(T) /\ Len(x) = IF 1 <= p THEN p - 1 + 1 ELSE 0
          /\ \A i \in 1 .. p - 1 + 1 : x[i] = r[1 + i - 1]
        BY <1>1, <2>1, SubSeqProperties
    <2> HIDE DEF x
    <2> QED
        BY <1>1, <2>2
<1>3. y \in Seq(T) /\ Len(y) = Len(r) - p /\ \A i \in 1 .. Len(r) - p : y[i] = r[p + i]
    <2>1. \A i \in p + 1 .. Len(r) : r[i] \in T
        BY <1>1
    <2>2. /\ y \in Seq(T) /\ Len(y) = IF p + 1 <= Len(r) THEN Len(r) - (p + 1) + 1 ELSE 0
          /\ \A i \in 1 .. Len(r) - (p + 1) + 1 : y[i] = r[p + 1 + i - 1]
        BY <1>1, <2>1, SubSeqProperties
    <2> HIDE DEF y
    <2>3. \A i \in 1 .. Len(r) - p : y[i] = r[p + i]
        <3> SUFFICES ASSUME NEW i \in 1 .. Len(r) - p PROVE y[i] = r[p + i]
            OBVIOUS
        <3>1. i \in 1 .. Len(r) - (p + 1) + 1 /\ p + 1 + i - 1 = p + i
            BY <1>1
        <3> QED
            BY <2>2, <3>1
    <2> QED
        BY <1>1, <2>2, <2>3
<1> HIDE DEF x, y
<1>4. /\ x \o m \in Seq(T) /\ Len(x \o m) = p + Len(m)
      /\ \A i \in 1 .. p + Len(m) : (x \o m)[i] = IF i <= p THEN x[i] ELSE m[i - p]
    BY <1>1, <1>2, ConcatProperties
<1> DEFINE z == x \o m
<1> HIDE DEF z
<1>z. z \in Seq(T) /\ Len(z) = p + Len(m)
    BY <1>4 DEF z
<1>5. /\ z \o y \in Seq(T) /\ Len(z \o y) = Len(z) + Len(y)
      /\ \A i \in 1 .. Len(z) + Len(y) :
            (z \o y)[i] = IF i <= Len(z) THEN z[i] ELSE y[i - Len(z)]
    BY <1>3, <1>z, ConcatProperties
<1> DEFINE new == z \o y
<1> HIDE DEF new
<1>6. /\ new \in Seq(T) /\ Len(new) = Len(r) + Len(m)
      /\ \A i \in 1 .. Len(r) + Len(m) :
            new[i] = IF i <= p + Len(m) THEN z[i] ELSE y[i - (p + Len(m))]
    <2>1. Len(z) + Len(y) = Len(r) + Len(m)
        BY <1>1, <1>3, <1>z
    <2> QED
        BY <1>5, <1>z, <2>1 DEF new
<1>7. ASSUME NEW i \in 1 .. p PROVE new[i] = r[i]
    <2>1. i \in 1 .. Len(r) + Len(m) /\ i <= p + Len(m) /\ i \in 1 .. p + Len(m) /\ i <= p
        BY <1>1
    <2> QED
        BY <2>1, <1>2, <1>4, <1>6 DEF z
<1>8. ASSUME NEW i \in 1 .. Len(m) PROVE new[p + i] = m[i]
    <2>1. /\ p + i \in 1 .. Len(r) + Len(m) /\ p + i <= p + Len(m) /\ p + i \in 1 .. p + Len(m)
          /\ ~(p + i <= p) /\ p + i - p = i
        BY <1>1
    <2> QED
        BY <2>1, <1>4, <1>6 DEF z
<1>9. ASSUME NEW i \in p + 1 .. Len(r) PROVE new[Len(m) + i] = r[i]
    <2>1. /\ Len(m) + i \in 1 .. Len(r) + Len(m) /\ ~(Len(m) + i <= p + Len(m))
          /\ Len(m) + i - (p + Len(m)) = i - p /\ i - p \in 1 .. Len(r) - p /\ p + (i - p) = i
        BY <1>1
    <2>2. new[Len(m) + i] = y[Len(m) + i - (p + Len(m))]
        BY <2>1, <1>6
    <2>3. y[i - p] = r[p + (i - p)]
        BY <2>1, <1>3
    <2> QED
        BY <2>1, <2>2, <2>3
<1> QED
    BY <1>6, <1>7, <1>8, <1>9 DEF Inserted, new, z, x, y

(* Of two nodes on a path the one of lesser depth is above the other.      *)
LEMMA PathLinear ==
    ASSUME NEW n \in Nodes, NEW x \in Above[n] \cup {n}, NEW y \in Above[n] \cup {n},
           Depth[x] < Depth[y]
    PROVE  x \in Above[y]
<1>1. x \in Nodes /\ y \in Nodes /\ Depth[x] \in 0 .. 3 /\ Depth[y] \in 0 .. 3
    BY TreeFacts
<1>2. Above[y] \cup {y} \subseteq Above[n] \cup {n}
    BY PathFacts
<1>3. Depth[x] \in 0 .. Depth[y]
    BY <1>1
<1>4. PICK z \in Above[y] \cup {y} : Depth[z] = Depth[x]
    BY <1>1, <1>3, PathFacts
<1>5. z = x
    BY <1>2, <1>4, PathFacts
<1>6. x # y
    BY <1>1
<1> QED
    BY <1>4, <1>5, <1>6

(* With a node and what is below it put directly after the one above it,   *)
(* each node still is after those above it.                                *)
LEMMA ReorderKeepsPreorder ==
    ASSUME NEW seq \in Seq(Nodes), InPreorder(seq), NEW n \in Nodes
    PROVE  LET rest == Only(seq, Nodes \ Subtree[n])
               p == Position(rest, Tree[n])
               new == SubSeq(rest, 1, p) \o Only(seq, Subtree[n])
                      \o SubSeq(rest, p + 1, Len(rest)) IN
           new \in Seq(Nodes) /\ InPreorder(new)
<1> DEFINE rest == Only(seq, Nodes \ Subtree[n])
           mine == Only(seq, Subtree[n])
           p == Position(rest, Tree[n])
           new == Inserted(rest, p, mine)
<1>1. Subtree[n] \subseteq Nodes /\ \A m \in Nodes : m \in Subtree[n] <=> m = n \/ n \in Above[m]
    BY DEF Subtree
<1>2. Ordered(seq) /\ Range(seq) = Nodes
    BY LenProperties DEF InPreorder, Ordered
<1>3. /\ rest \in Seq(Nodes) /\ Ordered(rest) /\ Range(rest) = Nodes \ Subtree[n]
      /\ \A m : Contains(rest, m) <=> m \in Nodes \ Subtree[n]
    <2> DEFINE S == Nodes \ Subtree[n]
    <2>1. Nodes \cap S = S
        OBVIOUS
    <2> HIDE DEF S
    <2>2. /\ Only(seq, S) \in Seq(Nodes \cap S) /\ Range(Only(seq, S)) = Nodes \cap S
          /\ \A m : Contains(Only(seq, S), m) <=> m \in Nodes \cap S
        BY <1>2, OnlyRange
    <2>3. Ordered(Only(seq, S))
        BY <1>2, OnlyOrdered
    <2>4. Only(seq, S) \in Seq(Nodes)
        BY <2>2, SeqMonotonic
    <2> QED
        BY <2>1, <2>2, <2>3, <2>4 DEF S
<1>4. mine \in Seq(Nodes) /\ Ordered(mine) /\ Range(mine) = Subtree[n]
    <2> DEFINE S == Subtree[n]
    <2>1. Nodes \cap S = S
        BY <1>1
    <2> HIDE DEF S
    <2>2. Only(seq, S) \in Seq(Nodes \cap S) /\ Range(Only(seq, S)) = Nodes \cap S
        BY <1>2, OnlyRange
    <2>3. Ordered(Only(seq, S))
        BY <1>2, OnlyOrdered
    <2>4. Only(seq, S) \in Seq(Nodes)
        BY <2>2, SeqMonotonic
    <2> QED
        BY <2>1, <2>2, <2>3, <2>4 DEF S
<1> HIDE DEF rest, mine
<1>5. /\ DOMAIN rest = 1 .. Len(rest) /\ Len(rest) \in Nat
      /\ DOMAIN mine = 1 .. Len(mine) /\ Len(mine) \in Nat
    BY <1>3, <1>4, LenProperties
<1>6. /\ p \in 0 .. Len(rest)
      /\ Tree[n] \in Nodes \ Subtree[n] => p \in 1 .. Len(rest) /\ rest[p] = Tree[n]
    <2> DEFINE t == Tree[n]
    <2> HIDE DEF t
    <2>1. p = IF Contains(rest, t) THEN CHOOSE i \in DOMAIN rest : rest[i] = t ELSE 0
        BY DEF Position, t
    <2>2. Contains(rest, t) => \E i \in DOMAIN rest : rest[i] = t
        BY <1>5 DEF Contains
    <2>3. Contains(rest, t) => p \in DOMAIN rest /\ rest[p] = t
        BY <2>1, <2>2
    <2> HIDE DEF p
    <2> QED
        BY <1>3, <1>5, <2>1, <2>3 DEF t
<1> HIDE DEF p
<1>7. /\ new \in Seq(Nodes) /\ Len(new) = Len(rest) + Len(mine)
      /\ \A i \in 1 .. p : new[i] = rest[i]
      /\ \A i \in 1 .. Len(mine) : new[p + i] = mine[i]
      /\ \A i \in p + 1 .. Len(rest) : new[Len(mine) + i] = rest[i]
    <2>1. rest \in Seq(Nodes) /\ mine \in Seq(Nodes) /\ p \in 0 .. Len(rest)
        BY <1>3, <1>4, <1>6
    <2> QED
        BY <2>1, PutInto
<1> HIDE DEF new
(* Where what is new was.                                                  *)
<1> DEFINE InRest(i, k) == k \in 1 .. Len(rest) /\ new[i] = rest[k]
                           /\ i = (IF k <= p THEN k ELSE Len(mine) + k)
           InMine(i, k) == k \in 1 .. Len(mine) /\ new[i] = mine[k] /\ i = p + k
<1>8. \A i \in 1 .. Len(new) : (\E k : InRest(i, k)) \/ (\E k : InMine(i, k))
    <2> SUFFICES ASSUME NEW i \in 1 .. Len(new)
                 PROVE  (\E k : InRest(i, k)) \/ (\E k : InMine(i, k))
        OBVIOUS
    <2>1. CASE i <= p
        <3>1. i \in 1 .. p /\ i \in 1 .. Len(rest)
            BY <2>1, <1>5, <1>6, <1>7
        <3> QED
            BY <2>1, <3>1, <1>7
    <2>2. CASE i > p /\ i <= p + Len(mine)
        <3>1. i - p \in 1 .. Len(mine) /\ p + (i - p) = i
            BY <2>2, <1>5, <1>6, <1>7
        <3>2. InMine(i, i - p)
            BY <3>1, <1>7
        <3> QED
            BY <3>2
    <2>3. CASE i > p + Len(mine)
        <3>1. /\ i - Len(mine) \in p + 1 .. Len(rest) /\ Len(mine) + (i - Len(mine)) = i
              /\ i - Len(mine) \in 1 .. Len(rest) /\ ~(i - Len(mine) <= p)
            BY <2>3, <1>5, <1>6, <1>7
        <3>2. InRest(i, i - Len(mine))
            BY <3>1, <1>7
        <3> QED
            BY <3>2
    <2> QED
        BY <2>1, <2>2, <2>3, <1>5, <1>6, <1>7
<1>9. /\ \A k \in 1 .. Len(rest) : \E i \in 1 .. Len(new) : InRest(i, k)
      /\ \A k \in 1 .. Len(mine) : \E i \in 1 .. Len(new) : InMine(i, k)
    <2>1. ASSUME NEW k \in 1 .. Len(rest) PROVE \E i \in 1 .. Len(new) : InRest(i, k)
        <3>1. CASE k <= p
            <4>1. k \in 1 .. Len(new) /\ k \in 1 .. p
                BY <3>1, <1>5, <1>6, <1>7
            <4>2. InRest(k, k)
                BY <3>1, <4>1, <1>7
            <4> QED
                BY <4>1, <4>2
        <3>2. CASE k > p
            <4>1. Len(mine) + k \in 1 .. Len(new) /\ k \in p + 1 .. Len(rest) /\ ~(k <= p)
                BY <3>2, <1>5, <1>6, <1>7
            <4>2. InRest(Len(mine) + k, k)
                BY <4>1, <1>7
            <4> QED
                BY <4>1, <4>2
        <3> QED
            BY <3>1, <3>2, <1>5, <1>6
    <2>2. ASSUME NEW k \in 1 .. Len(mine) PROVE \E i \in 1 .. Len(new) : InMine(i, k)
        <3>1. p + k \in 1 .. Len(new)
            BY <1>5, <1>6, <1>7
        <3>2. InMine(p + k, k)
            BY <1>7
        <3> QED
            BY <3>1, <3>2
    <2> QED
        BY <2>1, <2>2
<1>10. /\ \A i, k : InRest(i, k) => new[i] \in Nodes \ Subtree[n]
       /\ \A i, k : InMine(i, k) => new[i] \in Subtree[n]
    BY <1>3, <1>4, <1>5 DEF Range
<1>11. Range(new) = Nodes
    <2>1. DOMAIN new = 1 .. Len(new)
        BY <1>7, LenProperties
    <2>2. \A i \in 1 .. Len(new) : new[i] \in Nodes
        BY <1>1, <1>8, <1>10
    <2>3. ASSUME NEW m \in Nodes PROVE \E i \in 1 .. Len(new) : new[i] = m
        <3>1. CASE m \in Subtree[n]
            <4>1. PICK k \in 1 .. Len(mine) : mine[k] = m
                BY <3>1, <1>4, <1>5 DEF Range
            <4> QED
                BY <4>1, <1>9
        <3>2. CASE m \notin Subtree[n]
            <4>1. PICK k \in 1 .. Len(rest) : rest[k] = m
                BY <3>2, <1>3, <1>5 DEF Range
            <4> QED
                BY <4>1, <1>9
        <3> QED
            BY <3>1, <3>2
    <2> HIDE DEF InRest, InMine
    <2> QED
        BY <2>1, <2>2, <2>3 DEF Range
<1>12. ASSUME NEW i \in 1 .. Len(new), NEW j \in 1 .. Len(new)
       PROVE  /\ new[i] = new[j] => i = j
              /\ new[i] \in Above[new[j]] => i < j
    <2>1. ASSUME NEW k, NEW l, InRest(i, k), InRest(j, l)
          PROVE  /\ new[i] = new[j] => i = j
                 /\ new[i] \in Above[new[j]] => i < j
        <3>1. /\ rest[k] = rest[l] => k = l
              /\ rest[k] \in Above[rest[l]] => k < l
            BY <1>3, <2>1 DEF Ordered
        <3>2. k < l => i < j
            BY <2>1, <1>5, <1>6
        <3> QED
            BY <2>1, <3>1, <3>2
    <2>2. ASSUME NEW k, NEW l, InMine(i, k), InMine(j, l)
          PROVE  /\ new[i] = new[j] => i = j
                 /\ new[i] \in Above[new[j]] => i < j
        <3>1. /\ mine[k] = mine[l] => k = l
              /\ mine[k] \in Above[mine[l]] => k < l
            BY <1>4, <2>2 DEF Ordered
        <3>2. k < l => i < j
            BY <2>2, <1>5, <1>6
        <3> QED
            BY <2>2, <3>1, <3>2
    <2>3. ASSUME NEW k, NEW l, InRest(i, k), InMine(j, l)
          PROVE  /\ new[i] # new[j]
                 /\ new[i] \in Above[new[j]] => i < j
        <3> DEFINE x == new[i]
                   y == new[j]
        <3>1. x \in Nodes /\ x \notin Subtree[n] /\ y \in Subtree[n] /\ y \in Nodes
            BY <1>1, <1>10, <2>3
        <3>2. k \in 1 .. Len(rest) /\ x = rest[k] /\ i = (IF k <= p THEN k ELSE Len(mine) + k)
                 /\ l \in 1 .. Len(mine) /\ j = p + l
            BY <2>3
        <3> HIDE DEF x, y, InRest, InMine
        <3>3. ASSUME x \in Above[y] PROVE i < j
            <4>1. n \in Above[y] \cup {y} /\ x # n /\ n \notin Above[x]
                BY <1>1, <3>1
            <4>2. x \in Above[n]
                <5>1. Depth[x] \in 0 .. 3 /\ Depth[n] \in 0 .. 3
                    BY <3>1, TreeFacts
                <5>2. Depth[x] # Depth[n]
                    BY <3>1, <3>3, <4>1, PathFacts
                <5>3. ~(Depth[n] < Depth[x])
                    BY <3>1, <3>3, <4>1, PathLinear
                <5>4. Depth[x] < Depth[n]
                    BY <5>1, <5>2, <5>3
                <5> QED
                    BY <3>1, <3>3, <4>1, <5>4, PathLinear
            <4>3. Tree[n] \in Nodes /\ Tree[n] \in Above[n] /\ x \in Above[Tree[n]] \cup {Tree[n]}
                BY <4>2, TreeFacts
            <4>4. Tree[n] \notin Subtree[n]
                <5>1. Tree[n] # n /\ n \notin Above[Tree[n]]
                    BY <4>3, PathFacts
                <5> QED
                    BY <4>3, <5>1, <1>1
            <4>5. p \in 1 .. Len(rest) /\ rest[p] = Tree[n]
                BY <4>3, <4>4, <1>6
            <4>6. k <= p
                <5>1. /\ rest[k] = rest[p] => k = p
                      /\ rest[k] \in Above[rest[p]] => k < p
                    BY <1>3, <3>2, <4>5 DEF Ordered
                <5> QED
                    BY <3>2, <4>3, <4>5, <5>1, <1>5
            <4> QED
                BY <3>2, <4>5, <4>6, <1>5
        <3>4. x # y
            BY <3>1
        <3> QED
            BY <3>3, <3>4 DEF x, y
    <2>4. ASSUME NEW k, NEW l, InMine(i, k), InRest(j, l)
          PROVE  new[i] # new[j] /\ new[i] \notin Above[new[j]]
        <3> DEFINE x == new[i]
                   y == new[j]
        <3>1. x \in Subtree[n] /\ x \in Nodes /\ y \notin Subtree[n] /\ y \in Nodes
            BY <1>1, <1>10, <2>4
        <3> HIDE DEF x, y, InRest, InMine
        <3>2. x \in Above[y] => y \in Subtree[n]
            <4>1. x \in Above[y] => Above[x] \subseteq Above[y]
                BY <3>1, PathFacts
            <4> QED
                BY <1>1, <3>1, <4>1
        <3> QED
            BY <3>1, <3>2 DEF x, y
    <2> HIDE DEF InRest, InMine
    <2> QED
        BY <1>8, <2>1, <2>2, <2>3, <2>4
<1>13. InPreorder(new)
    <2>1. DOMAIN new = 1 .. Len(new)
        BY <1>7, LenProperties
    <2> HIDE DEF InRest, InMine
    <2> QED
        BY <2>1, <1>11, <1>12 DEF InPreorder
<1> QED
    BY <1>7, <1>13 DEF Inserted, new, rest, mine, p

(* A state without a node and all below it is one.                         *)
LEMMA WithoutFacts ==
    ASSUME NEW s \in States, NEW n \in Nodes
    PROVE  Without(s, n) \in States
<1> DEFINE left == s.nodes \ Subtree[n]
           workspaces == {m \in left : Depth[m] = 0}
           open == IF s.open \in left THEN s.open
                   ELSE IF workspaces = {} THEN Root ELSE CHOOSE w \in workspaces : TRUE
           seen == Only(s.overview, left)
<1>1. /\ s \in [nodes : SUBSET Nodes, order : Seq(Nodes), open : Nodes \cup {Root},
                overview : Seq(Nodes)]
      /\ InPreorder(s.order) /\ Root \notin Nodes
      /\ \A m \in s.nodes : Above[m] \subseteq s.nodes
      /\ IF s.open = Root THEN s.nodes = {} ELSE s.open \in s.nodes /\ Depth[s.open] = 0
    BY ExplorerAssumption DEF States
<1>2. Without(s, n) = [s EXCEPT !.nodes = left, !.open = open, !.overview = seen]
    BY DEF Without
<1>3. left \subseteq Nodes
    BY <1>1
<1>4. \A m \in left : Above[m] \subseteq left
    <2> SUFFICES ASSUME NEW m \in left, NEW x \in Above[m] PROVE x \in left
        OBVIOUS
    <2>1. m \in Nodes /\ x \in s.nodes /\ x \in Nodes
        BY <1>1
    <2>2. Above[x] \subseteq Above[m]
        BY <2>1, PathFacts
    <2>3. x \in Subtree[n] => m \in Subtree[n]
        BY <2>1, <2>2 DEF Subtree
    <2> QED
        BY <2>1, <2>3
<1>5. IF open = Root THEN left = {} ELSE open \in left /\ Depth[open] = 0
    <2>1. left # {} => workspaces # {}
        <3> SUFFICES ASSUME NEW m \in left PROVE \E x \in left : Depth[x] = 0
            OBVIOUS
        <3>1. m \in Nodes /\ 0 \in 0 .. Depth[m]
            BY <1>3, TreeFacts
        <3>2. PICK x \in Above[m] \cup {m} : Depth[x] = 0
            BY <3>1, PathFacts
        <3> QED
            BY <3>2, <1>4
    <2>2. s.open \in left => s.open # Root /\ Depth[s.open] = 0
        BY <1>1
    <2>3. workspaces # {} => (CHOOSE w \in workspaces : TRUE) \in workspaces
        OBVIOUS
    <2>4. Root \notin left
        BY <1>1, <1>3
    <2> QED
        BY <2>1, <2>2, <2>3, <2>4
<1>6. seen \in Seq(Nodes)
    <2>1. seen \in Seq(Nodes \cap left)
        BY <1>1, OnlyRange
    <2> QED
        BY <2>1, SeqMonotonic
<1> HIDE DEF left, open, seen
<1>7. open \in Nodes \cup {Root}
    BY <1>3, <1>5
<1> DEFINE t == [s EXCEPT !.nodes = left, !.open = open, !.overview = seen]
<1>8. /\ t.nodes = left /\ t.open = open /\ t.order = s.order
      /\ t \in [nodes : SUBSET Nodes, order : Seq(Nodes), open : Nodes \cup {Root},
               overview : Seq(Nodes)]
    BY <1>1, <1>3, <1>6, <1>7
<1> HIDE DEF t
<1>9. t \in States
    BY <1>1, <1>4, <1>5, <1>8 DEF States
<1> QED
    BY <1>2, <1>9 DEF t

(* Whatever changes in the daemon, its state is one.                       *)
LEMMA DaemonStays ==
    ASSUME daemon \in States, NEW n \in Nodes, DaemonChanges(n)
    PROVE  daemon' \in States
<1>1. /\ daemon \in [nodes : SUBSET Nodes, order : Seq(Nodes), open : Nodes \cup {Root},
                     overview : Seq(Nodes)]
      /\ InPreorder(daemon.order) /\ Root \notin Nodes
      /\ \A m \in daemon.nodes : Above[m] \subseteq daemon.nodes
      /\ IF daemon.open = Root THEN daemon.nodes = {}
         ELSE daemon.open \in daemon.nodes /\ Depth[daemon.open] = 0
    BY ExplorerAssumption DEF States
<1>2. CASE Appears(n)
    <2> DEFINE open == IF daemon.open = Root THEN n ELSE daemon.open
    <2>1. daemon' = [daemon EXCEPT !.nodes = @ \cup {n}, !.open = open]
             /\ n \notin daemon.nodes /\ (Depth[n] = 0 \/ Tree[n] \in daemon.nodes)
        BY <1>2 DEF Appears
    <2>2. Above[n] \subseteq daemon.nodes
        BY <1>1, <2>1, TreeFacts
    <2>3. open \in daemon.nodes \cup {n} /\ Depth[open] = 0 /\ open \in Nodes
        BY <1>1, <2>1
    <2> HIDE DEF open
    <2> QED
        BY <1>1, <2>1, <2>2, <2>3 DEF States
<1>3. CASE Disappears(n)
    BY <1>3, WithoutFacts DEF Disappears
<1>4. CASE BecomesActive(n)
    <2> DEFINE rest == Only(daemon.order, Nodes \ Subtree[n])
               p == Position(rest, Tree[n])
               new == SubSeq(rest, 1, p) \o Only(daemon.order, Subtree[n])
                      \o SubSeq(rest, p + 1, Len(rest))
    <2>1. daemon' = [daemon EXCEPT !.order = new]
        BY <1>4 DEF BecomesActive
    <2>2. new \in Seq(Nodes) /\ InPreorder(new)
        BY <1>1, ReorderKeepsPreorder
    <2> HIDE DEF new
    <2> QED
        BY <1>1, <2>1, <2>2 DEF States
<1>5. ASSUME NEW S PROVE Only(daemon.overview, S) \in Seq(Nodes)
    <2>1. Only(daemon.overview, S) \in Seq(Nodes \cap S)
        BY <1>1, OnlyRange
    <2> QED
        BY <2>1, SeqMonotonic
<1>6. CASE ForOverview(n)
    <2> DEFINE new == <<n>> \o Only(daemon.overview, Nodes \ {n})
    <2>1. daemon' = [daemon EXCEPT !.overview = new]
        BY <1>6 DEF ForOverview
    <2>2. new \in Seq(Nodes)
        <3>1. <<n>> \in Seq(Nodes)
            OBVIOUS
        <3> QED
            BY <1>5, <3>1, ConcatProperties
    <2> HIDE DEF new
    <2> QED
        BY <1>1, <2>1, <2>2 DEF States
<1>7. CASE NotForOverview(n)
    <2> DEFINE new == Only(daemon.overview, Nodes \ {n})
    <2>1. daemon' = [daemon EXCEPT !.overview = new]
        BY <1>7 DEF NotForOverview
    <2>2. new \in Seq(Nodes)
        BY <1>5
    <2> HIDE DEF new
    <2> QED
        BY <1>1, <2>1, <2>2 DEF States
<1> QED
    BY <1>2, <1>3, <1>4, <1>6, <1>7 DEF DaemonChanges

(* A node more, below one that there is.                                   *)
LEMMA WithNode ==
    ASSUME NEW s \in States, NEW n \in Nodes, Depth[n] # 0, Tree[n] \in s.nodes
    PROVE  [s EXCEPT !.nodes = @ \cup {n}] \in States
<1>1. s.open # Root /\ \A m \in s.nodes : Above[m] \subseteq s.nodes
    BY DEF States
<1>2. Above[n] \subseteq s.nodes
    BY <1>1, TreeFacts
<1> QED
    BY <1>1, <1>2 DEF States

----------------------------------------------------------------------------
(* What the user does.                                                     *)

(* The view, a question and a recovery are nothing to the rows.            *)
LEMMA SoundIgnores ==
    ASSUME NEW a, Sound(a), NEW b \in Apps,
           b.snap = a.snap, b.expanded = a.expanded, b.unfolded = a.unfolded,
           b.row = a.row, b.sel = a.sel, b.workspace = a.workspace, b.shifted = a.shifted
    PROVE  Sound(b)
<1>1. Shown(b) = Shown(a) /\ Rows(b) = Rows(a)
    BY SameRows
<1> QED
    BY <1>1 DEF Sound, Agrees, Target, RowNode

(* sync_explorer_index, of what is shown.                                  *)
LEMMA SyncIsSound ==
    ASSUME NEW a \in Apps, a.snap.open # Root /\ ~a.shifted => Target(a) \in Shown(a)
    PROVE  Sound(SyncExplorerIndex(a))
<1>1. PICK q \in Nat \ {0} : /\ SyncExplorerIndex(a) = [a EXCEPT !.row = q]
                             /\ SyncExplorerIndex(a) \in Apps
                             /\ Target(a) \in Shown(a) => Agrees(SyncExplorerIndex(a))
    BY SyncMarks
<1>2. SyncExplorerIndex(a).snap = a.snap /\ SyncExplorerIndex(a).shifted = a.shifted
    BY <1>1 DEF Apps
<1> QED
    BY <1>1, <1>2 DEF Sound

(* select_node, of any node.                                               *)
LEMMA SelectIsSound ==
    ASSUME NEW a, Sound(a), NEW n \in Nodes
    PROVE  Sound(SelectNode(a, n))
BY SelectMarks DEF Sound

(* A move of the mark selects what it comes to.                            *)
LEMMA MoveIsSound ==
    ASSUME NEW a, Sound(a), NEW i \in Nat \ {0}
    PROVE  Sound(SelectExplorerIndex(a, i))
<1> DEFINE p == IF i > Len(Rows(a)) THEN Len(Rows(a)) ELSE i
           b == [a EXCEPT !.row = p, !.workspace = Depth[Rows(a)[p]] = 0,
                          !.sel = PathTo[Rows(a)[p]], !.shifted = FALSE]
<1>1. CASE Rows(a) = <<>>
    BY <1>1 DEF SelectExplorerIndex
<1>2. CASE Rows(a) # <<>>
    <2>1. a \in Apps /\ Rows(a) \in Seq(Nodes)
        BY RowsFacts DEF Sound
    <2>2. Len(Rows(a)) \in Nat \ {0}
        BY <1>2, <2>1, EmptySeq
    <2>3. p \in 1 .. Len(Rows(a))
        BY <2>2
    <2>4. SelectExplorerIndex(a, i) = b
        BY <1>2 DEF SelectExplorerIndex
    <2> HIDE DEF p
    <2>5. b \in Apps /\ Agrees(b) /\ ~b.shifted
        BY <2>1, <2>3, SelectRow
    <2> QED
        BY <2>4, <2>5 DEF Sound
<1> QED
    BY <1>1, <1>2

(* Unfolding what is marked shows rows below it only.                      *)
LEMMA ExpandIsSound ==
    ASSUME Sound(tui), ExpandSelected
    PROVE  Sound(tui')
<1> DEFINE n == RowNode(tui)
<1>1. tui \in Apps /\ n \in Nodes \cup {Root}
    BY FallbacksFacts DEF Sound
<1>2. CASE n = Root \/ n \in AtSessions
    <2>1. n \notin AtWorkspaces
        BY <1>2, ExplorerAssumption DEF AtWorkspaces, AtSessions
    <2>2. tui' = tui
        BY <1>2, <2>1 DEF ExpandSelected
    <2> QED
        BY <2>2 DEF Sound, Agrees, Target, RowNode, Rows, Shown, Unfolded
<1>3. CASE n # Root /\ n \notin AtSessions
    <2> DEFINE X == IF n \in AtWorkspaces THEN {} ELSE {n}
               u == IF n \in AtWorkspaces THEN TRUE ELSE tui.unfolded
               b == [tui EXCEPT !.expanded = @ \cup X, !.unfolded = u]
    <2>1. tui' = b
        <3>1. tui' = IF n \in AtWorkspaces THEN [tui EXCEPT !.unfolded = TRUE]
                     ELSE [tui EXCEPT !.expanded = @ \cup {n}]
            BY <1>3 DEF ExpandSelected
        <3> QED
            BY <3>1, <1>1 DEF Apps
    <2>2. X \subseteq Nodes \ AtWorkspaces /\ u \in BOOLEAN
        BY <1>1, <1>3 DEF Apps
    <2>3. b \in Apps
        <3> HIDE DEF X, u
        <3> QED
            BY <1>1, <2>2 DEF Apps
    <2>4. /\ b.snap = tui.snap /\ b.row = tui.row /\ b.sel = tui.sel
          /\ b.workspace = tui.workspace /\ b.shifted = tui.shifted
          /\ b.expanded = tui.expanded \cup X /\ b.unfolded = u
        BY <1>1 DEF Apps
    <2> HIDE DEF b
    <2>5. SUFFICES ASSUME tui.snap.open # Root, ~tui.shifted PROVE Agrees(b)
        BY <2>1, <2>3, <2>4 DEF Sound
    <2>6. Agrees(tui) /\ Target(tui) = n /\ n \in Shown(tui)
        BY <2>5 DEF Sound, Agrees
    <2>7. Unfolded(tui) \subseteq Unfolded(b)
        BY <2>4 DEF Unfolded
    <2>8. Shown(tui) \subseteq Shown(b)
        BY <2>4, <2>7 DEF Shown
    <2>9. \A m \in Shown(b) \ Shown(tui) : n \in Above[m]
        <3>1. CASE n \in AtWorkspaces
            <4>1. n \in Offered(tui.snap) /\ Depth[n] = 0 /\ tui.snap \in States
                BY <2>6, <1>1, <3>1, ShownFacts DEF AtWorkspaces, Apps
            <4>2. n = tui.snap.open
                BY <4>1, OfferedFacts
            <4> QED
                BY <1>1, <2>3, <2>4, <2>6, <4>2, UnfoldingAddsBelow
        <3>2. CASE n \notin AtWorkspaces
            <4>1. Unfolded(b) = Unfolded(tui) \cup {n}
                BY <2>4, <3>2 DEF Unfolded
            <4> QED
                BY <2>4, <4>1 DEF Shown
        <3> QED
            BY <3>1, <3>2
    <2> QED
        BY <1>1, <2>3, <2>4, <2>6, <2>8, <2>9, StillAgrees
<1> QED
    BY <1>2, <1>3

(* Folding what is marked hides rows below it only, or selects its parent. *)
LEMMA CollapseIsSound ==
    ASSUME Sound(tui), CollapseSelected
    PROVE  Sound(tui')
<1> DEFINE n == RowNode(tui)
           d == IF n \in AtWorkspaces THEN [tui EXCEPT !.unfolded = FALSE]
                ELSE IF n \in tui.expanded THEN [tui EXCEPT !.expanded = @ \ {n}]
                ELSE IF n = Root \/ Depth[n] = 1 THEN tui
                ELSE SelectNode(tui, Tree[n])
<1>1. tui \in Apps /\ n \in Nodes \cup {Root}
    BY FallbacksFacts DEF Sound
<1>2. tui' = SyncExplorerIndex(d)
    BY DEF CollapseSelected
<1>3. d \in Apps /\ (d.snap.open # Root /\ ~d.shifted => Target(d) \in Shown(d))
    <2>1. CASE n \in AtWorkspaces
        <3> DEFINE b == [tui EXCEPT !.unfolded = FALSE]
        <3>1. /\ b \in Apps /\ b.snap = tui.snap /\ b.sel = tui.sel
              /\ b.workspace = tui.workspace /\ b.shifted = tui.shifted
            BY <1>1 DEF Apps
        <3>2. d = b
            BY <2>1
        <3> HIDE DEF b, d
        <3>3. ASSUME b.snap.open # Root, ~b.shifted PROVE Target(b) \in Shown(b)
            <4>1. Target(tui) = n /\ n \in Shown(tui)
                BY <3>1, <3>3 DEF Sound, Agrees
            <4>2. n \in Offered(tui.snap) /\ Depth[n] = 0 /\ tui.snap \in States
                BY <4>1, <1>1, <2>1, ShownFacts DEF AtWorkspaces, Apps
            <4>3. n = tui.snap.open
                BY <4>2, OfferedFacts
            <4>4. Target(b) = n
                BY <3>1, <4>1 DEF Target
            <4> QED
                BY <3>1, <3>3, <4>3, <4>4, ShownFacts
        <3> QED
            BY <3>1, <3>2, <3>3
    <2>2. CASE n \notin AtWorkspaces /\ n \in tui.expanded
        <3> DEFINE b == [tui EXCEPT !.expanded = @ \ {n}]
        <3>1. /\ b \in Apps /\ b.snap = tui.snap /\ b.sel = tui.sel
              /\ b.workspace = tui.workspace /\ b.shifted = tui.shifted
              /\ b.expanded = tui.expanded \ {n} /\ b.unfolded = tui.unfolded
            BY <1>1 DEF Apps
        <3>2. d = b
            BY <2>2
        <3> HIDE DEF b, d
        <3>3. ASSUME b.snap.open # Root, ~b.shifted PROVE Target(b) \in Shown(b)
            <4>1. Target(tui) = n /\ n \in Shown(tui) /\ n \in Nodes
                BY <1>1, <3>1, <3>3, RowsFacts DEF Sound, Agrees
            <4>2. n \notin Above[n]
                BY <4>1, PathFacts
            <4>3. Unfolded(tui) \subseteq Unfolded(b) \cup {n}
                BY <3>1 DEF Unfolded
            <4>4. n \in Shown(b)
                BY <3>1, <4>1, <4>2, <4>3 DEF Shown
            <4> QED
                BY <3>1, <4>1, <4>4 DEF Target
        <3> QED
            BY <3>1, <3>2, <3>3
    <2>3. ASSUME Sound(d)
          PROVE  d \in Apps /\ (d.snap.open # Root /\ ~d.shifted => Target(d) \in Shown(d))
        <3> HIDE DEF d
        <3> QED
            BY <2>3 DEF Sound, Agrees
    <2>4. CASE n \notin AtWorkspaces /\ n \notin tui.expanded
        <3>1. CASE n = Root \/ Depth[n] = 1
            BY <2>3, <2>4, <3>1
        <3>2. CASE ~(n = Root \/ Depth[n] = 1)
            <4>1. Tree[n] \in Nodes
                BY <1>1, <2>4, <3>2, TreeFacts DEF AtWorkspaces
            <4>2. d = SelectNode(tui, Tree[n])
                BY <2>4, <3>2
            <4>3. Sound(d)
                BY <4>1, <4>2, SelectIsSound
            <4> QED
                BY <2>3, <4>3
        <3> QED
            BY <3>1, <3>2
    <2> QED
        BY <2>1, <2>2, <2>4
<1> HIDE DEF d
<1> QED
    BY <1>2, <1>3, SyncIsSound

(* The inductive invariant of the explorer: the daemon's state is a tree   *)
(* with its open Workspace, and what the client shows is sound.            *)
ExplorerInv == daemon \in States /\ Sound(tui)

(* The first snapshot comes to an explorer that is not folded.             *)
LEMMA ExplorerInitSound == ExplorerInit => ExplorerInv
<1> SUFFICES ASSUME ExplorerInit PROVE ExplorerInv
    OBVIOUS
<1>1. daemon \in States
    <2>1. /\ daemon = [nodes |-> daemon.nodes, order |-> Preorder,
                       open |-> daemon.open, overview |-> <<>>]
          /\ daemon.nodes \subseteq Nodes /\ daemon.open \in Nodes \cup {Root}
          /\ \A n \in daemon.nodes : Above[n] \subseteq daemon.nodes
        BY DEF ExplorerInit
    <2>2. IF daemon.open = Root THEN daemon.nodes = {}
          ELSE daemon.open \in daemon.nodes /\ Depth[daemon.open] = 0
        BY DEF ExplorerInit
    <2>3. Preorder \in Seq(Nodes) /\ InPreorder(Preorder) /\ <<>> \in Seq(Nodes)
        BY ExplorerAssumption
    <2>4. /\ daemon.order = Preorder
          /\ daemon \in [nodes : SUBSET Nodes, order : Seq(Nodes), open : Nodes \cup {Root},
                         overview : Seq(Nodes)]
        <3> DEFINE x == daemon.nodes
                   y == daemon.open
        <3>1. daemon = [nodes |-> x, order |-> Preorder, open |-> y, overview |-> <<>>]
              /\ x \subseteq Nodes /\ y \in Nodes \cup {Root}
            BY <2>1
        <3> HIDE DEF x, y
        <3> QED
            BY <3>1, <2>3
    <2> QED
        BY <2>1, <2>2, <2>3, <2>4 DEF States
<1> DEFINE a == [snap |-> daemon, workspace |-> FALSE, sel |-> NoSelection, row |-> 1,
                 unfolded |-> TRUE, expanded |-> {}, active |-> FALSE,
                 confirm |-> Root, recovery |-> Root, shifted |-> FALSE]
<1>2. a \in Apps
    BY <1>1 DEF Apps, Selections
<1>3. tui = RestoreSelection(a)
    BY DEF ExplorerInit
<1>4. a.snap = daemon /\ a.unfolded /\ ~a.shifted
    OBVIOUS
<1> HIDE DEF a
<1>5. /\ RestoreSelection(a) \in Apps /\ RestoreSelection(a).snap = a.snap
      /\ a.snap.open # Root => Agrees(RestoreSelection(a))
    BY <1>2, <1>4, RestoreFacts
<1> QED
    BY <1>1, <1>3, <1>5 DEF ExplorerInv, Sound

(* The overview is a view.                                                 *)
LEMMA ActiveIsSound ==
    ASSUME NEW a, Sound(a), NEW v \in BOOLEAN
    PROVE  Sound([a EXCEPT !.active = v])
<1> DEFINE b == [a EXCEPT !.active = v]
<1>1. /\ b \in Apps /\ b.snap = a.snap /\ b.expanded = a.expanded
      /\ b.unfolded = a.unfolded /\ b.row = a.row /\ b.sel = a.sel
      /\ b.workspace = a.workspace /\ b.shifted = a.shifted
    BY DEF Sound, Apps
<1> HIDE DEF b
<1>2. Sound(b)
    BY <1>1, SoundIgnores
<1> QED
    BY <1>2 DEF b

(* A question and a recovery move nothing.                                 *)
LEMMA QuestionIsSound ==
    ASSUME NEW a, Sound(a), NEW c \in Nodes \cup {Root}, NEW r \in Nodes \cup {Root}
    PROVE  /\ Sound([a EXCEPT !.confirm = c]) /\ Sound([a EXCEPT !.recovery = r])
           /\ Sound([a EXCEPT !.recovery = r, !.confirm = c])
<1> DEFINE b1 == [a EXCEPT !.confirm = c]
           b2 == [a EXCEPT !.recovery = r]
           b3 == [a EXCEPT !.recovery = r, !.confirm = c]
           Like(b) == /\ b.snap = a.snap /\ b.expanded = a.expanded
                      /\ b.unfolded = a.unfolded /\ b.row = a.row /\ b.sel = a.sel
                      /\ b.workspace = a.workspace /\ b.shifted = a.shifted
<1>1. b1 \in Apps /\ Like(b1)
    BY DEF Sound, Apps
<1>2. b2 \in Apps /\ Like(b2)
    BY DEF Sound, Apps
<1>3. b3 \in Apps /\ Like(b3)
    BY DEF Sound, Apps
<1> HIDE DEF b1, b2, b3
<1>4. Sound(b1)
    BY <1>1, SoundIgnores
<1>5. Sound(b2)
    BY <1>2, SoundIgnores
<1>6. Sound(b3)
    BY <1>3, SoundIgnores
<1> QED
    BY <1>4, <1>5, <1>6 DEF b1, b2, b3

(* One step of the user.                                                   *)
LEMMA UserStepIsSound ==
    ASSUME ExplorerInv,
           \/ \E n \in Nodes :
                 \/ SelectOverview(n) \/ PickFromPalette(n)
                 \/ OpenWorkspace(n) \/ FormCreates(n) \/ WorktreeWithoutSession(n)
           \/ \E delta \in {-1, 1} : MoveExplorer(delta)
           \/ SelectNavigatorView \/ ExpandSelected \/ CollapseSelected \/ SelectAttention
           \/ LeaveRecovery \/ OpenRecovered
           \/ AskToRemove \/ AskToRemoveRecovered \/ Dismiss \/ Confirm
    PROVE  ExplorerInv'
<1>0. /\ daemon \in States /\ Sound(tui) /\ tui \in Apps /\ tui.snap \in States
      /\ Root \in Nodes \cup {Root}
    BY DEF ExplorerInv, Sound, Apps
<1>n. daemon.nodes \subseteq Nodes /\ RowNode(tui) \in Nodes \cup {Root}
    BY <1>0, FallbacksFacts DEF States
<1>1. ASSUME NEW n \in Nodes, SelectOverview(n) PROVE ExplorerInv'
    <2>1. tui' = [RevealAndSelect(tui, n) EXCEPT !.active = TRUE] /\ daemon' = daemon
        BY <1>1 DEF SelectOverview, InExplorer
    <2>2. Sound(RevealAndSelect(tui, n))
        BY <1>0, RevealFacts
    <2> QED
        BY <1>0, <2>1, <2>2, ActiveIsSound DEF ExplorerInv
<1>2. ASSUME NEW n \in Nodes, PickFromPalette(n) PROVE ExplorerInv'
    <2>1. daemon' = daemon /\ Depth[n] > 0 /\ n \in tui.snap.nodes
        BY <1>2 DEF PickFromPalette, InExplorer, Has
    <2>2. CASE Depth[n] = 1
        <3> DEFINE b == [tui EXCEPT !.expanded = @ \cup {n}]
        <3>1. tui' = SelectNode(b, n)
            BY <1>2, <2>2 DEF PickFromPalette
        <3>2. n \in Nodes \ AtWorkspaces /\ {n} \in SUBSET (Above[n] \cup {n})
            BY <2>2 DEF AtWorkspaces
        <3>3. b \in Apps /\ Unfolds(tui, b, {n}, tui.unfolded) /\ tui.unfolded \in BOOLEAN
            BY <1>0, <3>2 DEF Apps, Unfolds
        <3>4. Above[n] \ AtWorkspaces \subseteq b.expanded
            <4>1. Tree[n] \in Nodes /\ Depth[Tree[n]] = 0 /\ Above[n] = {Tree[n]} \cup Above[Tree[n]]
                BY <2>2, TreeFacts
            <4>2. Above[Tree[n]] = {}
                BY <4>1, TreeFacts
            <4> QED
                BY <4>1, <4>2 DEF AtWorkspaces
        <3> HIDE DEF b
        <3>5. Sound(SelectNode(b, n))
            BY <1>0, <2>1, <3>2, <3>3, <3>4, SelectKeepsSound
        <3> QED
            BY <1>0, <2>1, <3>1, <3>5 DEF ExplorerInv
    <2>3. CASE Depth[n] # 1
        <3>1. tui' = SelectNode(Expand(tui, n), n)
            BY <1>2, <2>3 DEF PickFromPalette
        <3> QED
            BY <1>0, <2>1, <3>1, ExpandAndSelect DEF ExplorerInv
    <2> QED
        BY <2>2, <2>3
<1>3. ASSUME NEW n \in Nodes, OpenWorkspace(n) PROVE ExplorerInv'
    <2>1. /\ n \in daemon.nodes /\ Depth[n] = 0 /\ daemon' = [daemon EXCEPT !.open = n]
          /\ tui' = ReplaceSnapshot([tui EXCEPT !.workspace = TRUE, !.sel = NoSelection], daemon')
        BY <1>3 DEF OpenWorkspace
    <2>2. daemon' \in States
        BY <1>0, <2>1, ExplorerAssumption DEF States
    <2>3. [tui EXCEPT !.workspace = TRUE, !.sel = NoSelection] \in Apps
        BY <1>0 DEF Apps, Selections
    <2> QED
        BY <2>1, <2>2, <2>3, ReplaceIsSound DEF ExplorerInv
<1>4. ASSUME NEW n \in Nodes, FormCreates(n) PROVE ExplorerInv'
    <2>1. /\ Depth[n] # 0 /\ Tree[n] \in daemon.nodes
          /\ daemon' = [daemon EXCEPT !.nodes = @ \cup {n}]
          /\ tui' = SelectNode(Expand(ReplaceSnapshot(tui, daemon'), n), n)
        BY <1>4, TreeFacts DEF FormCreates
    <2>2. daemon' \in States
        BY <1>0, <2>1, WithNode
    <2>3. Sound(ReplaceSnapshot(tui, daemon'))
        BY <1>0, <2>2, ReplaceIsSound
    <2> QED
        BY <2>1, <2>2, <2>3, ExpandAndSelect DEF ExplorerInv
<1>5. ASSUME NEW n \in Nodes, WorktreeWithoutSession(n) PROVE ExplorerInv'
    <2>1. /\ Depth[n] = 2 /\ Tree[n] \in daemon.nodes /\ Has(tui.snap, Tree[n])
          /\ daemon' = [daemon EXCEPT !.nodes = @ \cup {n}]
          /\ tui' = [tui EXCEPT !.snap.nodes = @ \cup {n}, !.recovery = n, !.shifted = TRUE]
        BY <1>5 DEF WorktreeWithoutSession
    <2>2. daemon' \in States
        BY <1>0, <2>1, WithNode
    <2> DEFINE s == [tui.snap EXCEPT !.nodes = @ \cup {n}]
    <2>3. s \in States
        BY <1>0, <2>1, WithNode DEF Has
    <2>4. tui' = [tui EXCEPT !.snap = s, !.recovery = n, !.shifted = TRUE]
        BY <2>1
    <2> HIDE DEF s
    <2>5. tui' \in Apps /\ tui'.shifted
        BY <1>0, <2>3, <2>4 DEF Apps
    <2> QED
        BY <2>2, <2>5 DEF ExplorerInv, Sound
<1>6. ASSUME NEW delta \in {-1, 1}, MoveExplorer(delta) PROVE ExplorerInv'
    <2> DEFINE i == IF tui.row + delta < 1 THEN 1 ELSE tui.row + delta
    <2>1. tui' = SelectExplorerIndex(tui, i) /\ daemon' = daemon
        BY <1>6 DEF MoveExplorer, InExplorer
    <2>2. i \in Nat \ {0}
        BY <1>0 DEF Apps
    <2> HIDE DEF i
    <2> QED
        BY <1>0, <2>1, <2>2, MoveIsSound DEF ExplorerInv
<1>7. CASE SelectNavigatorView
    <2>1. tui' = ReconcileOverview([tui EXCEPT !.active = ~tui.active]) /\ daemon' = daemon
        BY <1>7 DEF SelectNavigatorView, InExplorer
    <2>2. Sound([tui EXCEPT !.active = ~tui.active])
        BY <1>0, ActiveIsSound
    <2> QED
        BY <1>0, <2>1, <2>2, ReconcileKeepsSound DEF ExplorerInv
<1>8. CASE ExpandSelected
    <2>1. daemon' = daemon
        BY <1>8 DEF ExpandSelected, InExplorer
    <2> QED
        BY <1>0, <1>8, <2>1, ExpandIsSound DEF ExplorerInv
<1>9. CASE CollapseSelected
    <2>1. daemon' = daemon
        BY <1>9 DEF CollapseSelected, InExplorer
    <2> QED
        BY <1>0, <1>9, <2>1, CollapseIsSound DEF ExplorerInv
<1>10. CASE SelectAttention
    <2> DEFINE n == Overview(tui.snap)[1]
    <2>1. /\ Overview(tui.snap) # <<>> /\ daemon' = daemon
          /\ tui' = [SelectNode(Expand(tui, n), n) EXCEPT !.active = TRUE]
        BY <1>10 DEF SelectAttention, InExplorer
    <2>2. n \in Nodes
        <3>1. tui.snap.overview \in Seq(Nodes)
            BY <1>0 DEF States
        <3> QED
            BY <2>1, <3>1, FirstOfOnly DEF Overview
    <2> HIDE DEF n
    <2>3. Sound(SelectNode(Expand(tui, n), n))
        BY <1>0, <2>2, ExpandAndSelect
    <2> QED
        BY <1>0, <2>1, <2>3, ActiveIsSound DEF ExplorerInv
<1>11. CASE LeaveRecovery
    <2>1. tui' = [tui EXCEPT !.recovery = Root] /\ daemon' = daemon
        BY <1>11 DEF LeaveRecovery, InRecovery
    <2> QED
        BY <1>0, <2>1, QuestionIsSound DEF ExplorerInv
<1>12. CASE OpenRecovered
    <2> DEFINE sessions == Range(Children(tui.snap, tui.recovery))
    <2>1. /\ tui.recovery # Root /\ daemon' = daemon
          /\ \E n \in IF sessions = {} THEN {tui.recovery} ELSE sessions :
                tui' = RevealAndSelect([tui EXCEPT !.recovery = Root], n)
        BY <1>12 DEF OpenRecovered, InRecovery
    <2>2. tui.recovery \in Nodes /\ sessions \subseteq Nodes
        <3>1. tui.snap.order \in Seq(Nodes)
            BY <1>0 DEF States
        <3> DEFINE below == {m \in tui.snap.nodes : Tree[m] = tui.recovery}
                   order == tui.snap.order
        <3>2. sessions = Range(order) \cap below
            <4>1. sessions = Range(Only(order, below)) /\ order \in Seq(Nodes)
                BY <3>1 DEF Children
            <4> HIDE DEF below, order, sessions
            <4>2. Range(Only(order, below)) = Range(order) \cap below
                BY <4>1, OnlyRange
            <4> QED
                BY <4>1, <4>2
        <3>3. Range(order) = Nodes
            BY <1>0 DEF States, InPreorder
        <3> QED
            BY <1>0, <2>1, <3>2, <3>3 DEF Apps
    <2> HIDE DEF sessions
    <2>3. PICK n \in Nodes : tui' = RevealAndSelect([tui EXCEPT !.recovery = Root], n)
        BY <2>1, <2>2
    <2> DEFINE c == [tui EXCEPT !.recovery = Root]
    <2>4. Sound(c) /\ c \in Apps
        BY <1>0, QuestionIsSound DEF Sound
    <2> HIDE DEF c
    <2>5. Sound(RevealAndSelect(c, n))
        BY <2>4, RevealFacts
    <2> QED
        BY <1>0, <2>1, <2>3, <2>5 DEF ExplorerInv, c
<1>13. ASSUME NEW a, Sound(a) PROVE Sound(Confirmation(a))
    <2>1. a \in Apps
        BY <1>13 DEF Sound
    <2>2. RowNode(a) \in daemon.nodes => RowNode(a) \in Nodes \cup {Root}
        BY <1>n
    <2> QED
        BY <1>0, <1>13, <2>2, QuestionIsSound DEF Confirmation
<1>14. CASE AskToRemove
    <2>1. tui' = Confirmation(tui) /\ daemon' = daemon
        BY <1>14 DEF AskToRemove, InExplorer
    <2> QED
        BY <1>0, <1>13, <2>1 DEF ExplorerInv
<1>15. CASE AskToRemoveRecovered
    <2> DEFINE a == RevealAndSelect(tui, tui.recovery)
    <2>1. tui.recovery # Root /\ daemon' = daemon /\ (tui' = a \/ tui' = Confirmation(a))
        BY <1>15 DEF AskToRemoveRecovered, InRecovery
    <2>2. Sound(a)
        BY <1>0, <2>1, RevealFacts DEF Apps
    <2> HIDE DEF a
    <2> QED
        BY <1>0, <1>13, <2>1, <2>2 DEF ExplorerInv
<1>16. CASE Dismiss
    <2>1. tui' = [tui EXCEPT !.confirm = Root] /\ daemon' = daemon
        BY <1>16 DEF Dismiss
    <2> QED
        BY <1>0, <2>1, QuestionIsSound DEF ExplorerInv
<1>17. CASE Confirm
    <2>1. /\ tui.confirm \in daemon.nodes /\ daemon' = Without(daemon, tui.confirm)
          /\ tui' = ReplaceSnapshot([tui EXCEPT !.confirm = Root], daemon')
        BY <1>17 DEF Confirm
    <2>2. daemon' \in States
        BY <1>0, <1>n, <2>1, WithoutFacts
    <2>3. [tui EXCEPT !.confirm = Root] \in Apps
        BY <1>0, QuestionIsSound DEF Sound
    <2> QED
        BY <2>1, <2>2, <2>3, ReplaceIsSound DEF ExplorerInv
<1> QED
    BY <1>1, <1>2, <1>3, <1>4, <1>5, <1>6, <1>7, <1>8, <1>9, <1>10, <1>11, <1>12,
       <1>14, <1>15, <1>16, <1>17

(* Whatever the tree and however long snapshots, folds, views, forms and   *)
(* removals take turns: what is marked is what is selected.                *)
THEOREM MarkedIsSelected == ExplorerSpec => []RowIsSelection
<1>1. ExplorerInit => ExplorerInv
    BY ExplorerInitSound
<1>2. ExplorerInv /\ [ExplorerNext]_explorerVars => ExplorerInv'
    <2> SUFFICES ASSUME ExplorerInv, [ExplorerNext]_explorerVars PROVE ExplorerInv'
        OBVIOUS
    <2>1. CASE UNCHANGED explorerVars
        BY <2>1 DEF explorerVars, ExplorerInv
    <2>2. CASE RefreshSnapshot
        <3>1. tui' = ReplaceSnapshot(tui, daemon) /\ daemon' = daemon
            BY <2>2 DEF RefreshSnapshot
        <3>2. tui \in Apps /\ daemon \in States
            BY DEF ExplorerInv, Sound
        <3> QED
            BY <3>1, <3>2, ReplaceIsSound DEF ExplorerInv
    <2>3. ASSUME NEW n \in Nodes, DaemonChanges(n) PROVE ExplorerInv'
        <3>1. tui' = tui
            BY <2>3 DEF DaemonChanges
        <3> QED
            BY <2>3, <3>1, DaemonStays DEF ExplorerInv
    <2> QED
        BY <2>1, <2>2, <2>3, UserStepIsSound DEF ExplorerNext
<1>3. ExplorerInv => RowIsSelection
    <2> SUFFICES ASSUME ExplorerInv, Rows(tui) # <<>>, ~tui.shifted
                 PROVE  RowNode(tui) = Target(tui)
        BY DEF RowIsSelection
    <2>1. tui \in Apps
        BY DEF ExplorerInv, Sound
    <2>2. tui.snap.open # Root
        BY <2>1, RowsFacts
    <2> QED
        BY <2>2 DEF ExplorerInv, Sound, Agrees
<1> QED
    BY <1>1, <1>2, <1>3, PTL DEF ExplorerSpec
============================================================================
