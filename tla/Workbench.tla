----------------------------- MODULE Workbench -----------------------------
(***************************************************************************)
(* Projects, their checkouts and the Sessions in them: the requests that   *)
(* create, start, resume and remove them (handle_request in daemon.rs),    *)
(* the rows they leave (database.rs), the checkouts Git keeps on disk      *)
(* (git.rs), and reconciliation after a restart.  No transaction spans a   *)
(* Git command, and the locks differ from request to request: some hold    *)
(* the Project, some the Worktree, one both.                               *)
(***************************************************************************)
EXTENDS Integers, Sequences, FiniteSets

CONSTANTS
    Clients,        \* connections, each with one request at a time
    Projects,
    Roots,          \* the root checkouts, one for each Project
    Worktrees,      \* identities for managed checkouts
    Home,           \* the Project of a checkout
    Sessions,       \* identities for Sessions
    Conversations,  \* identities a provider announces
    Capacity,       \* MAX_SNAPSHOT_WORK_SOURCES
    Workloads,      \* what happens in a behaviour: its kinds of requests and
                    \* events, its Projects and the bound on its requests
    Free, NoSession, NoConversation,
    MaxEdits,       \* bound on the changes made in checkouts by their users
    MaxSwitches,    \* bound on the conversations a running provider leaves
    MaxBoots,       \* bound on the restarts of the daemon
    MaxFaults       \* bound on failed writes of the database

Checkouts == Roots \cup Worktrees

ASSUME WorkbenchAssumption ==
    /\ Roots \cap Worktrees = {}
    /\ Home \in [Checkouts -> Projects]
    /\ \A p \in Projects : \E r \in Roots : Home[r] = p
    /\ Capacity \in Nat
    /\ {MaxEdits, MaxSwitches, MaxBoots, MaxFaults} \subseteq Nat
    /\ IsFiniteSet(Clients) /\ IsFiniteSet(Worktrees)
    /\ Free \notin Clients \cup Checkouts
    /\ NoSession \notin Sessions
    /\ NoConversation \notin Conversations

VARIABLES
    offered,     \* the Workload of this behaviour
    row,         \* worktrees.status of a checkout, "none" without a row
    source,      \* checkouts with a Work Source
    generation,  \* projects.removal_generation
    session,     \* the rows of sessions
    links,       \* session_resumptions
    disk,        \* what is in a checkout's directory
    up,          \* whether the daemon runs
    permits,     \* work_source_capacity
    excess,      \* work_source_capacity_excess
    live,        \* Sessions that run in this daemon
    plock,       \* holder of a Project's operation lock
    wlock,       \* holder of a Worktree's operation lock
    req,         \* what each connection is doing
    confirm,     \* the removal each client was last authorized for
    cut,         \* history: conversations whose lineage is not one chain any more
    count        \* requests, edits, boots and faults so far

data == <<row, source, generation, session, links>>
memory == <<permits, excess, live, plock, wlock, req, up>>
vars == <<offered, data, disk, memory, confirm, cut, count>>

Idle == [op |-> "idle", locks |-> <<>>, step |-> "idle", w |-> Free,
         s |-> NoSession, permit |-> FALSE]

NoRow == [w |-> Free, lifecycle |-> "none", conversation |-> NoConversation]

HasRow(w) == row[w] \in {"active", "missing", "removed"}

Exists(s) == session[s].lifecycle \in {"starting", "running", "ended"}

(* lifecycle_is_active, and lifecycle_allows_resume, which is also         *)
(* lifecycle_allows_deletion; "ended" stands for Exited, Failed,           *)
(* Terminated and Disconnected.                                            *)
IsActive(s) == session[s].lifecycle \in {"starting", "running"}

AllowsResume(s) == session[s].lifecycle = "ended"

ActiveSources == {w \in source : row[w] \in {"active", "missing"}}

Tally(kind) == count' = [count EXCEPT ![kind] = @ + 1]

----------------------------------------------------------------------------
(* The database.                                                           *)

(* load_snapshot: the lineage is linear and every link keeps worktree and  *)
(* conversation, and the Work Sources fit.  Without it no snapshot is      *)
(* answered, nothing is resumed, and the database does not open.           *)
Loads ==
    /\ \A l, m \in links : (l[1] = m[1] \/ l[2] = m[2]) => l = m
    /\ \A l \in links :
         /\ session[l[1]].w = session[l[2]].w
         /\ session[l[1]].conversation # NoConversation
         /\ session[l[1]].conversation = session[l[2]].conversation
    /\ Cardinality(ActiveSources) <= Capacity

(* load_session_lineage_leaf follows the links to their end.               *)
Leaf(s) ==
    LET after[n \in 0..Cardinality(links)] ==
          IF n = 0 THEN s
          ELSE IF \E l \in links : l[1] = after[n - 1]
               THEN (CHOOSE l \in links : l[1] = after[n - 1])[2]
               ELSE after[n - 1]
    IN  after[Cardinality(links)]

(* The triggers on worktrees and sessions.                                 *)
Bump(p) == generation' = [generation EXCEPT ![p] = @ + 1]

(* is_removable: neither Sessions nor managed checkouts, one root.         *)
Removable(p) ==
    /\ \A s \in Sessions : Exists(s) => Home[session[s].w] # p
    /\ \A w \in Worktrees : Home[w] = p => row[w] \notin {"active", "missing"}
    /\ \E r \in Roots : Home[r] = p /\ HasRow(r)

(* authorization_fingerprint.                                              *)
Fingerprint(p) == generation[p]

----------------------------------------------------------------------------
Init ==
    /\ offered \in Workloads
    /\ row = [w \in Checkouts |->
         IF w \in Roots /\ Home[w] \in offered.projects
              /\ "AddProject" \notin offered.kinds
         THEN "active" ELSE "none"]
    /\ source = {}
    /\ generation = [p \in Projects |-> 0]
    /\ session = [s \in Sessions |-> NoRow]
    /\ links = {}
    /\ disk = [w \in Checkouts |-> IF w \in Roots THEN "clean" ELSE "absent"]
    /\ up = TRUE
    /\ permits = Capacity
    /\ excess = 0
    /\ live = {}
    /\ plock = [p \in Projects |-> Free]
    /\ wlock = [w \in Checkouts |-> Free]
    /\ req = [c \in Clients |-> Idle]
    /\ confirm = [c \in Clients |-> [p |-> Free, fingerprint |-> 0]]
    /\ cut = {}
    /\ count = [requests |-> 0, edits |-> 0, switches |-> 0, boots |-> 0,
                faults |-> 0]

----------------------------------------------------------------------------
(* A request is taken up.                                                  *)

(* Mutant: CreateSession takes no lock.                                    *)
LocksButCreate(op) ==
    CASE op = "CreateSession" -> <<>>
      [] op = "ResumeSession" -> <<"worktree">>
      [] op = "RemoveWorktree" -> <<"project", "worktree">>
      [] OTHER -> <<"project">>

(* Mutant: Retry Session takes the Worktree's lock as well, and first.     *)
LocksCrossed(op) ==
    CASE op = "RetryStartWork" -> <<"worktree", "project">>
      [] op \in {"CreateSession", "ResumeSession"} -> <<"worktree">>
      [] op = "RemoveWorktree" -> <<"project", "worktree">>
      [] OTHER -> <<"project">>

(* The operation locks of a request, in the order it takes them.           *)
Locks(op) ==
    CASE op \in {"CreateSession", "ResumeSession"} -> <<"worktree">>
      [] op = "RemoveWorktree" -> <<"project", "worktree">>
      [] OTHER -> <<"project">>

Fresh(w) ==
    /\ row[w] = "none"
    /\ disk[w] = "absent"
    /\ \A c \in Clients : req[c].w # w

(* What a request names, as far as it is read before any lock is taken.    *)
Names(op, w, s) ==
    CASE op \in {"CreateWorktree", "StartWork"} ->
           /\ w \in Worktrees /\ Fresh(w) /\ s = NoSession
           /\ Home[w] \in offered.projects
      [] op = "RetryStartWork" ->
           w \in Worktrees /\ HasRow(w) /\ s = NoSession
      [] op \in {"CreateSession", "RemoveWorktree"} ->
           HasRow(w) /\ s = NoSession
      [] op = "ResumeSession" ->
           s \in Sessions /\ Exists(s) /\ w = session[s].w
      [] op = "RemoveProject" ->
           w \in Roots /\ HasRow(w) /\ s = NoSession

Requested ==
    {"CreateWorktree", "StartWork", "RetryStartWork", "CreateSession",
     "RemoveWorktree", "ResumeSession", "RemoveProject"}

Submit(c, op, w, s) ==
    /\ up /\ req[c] = Idle
    /\ op \in offered.kinds
    /\ count.requests < offered.requests
    /\ Names(op, w, s)
    /\ req' = [req EXCEPT ![c] = [Idle EXCEPT !.op = op, !.locks = Locks(op),
                                              !.step = "check", !.w = w,
                                              !.s = s]]
    /\ Tally("requests")
    /\ UNCHANGED <<offered, data, disk, permits, excess, live, plock, wlock,
                   up, confirm, cut>>

Lock(c) ==
    /\ req[c].locks # <<>>
    /\ LET w == req[c].w IN
         IF Head(req[c].locks) = "project"
         THEN /\ plock[Home[w]] = Free
              /\ plock' = [plock EXCEPT ![Home[w]] = c]
              /\ UNCHANGED wlock
         ELSE /\ wlock[w] = Free
              /\ wlock' = [wlock EXCEPT ![w] = c]
              /\ UNCHANGED plock
    /\ req' = [req EXCEPT ![c].locks = Tail(@)]
    /\ UNCHANGED <<offered, data, disk, permits, excess, live, up, confirm,
                   cut, count>>

At(c, ops, step) ==
    /\ req[c].op \in ops
    /\ req[c].locks = <<>>
    /\ req[c].step = step

GoesTo(c, step) ==
    /\ req' = [req EXCEPT ![c].step = step]
    /\ UNCHANGED <<plock, wlock>>

(* The request is answered: its guards, and a permit it still holds, are   *)
(* dropped.                                                                *)
Returns(c) ==
    /\ req' = [req EXCEPT ![c] = Idle]
    /\ plock' = [p \in Projects |-> IF plock[p] = c THEN Free ELSE plock[p]]
    /\ wlock' = [w \in Checkouts |-> IF wlock[w] = c THEN Free ELSE wlock[w]]

PermitReturns(c) ==
    permits' = IF req[c].permit THEN permits + 1 ELSE permits

(* A refusal, on what is modelled here or on what is not (GitHub, the      *)
(* provider's health, names), or a live leaf to attach to.                 *)
Answer(c) ==
    /\ At(c, Requested, "check") \/ At(c, Requested, "launch")
         \/ At(c, {"RemoveWorktree"}, "remove")
    /\ Returns(c)
    /\ UNCHANGED <<offered, data, disk, permits, excess, live, up, confirm,
                   cut, count>>

----------------------------------------------------------------------------
(* CreateWorktree and StartWork.                                           *)

CheckCreate(c) ==
    /\ At(c, {"CreateWorktree", "StartWork"}, "check")
    /\ \E r \in Roots : Home[r] = Home[req[c].w] /\ HasRow(r)
    /\ IF req[c].op = "StartWork"
       THEN /\ Loads
            /\ permits > 0
            /\ permits' = permits - 1
            /\ req' = [req EXCEPT ![c].step = "add", ![c].permit = TRUE]
       ELSE req' = [req EXCEPT ![c].step = "add"] /\ UNCHANGED permits
    /\ UNCHANGED <<offered, data, disk, excess, live, plock, wlock, up,
                   confirm, cut, count>>

(* git worktree add; a checkout that cannot be verified stays on disk.     *)
AddCheckout(c, verified) ==
    /\ At(c, {"CreateWorktree", "StartWork"}, "add")
    /\ disk' = [disk EXCEPT ![req[c].w] = "clean"]
    /\ IF verified THEN GoesTo(c, "record") /\ UNCHANGED permits
                   ELSE Returns(c) /\ PermitReturns(c)
    /\ UNCHANGED <<offered, data, excess, live, up, confirm, cut, count>>

AddFails(c) ==
    /\ At(c, {"CreateWorktree", "StartWork"}, "add")
    /\ Returns(c)
    /\ PermitReturns(c)
    /\ UNCHANGED <<offered, data, disk, excess, live, up, confirm, cut,
                   count>>

(* Mutant: the permit of a recorded Work Source is dropped, not forgotten. *)
RecordDropsPermit(c) ==
    LET w == req[c].w IN
    /\ At(c, {"CreateWorktree", "StartWork"}, "record")
    /\ row' = [row EXCEPT ![w] = "active"]
    /\ Bump(Home[w])
    /\ IF req[c].op = "StartWork"
       THEN /\ source' = source \cup {w}
            /\ req' = [req EXCEPT ![c].step = "launch", ![c].permit = FALSE]
            /\ UNCHANGED <<plock, wlock>>
       ELSE UNCHANGED source /\ Returns(c)
    /\ PermitReturns(c)
    /\ UNCHANGED <<offered, session, links, disk, excess, live, up, confirm,
                   cut, count>>

(* add_worktree and add_sourced_worktree, whose permit is forgotten.       *)
Record(c) ==
    LET w == req[c].w IN
    /\ At(c, {"CreateWorktree", "StartWork"}, "record")
    /\ row' = [row EXCEPT ![w] = "active"]
    /\ Bump(Home[w])
    /\ IF req[c].op = "StartWork"
       THEN /\ source' = source \cup {w}
            /\ req' = [req EXCEPT ![c].step = "launch", ![c].permit = FALSE]
            /\ UNCHANGED <<plock, wlock>>
       ELSE UNCHANGED source /\ Returns(c)
    /\ UNCHANGED <<offered, session, links, disk, permits, excess, live, up,
                   confirm, cut, count>>

(* The checkout is preserved without a row.                                *)
RecordFails(c) ==
    /\ At(c, {"CreateWorktree", "StartWork"}, "record")
    /\ count.faults < MaxFaults
    /\ Tally("faults")
    /\ Returns(c)
    /\ PermitReturns(c)
    /\ UNCHANGED <<offered, data, disk, excess, live, up, confirm, cut>>

----------------------------------------------------------------------------
(* Sessions: CreateSession, RetryStartWorkSession, ResumeSession.          *)

(* verified_worktree.                                                      *)
Verified(w) == row[w] = "active" /\ disk[w] # "absent"

ActiveIn(w) == {s \in Sessions : IsActive(s) /\ session[s].w = w}

CheckCreateSession(c) ==
    /\ At(c, {"CreateSession"}, "check")
    /\ Verified(req[c].w)
    /\ GoesTo(c, "launch")
    /\ UNCHANGED <<offered, data, disk, permits, excess, live, up, confirm,
                   cut, count>>

(* Everything is checked twice around the Issue and the provider's health; *)
(* the second time decides.                                                *)
CheckRetry(c) ==
    /\ At(c, {"RetryStartWork"}, "check")
    /\ Verified(req[c].w)
    /\ req[c].w \in source
    /\ ActiveIn(req[c].w) = {}
    /\ GoesTo(c, "launch")
    /\ UNCHANGED <<offered, data, disk, permits, excess, live, up, confirm,
                   cut, count>>

(* resume_conversation and inspect_resume_leaf: an ended leaf with a       *)
(* conversation and a checkout gets a successor.                           *)
CheckResume(c) ==
    /\ At(c, {"ResumeSession"}, "check")
    /\ Exists(req[c].s)
    /\ Loads
    /\ \E leaf \in Sessions :
         /\ leaf = Leaf(req[c].s)
         /\ AllowsResume(leaf)
         /\ session[leaf].conversation # NoConversation
         /\ Verified(session[leaf].w)
         /\ req' = [req EXCEPT ![c].step = "launch", ![c].s = leaf]
    /\ UNCHANGED <<offered, data, disk, permits, excess, live, plock, wlock,
                   up, confirm, cut, count>>

(* What insert_session demands of the Session that is resumed.             *)
Eligible(s, w) ==
    /\ AllowsResume(s)
    /\ session[s].w = w
    /\ session[s].conversation # NoConversation
    /\ \A l \in links : l[1] # s

(* Mutant: the successor is not linked to its predecessor.                 *)
Unlinked(c, n) == links

Linked(c, n) ==
    IF req[c].op = "ResumeSession" THEN links \cup {<<req[c].s, n>>} ELSE links

Unborn == {s \in Sessions : session[s] = NoRow}

(* create_session: the row, its lineage and the foreign key on worktrees.  *)
(* A new identity is as good as any other.                                 *)
Insert(c) ==
    LET w == req[c].w
        n == CHOOSE s \in Unborn : TRUE
    IN
    /\ At(c, Requested, "launch")
    /\ Unborn # {}
    /\ HasRow(w)
    /\ req[c].op = "ResumeSession" => Eligible(req[c].s, w)
    /\ session' = [session EXCEPT ![n] =
         [w |-> w, lifecycle |-> "starting",
          conversation |-> IF req[c].op = "ResumeSession"
                           THEN session[req[c].s].conversation
                           ELSE NoConversation]]
    /\ links' = Linked(c, n)
    /\ Bump(Home[w])
    /\ req' = [req EXCEPT ![c].step = "spawn", ![c].s = n]
    /\ UNCHANGED <<offered, row, source, disk, permits, excess, live, plock,
                   wlock, up, confirm, cut, count>>

Spawn(c) ==
    /\ At(c, Requested, "spawn")
    /\ session' = [session EXCEPT ![req[c].s].lifecycle = "running"]
    /\ live' = live \cup {req[c].s}
    /\ Returns(c)
    /\ UNCHANGED <<offered, row, source, generation, links, disk, permits,
                   excess, up, confirm, cut, count>>

(* persist_session_start_failure, whose own failure is passed over.        *)
SpawnFails(c, recorded) ==
    /\ At(c, Requested, "spawn")
    /\ IF recorded
       THEN session' = [session EXCEPT ![req[c].s].lifecycle = "ended"]
              /\ UNCHANGED count
       ELSE count.faults < MaxFaults /\ Tally("faults") /\ UNCHANGED session
    /\ Returns(c)
    /\ UNCHANGED <<offered, row, source, generation, links, disk, permits,
                   excess, live, up, confirm, cut>>

----------------------------------------------------------------------------
(* RemoveWorktree and RemoveProject.                                       *)

(* remove_managed_worktree inspects the checkout, ignored files included.  *)
CheckRemove(c) ==
    LET w == req[c].w IN
    /\ At(c, {"RemoveWorktree"}, "check")
    /\ ActiveIn(w) = {}
    /\ \A s \in live : session[s].w # w
    /\ w \in Worktrees /\ row[w] = "active"
    /\ disk[w] = "clean"
    /\ GoesTo(c, "remove")
    /\ UNCHANGED <<offered, data, disk, permits, excess, live, up, confirm,
                   cut, count>>

(* Mutant: git worktree remove --force.                                    *)
RemoveByForce(w) == disk[w] # "absent"

(* git worktree remove refuses changed and untracked files, not ignored    *)
(* ones.                                                                   *)
GitRemoves(w) == disk[w] \in {"clean", "ignored"}

RemoveCheckout(c) ==
    /\ At(c, {"RemoveWorktree"}, "remove")
    /\ GitRemoves(req[c].w)
    /\ disk' = [disk EXCEPT ![req[c].w] = "absent"]
    /\ GoesTo(c, "mark")
    /\ UNCHANGED <<offered, data, permits, excess, live, up, confirm, cut,
                   count>>

(* release_work_source_capacity.                                           *)
CapacityReturns(w) ==
    IF w \notin source THEN UNCHANGED <<permits, excess>>
    ELSE IF excess > 0 THEN excess' = excess - 1 /\ UNCHANGED permits
    ELSE permits' = permits + 1 /\ UNCHANGED excess

Mark(c) ==
    LET w == req[c].w IN
    /\ At(c, {"RemoveWorktree"}, "mark")
    /\ row[w] = "active"
    /\ row' = [row EXCEPT ![w] = "removed"]
    /\ Bump(Home[w])
    /\ CapacityReturns(w)
    /\ Returns(c)
    /\ UNCHANGED <<offered, source, session, links, disk, live, up, confirm,
                   cut, count>>

(* Only an audit row tells of the checkout that is gone.                   *)
MarkFails(c) ==
    /\ At(c, {"RemoveWorktree"}, "mark")
    /\ count.faults < MaxFaults
    /\ Tally("faults")
    /\ Returns(c)
    /\ UNCHANGED <<offered, data, disk, permits, excess, live, up, confirm,
                   cut>>

(* InspectProjectRemoval.                                                  *)
Inspect(c, p) ==
    /\ up /\ req[c] = Idle
    /\ "RemoveProject" \in offered.kinds
    /\ Removable(p)
    /\ confirm' = [confirm EXCEPT ![c] = [p |-> p,
                                          fingerprint |-> Fingerprint(p)]]
    /\ UNCHANGED <<offered, data, disk, memory, cut, count>>

(* remove_project revalidates in its transaction what the request compared *)
(* with its authorization.                                                 *)
RemoveProject(c) ==
    LET p == Home[req[c].w] IN
    /\ At(c, {"RemoveProject"}, "check")
    /\ Removable(p)
    /\ confirm[c] = [p |-> p, fingerprint |-> Fingerprint(p)]
    /\ row' = [w \in Checkouts |-> IF Home[w] = p /\ HasRow(w) THEN "gone"
                                   ELSE row[w]]
    /\ source' = {w \in source : Home[w] # p}
    /\ Returns(c)
    /\ UNCHANGED <<offered, generation, session, links, disk, permits, excess,
                   live, up, confirm, cut, count>>

(* AddProject: the Project and its root checkout.                          *)
AddProject(r) ==
    /\ up
    /\ "AddProject" \in offered.kinds
    /\ Home[r] \in offered.projects
    /\ row[r] = "none"
    /\ row' = [row EXCEPT ![r] = "active"]
    /\ Bump(Home[r])
    /\ UNCHANGED <<offered, source, session, links, disk, memory, confirm,
                   cut, count>>

(* DeleteSession takes the row and both its links; deleting a Session in   *)
(* the middle leaves two ends of one conversation.                         *)
DeleteSession(s) ==
    /\ up
    /\ "DeleteSession" \in offered.kinds
    /\ AllowsResume(s) /\ s \notin live
    /\ session' = [session EXCEPT ![s].lifecycle = "deleted"]
    /\ links' = {l \in links : l[1] # s /\ l[2] # s}
    /\ cut' = IF (\E l \in links : l[1] = s) /\ (\E l \in links : l[2] = s)
              THEN cut \cup {session[s].conversation} ELSE cut
    /\ Bump(Home[session[s].w])
    /\ UNCHANGED <<offered, row, source, disk, memory, confirm, count>>

----------------------------------------------------------------------------
(* What happens to Sessions and checkouts, and to the daemon.              *)

Exit(s) ==
    /\ s \in live
    /\ session' = [session EXCEPT ![s].lifecycle = "ended"]
    /\ live' = live \ {s}
    /\ UNCHANGED <<offered, row, source, generation, links, disk, permits,
                   excess, plock, wlock, req, up, confirm, cut, count>>

(* provider_external_id_update.                                            *)
Accepts(existing, how) ==
    existing = NoConversation \/ how \in {"cleared", "resumed"}

(* The provider announces a conversation: a new one at its start or when   *)
(* it is cleared, a known one when the user has it resume that.            *)
Announce(s, k, how) ==
    LET existing == session[s].conversation
        taken == {session[t].conversation : t \in Sessions}
    IN
    /\ "Announce" \in offered.kinds
    /\ s \in live
    /\ k # existing
    /\ IF how = "resumed" THEN k \in taken
       ELSE k \notin taken /\ k = CHOOSE new \in Conversations : new \notin taken
    /\ how # "established" => existing # NoConversation
    /\ Accepts(existing, how)
    /\ existing # NoConversation => count.switches < MaxSwitches
    /\ session' = [session EXCEPT ![s].conversation = k]
    /\ cut' = IF k \in taken THEN cut \cup {k} ELSE cut
    /\ IF existing = NoConversation THEN UNCHANGED count ELSE Tally("switches")
    /\ UNCHANGED <<offered, row, source, generation, links, disk, memory,
                   confirm>>

Edit(w, to) ==
    /\ "Edit" \in offered.kinds
    /\ count.edits < MaxEdits
    /\ disk[w] \notin {"absent", to}
    /\ disk' = [disk EXCEPT ![w] = to]
    /\ Tally("edits")
    /\ UNCHANGED <<offered, data, memory, confirm, cut>>

Crash ==
    /\ up
    /\ count.boots < MaxBoots
    /\ up' = FALSE
    /\ live' = {}
    /\ req' = [c \in Clients |-> Idle]
    /\ plock' = [p \in Projects |-> Free]
    /\ wlock' = [w \in Checkouts |-> Free]
    /\ permits' = 0
    /\ excess' = 0
    /\ UNCHANGED <<offered, data, disk, confirm, cut, count>>

Minus(a, b) == IF a > b THEN a - b ELSE 0

(* reconcile_worktrees: the active checkouts whose directory is gone.      *)
Vanished == {w \in Checkouts : row[w] = "active" /\ disk[w] = "absent"}

(* The database opens, sessions and worktrees are reconciled, and the      *)
(* capacity is counted anew.  Tokens of the last daemon authorize nothing. *)
Boot ==
    /\ ~up
    /\ Loads
    /\ up' = TRUE
    /\ Tally("boots")
    /\ session' = [s \in Sessions |->
         IF IsActive(s) THEN [session[s] EXCEPT !.lifecycle = "ended"]
         ELSE session[s]]
    /\ row' = [w \in Checkouts |->
         IF w \in Vanished THEN "missing" ELSE row[w]]
    /\ generation' = [p \in Projects |->
         generation[p] + Cardinality({w \in Vanished : Home[w] = p})]
    /\ permits' = Minus(Capacity, Cardinality(ActiveSources))
    /\ excess' = Minus(Cardinality(ActiveSources), Capacity)
    /\ confirm' = [c \in Clients |-> [p |-> Free, fingerprint |-> 0]]
    /\ UNCHANGED <<offered, source, links, disk, live, plock, wlock, req,
                   cut>>

----------------------------------------------------------------------------
Advance(c) ==
    \/ Lock(c)
    \/ Answer(c)
    \/ CheckCreate(c)
    \/ \E verified \in BOOLEAN : AddCheckout(c, verified)
    \/ AddFails(c)
    \/ Record(c)
    \/ RecordFails(c)
    \/ CheckCreateSession(c)
    \/ CheckRetry(c)
    \/ CheckResume(c)
    \/ Insert(c)
    \/ Spawn(c)
    \/ \E recorded \in BOOLEAN : SpawnFails(c, recorded)
    \/ CheckRemove(c)
    \/ RemoveCheckout(c)
    \/ Mark(c)
    \/ MarkFails(c)
    \/ RemoveProject(c)

Next ==
    \/ \E c \in Clients, op \in Requested, w \in Checkouts,
          s \in Sessions \cup {NoSession} : Submit(c, op, w, s)
    \/ \E c \in Clients : Advance(c)
    \/ \E c \in Clients, p \in Projects : Inspect(c, p)
    \/ \E r \in Roots : AddProject(r)
    \/ \E s \in Sessions : DeleteSession(s)
    \/ \E s \in Sessions : Exit(s)
    \/ \E s \in Sessions, k \in Conversations,
          how \in {"established", "cleared", "resumed"} : Announce(s, k, how)
    \/ \E w \in Checkouts, to \in {"clean", "ignored", "changed", "absent"} :
         Edit(w, to)
    \/ Crash
    \/ Boot

Spec == Init /\ [][Next]_vars

(* A handler runs until it has answered: its Git commands have deadlines,  *)
(* its database answers, and tokio's mutexes are granted in turn.          *)
Fairness == \A c \in Clients : WF_vars(Advance(c))

FairSpec == Spec /\ Fairness

----------------------------------------------------------------------------
(* Every variable has its type, and the rows refer to rows: a Session to a *)
(* checkout, a managed checkout in use to a registered Project, a link to  *)
(* two Sessions.                                                           *)
TypeOK ==
    /\ row \in [Checkouts -> {"none", "active", "missing", "removed", "gone"}]
    /\ source \subseteq Worktrees
    /\ disk \in [Checkouts -> {"absent", "clean", "ignored", "changed"}]
    /\ permits \in 0..Capacity /\ excess \in Nat
    /\ live \subseteq {s \in Sessions : session[s].lifecycle = "running"}
    /\ \A s \in Sessions : Exists(s) => HasRow(session[s].w)
    /\ \A w \in Worktrees :
         row[w] \in {"active", "missing"}
           => \E r \in Roots : Home[r] = Home[w] /\ HasRow(r)
    /\ \A l \in links : Exists(l[1]) /\ Exists(l[2])

(* A Session that is starting or running under this daemon has its         *)
(* checkout: RemoveWorktree never marks a checkout removed, and            *)
(* RemoveProject no row, that a launch had verified before it.             *)
SessionsHaveCheckouts ==
    up => \A s \in Sessions : IsActive(s) => row[session[s].w] = "active"

(* The semaphore is exact: free permits, permits held by requests under    *)
(* way and recorded Work Sources always make up the capacity, whatever     *)
(* failed or crashed in between.                                           *)
CapacityIsExact ==
    up => permits - excess + Cardinality({c \in Clients : req[c].permit})
            + Cardinality(ActiveSources) = Capacity

(* Two Sessions run the same conversation only if a Session between them   *)
(* was deleted or the provider itself was told to resume it: two resumes,  *)
(* of any Sessions of a lineage, do not.                                   *)
OneLivePerConversation ==
    \A s, t \in live :
        /\ s # t
        /\ session[s].conversation = session[t].conversation
        /\ session[s].conversation # NoConversation
        => session[s].conversation \in cut

(* What is stored can be loaded, so that the daemon answers snapshots and  *)
(* starts: a successor has inherited the identity of its predecessor's     *)
(* conversation (ADR 0010), which load_session_lineage insists on.         *)
SnapshotLoads == Loads

(* The daemon deletes no checkout but a managed one whose row is active,   *)
(* in which nothing runs and nothing is changed or untracked.              *)
RemovalKeepsWork ==
    [][\A w \in Checkouts :
         /\ disk[w] # "absent" /\ disk'[w] = "absent"
         /\ count'.edits = count.edits
         => /\ w \in Worktrees /\ row[w] = "active"
            /\ disk[w] # "changed"
            /\ ActiveIn(w) = {}]_vars

(* Every request is answered: the locks of Projects and Worktrees never    *)
(* leave requests waiting for each other.                                  *)
RequestIsAnswered ==
    \A c \in Clients : req[c] # Idle ~> req[c] = Idle
=============================================================================
