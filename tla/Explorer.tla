------------------------------ MODULE Explorer -----------------------------
(***************************************************************************)
(* The navigation of the terminal UI (app.rs, reducer.rs): a tree of a     *)
(* Workspace, its Projects, their Worktrees and their Sessions, shown as   *)
(* rows.  What is selected is kept twice, as the identities of a Project,  *)
(* a Worktree and a Session and as the index of a row, and everything that *)
(* removes or renames goes by the row.  The rows move under the selection  *)
(* whenever a snapshot of the daemon's state comes.                        *)
(*                                                                         *)
(* The tree that can be is constant, and a snapshot has a part of it.      *)
(* Siblings are shown by their latest activity, and activity anywhere puts *)
(* a node before its siblings.  Forms and the palette are the selection    *)
(* that they end in.                                                       *)
(***************************************************************************)
EXTENDS Integers, Sequences, SequencesExt, FiniteSets

CONSTANTS
    Root,         \* above the Workspaces; no node
    Tree,         \* the parent of each node
    Depth,        \* 0 for a Workspace, to 3 for a Session
    Preorder,     \* the nodes, each followed by those below it
    MaxChanges,   \* bound: what changes in the daemon
    MaxKeysHit    \* bound: what the user does

Nodes == DOMAIN Tree

(* The nodes above a node, none for a Workspace.                           *)
Parent(n) == IF n = Root THEN Root ELSE Tree[n]
Parents[n \in Nodes] == <<Parent(n), Parent(Parent(n)), Parent(Parent(Parent(n)))>>
Above == [n \in Nodes |-> Range(Parents[n]) \ {Root}]

(* All the nodes, each after those above it.                               *)
InPreorder(seq) ==
    /\ Range(seq) = Nodes
    /\ \A i, j \in DOMAIN seq :
          /\ seq[i] = seq[j] => i = j
          /\ seq[i] \in Above[seq[j]] => i < j

ASSUME ExplorerAssumption ==
    /\ Root \notin Nodes
    /\ \A n \in Nodes :
          /\ Depth[n] \in 0 .. 3
          /\ IF Depth[n] = 0 THEN Tree[n] = Root
             ELSE Tree[n] \in Nodes /\ Depth[Tree[n]] = Depth[n] - 1
    /\ Preorder \in Seq(Nodes) /\ InPreorder(Preorder)
    /\ {MaxChanges, MaxKeysHit} \subseteq Nat

VARIABLES
    daemon,   \* the daemon's state: nodes, their order, the open Workspace,
              \* and the Sessions that are live or need attention
    tui,      \* App
    budget    \* bound: changes and keys so far

explorerVars == <<daemon, tui, budget>>

AtWorkspaces == {n \in Nodes : Depth[n] = 0}
AtSessions == {n \in Nodes : Depth[n] = 3}
Subtree == [n \in Nodes |-> {m \in Nodes : m = n \/ n \in Above[m]}]

(* What of a sequence is in a set, in the order of the sequence.           *)
Only(seq, S) ==
    LET upTo[i \in 0 .. Len(seq)] ==
            IF i = 0 THEN <<>> ELSE IF seq[i] \in S THEN Append(upTo[i - 1], seq[i]) ELSE upTo[i - 1] IN
    upTo[Len(seq)]

(* node_exists: in the open Workspace.                                     *)
Has(s, n) == n \in s.nodes /\ s.open \in Above[n] \cup {n}
Offered(s) == {n \in s.nodes : Has(s, n)}

(* visible_projects, project_worktrees, worktree_sessions.                 *)
Children(s, n) == Only(s.order, {m \in s.nodes : Tree[m] = n})

(* session_overview.                                                       *)
Overview(s) == Only(s.overview, Offered(s))

----------------------------------------------------------------------------
(* The rows, and the selection.                                            *)

(* explorer_rows: all that has nothing folded above it.                    *)
Unfolded(a) == a.expanded \cup IF a.unfolded THEN AtWorkspaces ELSE {}
Shown(a) ==
    LET unfolded == Unfolded(a) IN {n \in Offered(a.snap) : Above[n] \subseteq unfolded}
Rows(a) == Only(a.snap.order, Shown(a))

Position(seq, n) ==
    IF Contains(seq, n) THEN CHOOSE i \in DOMAIN seq : seq[i] = n ELSE 0

(* selected_node goes by the row.                                          *)
RowNode(a) == LET rows == Rows(a) IN IF a.row \in DOMAIN rows THEN rows[a.row] ELSE Root

(* What the identities say.                                                *)
Target(a) ==
    LET at == {d \in 1 .. 3 : a.sel[d] # Root} IN
    IF at # {} THEN a.sel[Max(at)] ELSE IF a.workspace THEN a.snap.open ELSE Root

NoSelection == [d \in 1 .. 3 |-> Root]
PathTo == [n \in Nodes |->
    [d \in 1 .. 3 |-> LET at == {m \in Above[n] \cup {n} : Depth[m] = d} IN
                      IF at = {} THEN Root ELSE CHOOSE m \in at : TRUE]]

SyncExplorerIndex(a) ==
    LET p == Position(Rows(a), Target(a)) IN [a EXCEPT !.row = IF p = 0 THEN 1 ELSE p]

SelectExplorerIndex(a, i) ==
    LET rows == Rows(a)
        row == IF i > Len(rows) THEN Len(rows) ELSE i IN
    IF rows = <<>> THEN a
    ELSE [a EXCEPT !.row = row, !.workspace = Depth[rows[row]] = 0,
                   !.sel = PathTo[rows[row]], !.shifted = FALSE]

SelectNode(a, n) ==
    LET p == Position(Rows(a), n) IN IF p = 0 THEN a ELSE SelectExplorerIndex(a, p)

Expand(a, n) == IF n \in a.snap.nodes THEN [a EXCEPT !.expanded = @ \cup (Above[n] \ AtWorkspaces)]
                ELSE a
RevealAndSelect(a, n) == SelectNode(Expand([a EXCEPT !.unfolded = TRUE], n), n)

(* restore_selection: what is selected and still there, or the first.      *)
RestoreSelection(a) ==
    LET keep(old, seq) == IF Contains(seq, old) THEN old ELSE IF seq = <<>> THEN Root ELSE seq[1]
        project == keep(a.sel[1], Children(a.snap, a.snap.open))
        worktree == IF project = Root THEN Root ELSE keep(a.sel[2], Children(a.snap, project))
        session == IF worktree = Root THEN Root ELSE keep(a.sel[3], Children(a.snap, worktree)) IN
    IF a.snap.open = Root THEN [a EXCEPT !.workspace = FALSE, !.sel = NoSelection, !.row = 1]
    ELSE IF a.workspace THEN SyncExplorerIndex([a EXCEPT !.sel = NoSelection])
    ELSE             SyncExplorerIndex(
                     [a EXCEPT !.sel = <<project, worktree, session>>,
                               !.workspace = project = Root,
                               !.expanded = @ \cup ({project, worktree} \ {Root})])

(* selection_fallback_candidates and nearest_siblings.                     *)
Nearest(seq, n) ==
    LET p == Position(seq, n)
        at(i) == IF i \in DOMAIN seq THEN seq[i] ELSE Root IN
    [k \in 1 .. 2 * Len(seq) |-> at(IF k % 2 = 1 THEN p + (k + 1) \div 2 ELSE p - k \div 2)]
Fallbacks(a) ==
    LET n == RowNode(a) IN
    IF n = Root \/ Tree[n] = Root THEN <<>> ELSE Nearest(Children(a.snap, Tree[n]), n) \o Parents[n]

(* reconcile_overview_selection.                                           *)
ReconcileOverview(a) ==
    LET ids == Overview(a.snap) IN
    IF ~a.active \/ Contains(ids, a.sel[3]) THEN a
    ELSE IF ids # <<>> THEN RevealAndSelect(a, ids[1])
    ELSE SyncExplorerIndex([a EXCEPT !.sel[3] = Root])

(* A snapshot in the place of the one before.  `shifted' is a history: the *)
(* rows were changed and the selection was not looked at, or rows came to  *)
(* an explorer that had none and what was selected is under a folded       *)
(* Workspace.                                                              *)
Placed(a, s) ==
    [a EXCEPT !.snap = s, !.shifted = FALSE,
              !.confirm = IF @ \in s.nodes THEN @ ELSE Root]

(* Mutant: the row stays where it was if what it showed is gone.           *)
ReplaceWithoutSync(a, s) ==
    LET before == RowNode(a) IN
    IF before # Root /\ ~Has(s, before) /\ ~a.active
    THEN [RestoreSelection([Placed(a, s) EXCEPT !.workspace = FALSE, !.sel = NoSelection])
             EXCEPT !.row = a.row]
    ELSE ReconcileOverview(RevealAndSelect(RestoreSelection(Placed(a, s)), before))

(* replace_snapshot.                                                       *)
ReplaceSnapshot(a, s) ==
    LET before == RowNode(a)
        stale == before # Root /\ ~Has(s, before)
        left == Only(Fallbacks(a), Offered(s))
        kept == IF ~stale THEN before ELSE IF left # <<>> THEN left[1] ELSE s.open
        restored == RestoreSelection(
                       IF stale THEN [Placed(a, s) EXCEPT !.workspace = FALSE, !.sel = NoSelection]
                       ELSE Placed(a, s)) IN
    ReconcileOverview(IF kept # Root THEN RevealAndSelect(restored, kept)
                      ELSE [restored EXCEPT !.shifted = ~a.unfolded /\ ~restored.workspace])

----------------------------------------------------------------------------
(* The daemon.                                                             *)

OneMoreChange ==
    /\ budget.changes < MaxChanges
    /\ budget' = [budget EXCEPT !.changes = @ + 1]

Without(s, n) ==
    LET left == s.nodes \ Subtree[n]
        workspaces == {m \in left : Depth[m] = 0} IN
    [s EXCEPT !.nodes = left,
              !.open = IF @ \in left THEN @
                       ELSE IF workspaces = {} THEN Root
                       ELSE CHOOSE w \in workspaces : TRUE,
              !.overview = Only(@, left)]

Appears(n) ==
    /\ n \notin daemon.nodes /\ (Depth[n] = 0 \/ Tree[n] \in daemon.nodes)
    /\ daemon' = [daemon EXCEPT !.nodes = @ \cup {n}, !.open = IF @ = Root THEN n ELSE @]
Disappears(n) == n \in daemon.nodes /\ daemon' = Without(daemon, n)
BecomesActive(n) ==
    /\ n \in daemon.nodes
    /\ LET rest == Only(daemon.order, Nodes \ Subtree[n])
           p == Position(rest, Tree[n]) IN
       daemon' = [daemon EXCEPT !.order = SubSeq(rest, 1, p) \o Only(@, Subtree[n])
                                          \o SubSeq(rest, p + 1, Len(rest))]
ForOverview(n) ==
    /\ n \in daemon.nodes /\ Depth[n] = 3
    /\ daemon' = [daemon EXCEPT !.overview = <<n>> \o Only(@, Nodes \ {n})]
NotForOverview(n) ==
    /\ Contains(daemon.overview, n)
    /\ daemon' = [daemon EXCEPT !.overview = Only(@, Nodes \ {n})]

DaemonChanges(n) ==
    /\ OneMoreChange
    /\ \/ Appears(n) \/ Disappears(n) \/ BecomesActive(n) \/ ForOverview(n) \/ NotForOverview(n)
    /\ UNCHANGED tui

(* An event, a lag or an answer brings a snapshot.                         *)
RefreshSnapshot ==
    /\ tui' = ReplaceSnapshot(tui, daemon)
    /\ UNCHANGED <<daemon, budget>>

----------------------------------------------------------------------------
(* The user.                                                               *)

Key ==
    /\ budget.keys < MaxKeysHit
    /\ budget' = [budget EXCEPT !.keys = @ + 1]

InExplorer == Key /\ tui.confirm = Root /\ tui.recovery = Root /\ UNCHANGED daemon

MoveExplorer(delta) ==
    /\ InExplorer /\ ~tui.active /\ Rows(tui) # <<>>
    /\ tui' = SelectExplorerIndex(tui, IF tui.row + delta < 1 THEN 1 ELSE tui.row + delta)

SelectOverview(n) ==
    /\ InExplorer /\ Contains(Overview(tui.snap), n)
    /\ tui' = [RevealAndSelect(tui, n) EXCEPT !.active = TRUE]

SelectNavigatorView ==
    /\ InExplorer
    /\ tui' = ReconcileOverview([tui EXCEPT !.active = ~@])

ExpandSelected ==
    /\ InExplorer
    /\ LET n == RowNode(tui) IN
          tui' = CASE n = Root \/ n \in AtSessions -> tui
                   [] n \in AtWorkspaces -> [tui EXCEPT !.unfolded = TRUE]
                   [] OTHER -> [tui EXCEPT !.expanded = @ \cup {n}]

CollapseSelected ==
    /\ InExplorer
    /\ LET n == RowNode(tui) IN
          tui' = SyncExplorerIndex(
                    IF n \in AtWorkspaces THEN [tui EXCEPT !.unfolded = FALSE]
                    ELSE IF n \in tui.expanded THEN [tui EXCEPT !.expanded = @ \ {n}]
                    ELSE IF n = Root \/ Depth[n] = 1 THEN tui
                    ELSE SelectNode(tui, Tree[n]))

(* select_attention, and the palette: nothing unfolds the Workspace.       *)
SelectAttention ==
    /\ InExplorer /\ Overview(tui.snap) # <<>>
    /\ LET n == Overview(tui.snap)[1] IN
          tui' = [SelectNode(Expand(tui, n), n) EXCEPT !.active = TRUE]
PickFromPalette(n) ==
    /\ InExplorer /\ Depth[n] > 0
    /\ Has(tui.snap, n) \/ n \in tui.snap.nodes \cap AtSessions
    /\ LET a == IF Depth[n] = 1 THEN [tui EXCEPT !.expanded = @ \cup {n}] ELSE Expand(tui, n) IN
          tui' = SelectNode(a, n)

(* PaletteItem::Workspace.                                                 *)
OpenWorkspace(n) ==
    /\ Key /\ tui.confirm = Root /\ tui.recovery = Root
    /\ n \in daemon.nodes \cap tui.snap.nodes /\ Depth[n] = 0
    /\ daemon' = [daemon EXCEPT !.open = n]
    /\ tui' = ReplaceSnapshot([tui EXCEPT !.workspace = TRUE, !.sel = NoSelection], daemon')

(* finish_form_submission, for what it created.                            *)
FormCreates(n) ==
    /\ Key /\ tui.confirm = Root /\ tui.recovery = Root
    /\ Depth[n] > 0 /\ n \notin daemon.nodes /\ Tree[n] \in daemon.nodes
    /\ daemon' = [daemon EXCEPT !.nodes = @ \cup {n}]
    /\ LET a == ReplaceSnapshot(tui, daemon') IN tui' = SelectNode(Expand(a, n), n)

(* Work was started and its Session was not: upsert_start_work_state puts  *)
(* the Worktree among the rows, behind the recovery that is shown.         *)
WorktreeWithoutSession(n) ==
    /\ Key /\ tui.confirm = Root /\ tui.recovery = Root
    /\ Depth[n] = 2 /\ n \notin daemon.nodes /\ Tree[n] \in daemon.nodes
    /\ Has(tui.snap, Tree[n])
    /\ daemon' = [daemon EXCEPT !.nodes = @ \cup {n}]
    /\ tui' = [tui EXCEPT !.snap.nodes = @ \cup {n}, !.recovery = n, !.shifted = TRUE]

InRecovery == Key /\ tui.recovery # Root /\ UNCHANGED daemon
LeaveRecovery == InRecovery /\ tui' = [tui EXCEPT !.recovery = Root]
OpenRecovered ==  \* open_github_worktree
    /\ InRecovery
    /\ LET sessions == Range(Children(tui.snap, tui.recovery)) IN
          \E n \in IF sessions = {} THEN {tui.recovery} ELSE sessions :
             tui' = RevealAndSelect([tui EXCEPT !.recovery = Root], n)

(* open_destructive_confirmation: of the row, if the daemon still has it.  *)
Confirmation(a) ==
    IF RowNode(a) \notin daemon.nodes THEN a
    ELSE [a EXCEPT !.recovery = Root, !.confirm = RowNode(a)]

AskToRemove ==
    /\ InExplorer /\ RowNode(tui) # Root
    /\ tui' = Confirmation(tui)

(* From the recovery.  When the Worktree has gone from the rows meanwhile, *)
(* the question is about the row that was selected before.                 *)
AskToRemoveRecovered ==
    /\ InRecovery
    /\ LET a == RevealAndSelect(tui, tui.recovery) IN
          \/ tui' = a  \* refused: running, not clean
          \/ tui' = Confirmation(a)

Answering == Key /\ tui.confirm # Root
(* Refused by the daemon, a confirmation only goes away.                   *)
Dismiss == Answering /\ tui' = [tui EXCEPT !.confirm = Root] /\ UNCHANGED daemon
Confirm ==
    /\ Answering /\ tui.confirm \in daemon.nodes
    /\ daemon' = Without(daemon, tui.confirm)
    /\ tui' = ReplaceSnapshot([tui EXCEPT !.confirm = Root], daemon')

(* new_at, without a persisted state.                                      *)
ExplorerInit ==
    /\ daemon \in [nodes : {S \in SUBSET Nodes : \A n \in S : Above[n] \subseteq S},
                   order : {Preorder}, open : Nodes \cup {Root},
                   overview : {<<>>}]
    /\ IF daemon.open = Root THEN daemon.nodes = {}
       ELSE daemon.open \in daemon.nodes /\ Depth[daemon.open] = 0
    /\ tui = RestoreSelection(
                [snap |-> daemon, workspace |-> FALSE, sel |-> NoSelection, row |-> 1,
                 unfolded |-> TRUE, expanded |-> {}, active |-> FALSE,
                 confirm |-> Root, recovery |-> Root, shifted |-> FALSE])
    /\ budget = [changes |-> 0, keys |-> 0]

ExplorerNext ==
    \/ RefreshSnapshot
    \/ \E n \in Nodes :
          \/ DaemonChanges(n) \/ SelectOverview(n) \/ PickFromPalette(n)
          \/ OpenWorkspace(n) \/ FormCreates(n) \/ WorktreeWithoutSession(n)
    \/ \E delta \in {-1, 1} : MoveExplorer(delta)
    \/ SelectNavigatorView \/ ExpandSelected \/ CollapseSelected \/ SelectAttention
    \/ LeaveRecovery \/ OpenRecovered
    \/ AskToRemove \/ AskToRemoveRecovered \/ Dismiss \/ Confirm

ExplorerSpec == ExplorerInit /\ [][ExplorerNext]_explorerVars

----------------------------------------------------------------------------
(* The row that is marked, by which a removal goes, is the one that the    *)
(* selected identities name, whatever the snapshots, the folds and the     *)
(* views did to the rows.  Excepted is the time until the next snapshot or *)
(* selection from a Start Work that made only a Worktree, and from a       *)
(* snapshot that filled an explorer without rows whose Workspace was       *)
(* folded.                                                                 *)
RowIsSelection == Rows(tui) # <<>> /\ ~tui.shifted => RowNode(tui) = Target(tui)
============================================================================
