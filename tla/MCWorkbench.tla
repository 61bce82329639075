---------------------------- MODULE MCWorkbench ----------------------------
(* Workbench with two Projects and four workloads, and the explorer in     *)
(* which the terminal UI shows what is in it, with two Workspaces and two  *)
(* of everything that can be in the first.  A behaviour is of one of the   *)
(* two, with the other at rest.                                            *)
EXTENDS Workbench, Explorer, TLC

CONSTANTS c1, c2, p1, p2, r1, r2, w1, w2, s1, s2, s3, s4, k1, k2,
          space1, space2

VARIABLE part  \* the part that this behaviour is of

MCHome == (r1 :> p1) @@ (w1 :> p1) @@ (r2 :> p2) @@ (w2 :> p2)

MCWorkloads ==
    {[kinds |-> {"StartWork", "RetryStartWork", "CreateSession",
                 "RemoveWorktree", "Edit"},
      projects |-> {p1}, requests |-> 3],
     [kinds |-> {"StartWork", "CreateWorktree", "RemoveWorktree"},
      projects |-> {p1, p2}, requests |-> 3],
     [kinds |-> {"AddProject", "CreateWorktree", "RemoveWorktree",
                 "CreateSession", "DeleteSession", "RemoveProject"},
      projects |-> {p1}, requests |-> 3],
     [kinds |-> {"CreateSession", "ResumeSession", "DeleteSession", "Announce"},
      projects |-> {p1}, requests |-> 4]}

MCTree ==
    (space1 :> Root) @@ (space2 :> Root) @@ (p1 :> space1) @@ (p2 :> space1)
    @@ (w1 :> p1) @@ (w2 :> p1) @@ (s1 :> w1) @@ (s2 :> w1)
MCDepth ==
    [n \in DOMAIN MCTree |-> CASE n \in {space1, space2} -> 0 [] n \in {p1, p2} -> 1
                                [] n \in {w1, w2} -> 2 [] OTHER -> 3]
MCPreorder == <<space1, p1, w1, s1, s2, w2, p2, space2>>

(* The explorer starts with all there is, or with all but one Worktree.    *)
BothInit ==
    /\ part \in {"workbench", "explorer"}
    /\ Init
    /\ part = "explorer" => offered = CHOOSE w \in Workloads : TRUE
    /\ ExplorerInit
    /\ IF part = "explorer" THEN daemon.open = space1 /\ daemon.nodes \in {Nodes, Nodes \ {w2}}
       ELSE daemon.nodes = {}

BothNext ==
    \/ part = "workbench" /\ Next /\ UNCHANGED <<part, explorerVars>>
    \/ part = "explorer" /\ ExplorerNext /\ UNCHANGED <<part, vars>>

BothSpec == BothInit /\ [][BothNext]_<<part, vars, explorerVars>> /\ Fairness
=============================================================================
