----------------------------- MODULE MCUpgrade -----------------------------
(* Upgrade with each kind of request once and two FinalizeUpdate at once;  *)
(* beside it the desktop's notifier with one Session in each of two        *)
(* Workspaces.  A behaviour is of one of the two, with the other at rest.  *)
EXTENDS Upgrade, DesktopNotifier, TLC

CONSTANTS f1, f2, s1, s2, space1, space2

VARIABLE part  \* the part that this behaviour is of

MCMutators == {"check", "download", "install"}
MCFinalizers == {f1, f2}
MCSpaceOf == (s1 :> space1) @@ (s2 :> space2)

BothInit ==
    /\ part \in {"upgrade", "notifier"}
    /\ Init /\ NotifierInit
    /\ part = "upgrade" => windows /\ thread.pc = "gone" /\ served.open = space1

BothNext ==
    \/ part = "upgrade" /\ Next /\ UNCHANGED <<part, notifierVars>>
    \/ part = "notifier" /\ NotifierNext /\ UNCHANGED <<part, uvars>>

BothSpec ==
    /\ BothInit /\ [][BothNext]_<<part, uvars, notifierVars>>
    /\ Fairness
============================================================================
