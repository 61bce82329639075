-------------------------- MODULE MCTerminalPaths --------------------------
(* The ends of an attachment on small queues: the daemon's, which is       *)
(* TerminalStream, the client's terminal, which is ClientTerminal, the     *)
(* desktop application that decides which terminal the user types into,    *)
(* which is Desktop, the way of what is typed, which is TerminalInput, and *)
(* the review of local changes beside it, which is ChangesReview.  A       *)
(* behaviour is one of one of the ends, with the others at rest.           *)
EXTENDS TerminalStream, Desktop, TerminalInput, ClientTerminal, ChangesReview

VARIABLE end  \* the end that this behaviour is of

allVars ==
    <<end, streamVars, clientVars, desktopVars, inputVars, reviewVars>>

(* Two Sessions, in one Checkout or each in its own.                       *)
TwoSessions == 1 .. 2
OneCheckout == <<"checkout", "checkout">>
OwnCheckouts == <<"first", "second">>

(* The application starts with the first Session selected and one tab or   *)
(* two.  An end at rest stays in an initial state.                         *)
PathsInit ==
    /\ end \in {"daemon", "application", "keyboard", "changes"} \cup Clients
    /\ StreamInit
    /\ ClientInit
    /\ client = IF end \in Clients THEN end ELSE "terminal"
    /\ DesktopInit
    /\ app.selected = 1
    /\ app.open \in {<<1>>, <<2, 1>>}
    /\ end # "application" => Len(app.open) = 2
    /\ InputInit
    /\ end # "keyboard" => application = "desktop"
    /\ ReviewInit
    /\ end # "changes" => reviewer = "desktop"

DaemonEnd ==
    /\ end = "daemon"
    /\ StreamNext
    /\ UNCHANGED <<end, clientVars, desktopVars, inputVars, reviewVars>>

ClientsEnd ==
    /\ end \in Clients
    /\ ClientNext
    /\ UNCHANGED <<end, streamVars, desktopVars, inputVars, reviewVars>>

ApplicationEnd ==
    /\ end = "application"
    /\ DesktopNext
    /\ UNCHANGED <<end, streamVars, clientVars, inputVars, reviewVars>>

KeyboardEnd ==
    /\ end = "keyboard"
    /\ InputNext
    /\ UNCHANGED <<end, streamVars, clientVars, desktopVars, reviewVars>>

ChangesEnd ==
    /\ end = "changes"
    /\ ReviewNext
    /\ UNCHANGED <<end, streamVars, clientVars, desktopVars, inputVars>>

PathsNext ==
    DaemonEnd \/ ClientsEnd \/ ApplicationEnd \/ KeyboardEnd \/ ChangesEnd

PathsSpec == PathsInit /\ [][PathsNext]_allVars

=============================================================================
