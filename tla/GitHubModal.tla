---------------------------- MODULE GitHubModal ----------------------------
(***************************************************************************)
(* Browsing GitHub in the terminal UI (github_modal.rs, lib.rs), and the   *)
(* form that starts work on an Issue.  There is a task for each purpose; a *)
(* new one of the same purpose aborts the old, whose result may be in the  *)
(* channel by then, or whose request the daemon carries out regardless.    *)
(* Results are told by the identity that the modal registered.             *)
(*                                                                         *)
(* Pages and items are those of GitHubBrowser.  The browser, the edited    *)
(* text and the marks of local work are left out.                          *)
(***************************************************************************)
EXTENDS GitHubBrowser

CONSTANT MaxRequests    \* bound: requests

ASSUME ModalAssumption == MaxRequests \in Nat

VARIABLES
    modal,    \* Mode::GitHub, or Nothing in another mode
    tasks,    \* GitHubTasks: the task of each purpose
    results,  \* the channel of GitHubAsyncResult
    ids,      \* next_request_id
    ended     \* the terminal UI gave up

modalVars == <<modal, tasks, results, ids, ended>>

Purposes == {"list", "detail", "work"}
NoTasks == [q \in Purposes |-> Nothing]

NewModal ==
    [kind |-> "issue", depth |-> "list", filters |-> NoFilter, cursor |-> 1,
     previous |-> <<>>, list |-> Loading(Idle), detail |-> Idle, selected |-> Nothing,
     active |-> [q \in Purposes |-> 0], form |-> "none", preparing |-> FALSE,
     refused |-> FALSE, recovery |-> "none"]

ModalInit ==
    /\ modal = Nothing
    /\ tasks = NoTasks
    /\ results = <<>>
    /\ ids = 0
    /\ ended = FALSE

(* queue_github_list and its like: register the identity, start the task,  *)
(* abort those that it replaces.                                           *)
Queue(s, purpose, request, aborted) ==
    /\ ids < MaxRequests
    /\ ids' = ids + 1
    /\ modal' = [s EXCEPT !.active[purpose] = ids + 1]
    /\ tasks' = [q \in Purposes |->
                    IF q = purpose THEN [id |-> ids + 1, request |-> request]
                    ELSE IF q \in aborted THEN Nothing ELSE tasks[q]]
    /\ UNCHANGED <<results, ended>>

QueueList(s, aborted) ==
    Queue(BeginList(s), "list", [op |-> "list", query |-> Query(s)], {"detail"} \cup aborted)
QueueDetail(s, item, page) ==
    Queue([s EXCEPT !.detail = Loading(@)], "detail",
          [op |-> "view", item |-> item, page |-> page], {})

Left == modal' = Nothing /\ UNCHANGED <<results, ids, ended>>

(* What forgets the Start Work that is under way.                          *)
WithoutWork(s) ==
    [s EXCEPT !.form = "none", !.preparing = FALSE, !.refused = FALSE,
              !.recovery = "none", !.active["work"] = 0]

----------------------------------------------------------------------------
(* The user, with the modal at some depth.                                 *)

At(depths) ==
    /\ ~ended
    /\ modal # Nothing /\ modal.depth \in depths

(* open_github, on a Worktree without a Work Source.                       *)
OpenGitHub ==
    /\ ~ended /\ modal = Nothing
    /\ QueueList(NewModal, Purposes)

(* On a Worktree with one, whose item is opened; the list is not asked     *)
(* for, and neither is the item if the repository is another by now.       *)
OpenWorkSource(item) ==
    LET opened == [NewModal EXCEPT !.kind = item.kind, !.depth = "detail",
                                   !.selected = item] IN
    /\ ~ended /\ modal = Nothing
    /\ \/ Queue([opened EXCEPT !.detail = Loading(@)], "detail",
                [op |-> "view", item |-> item, page |-> 1], Purposes)
       \/ /\ modal' = [opened EXCEPT !.detail = Loading(@)]
          /\ tasks' = NoTasks
          /\ UNCHANGED <<results, ids, ended>>

SwitchKind(k) ==
    /\ At({"list", "detail", "recovery"})
    /\ modal.kind # k /\ modal.recovery # "pending"
    /\ QueueList([NewModal EXCEPT !.kind = k, !.list = Idle], {})

RefreshList == At({"list"}) /\ modal.list.state # "loading" /\ QueueList(modal, {})
NextPage ==
    /\ At({"list"}) /\ modal.list.state # "loading"
    /\ HasNext(modal) /\ QueueList(Forward(modal), {})
PreviousPage ==
    /\ At({"list"}) /\ modal.list.state # "loading"
    /\ modal.previous # <<>> /\ QueueList(Backward(modal), {})

(* A filter may be applied while a list is loading.                        *)
ApplyFilter(f) ==
    /\ At({"list"})
    /\ QueueList([modal EXCEPT !.filters = f, !.cursor = 1, !.previous = <<>>,
                               !.detail = Idle, !.selected = Nothing], {})

OpenSelected ==
    /\ At({"list"}) /\ modal.list.state # "loading" /\ modal.list.value # Nothing
    /\ LET item == ItemOf(modal.list.value) IN
          QueueDetail([modal EXCEPT !.selected = item, !.depth = "detail"], item, 1)

RefreshDetail ==
    /\ At({"detail"}) /\ modal.detail.state # "loading" /\ modal.selected # Nothing
    /\ QueueDetail(modal, modal.selected, 1)

MoreComments ==
    /\ At({"detail"}) /\ modal.detail.state # "loading" /\ HasMoreComments(modal)
    /\ QueueDetail(modal, modal.detail.value.item, Last(modal.detail.value.comments) + 1)

(* selected_identity: in the list, the item under the cursor.              *)
Identity ==
    IF modal.depth # "list" THEN modal.selected
    ELSE IF modal.list.value = Nothing THEN Nothing ELSE ItemOf(modal.list.value)

(* An Issue that has a Worktree is left for it; the tasks go on.           *)
OpenWorktree ==
    /\ At({"list", "detail", "recovery"})
    /\ IF modal.depth = "recovery" THEN modal.recovery = "open"
       ELSE Identity # Nothing /\ Identity.kind = "issue"
    /\ Left
    /\ UNCHANGED tasks

PrepareWork(s, another) ==
    Queue([s EXCEPT !.refused = FALSE,
                    !.form = IF @ = "none" THEN @ ELSE "pending",
                    !.preparing = @ \/ s.form = "none"],
          "work", [op |-> "prepare", another |-> another], {})

StartWork(another) ==
    /\ At({"list", "detail"})
    /\ Identity # Nothing /\ Identity.kind = "issue"
    /\ PrepareWork([modal EXCEPT !.depth = "work", !.form = "none"], another)

(* The form, while nothing that it asked for is pending.                   *)
RetryPrepare ==
    /\ At({"work"})
    /\ modal.refused /\ modal.form = "none" /\ modal.selected # Nothing
    /\ PrepareWork(modal, TRUE)
RefreshBase ==
    /\ At({"work"}) /\ modal.form \in {"open", "moved"}
    /\ \E another \in BOOLEAN : PrepareWork(modal, another)
CycleBase ==
    /\ At({"work"}) /\ modal.form \in {"open", "moved"}
    /\ modal' = [modal EXCEPT !.form = "moved"]
    /\ UNCHANGED <<tasks, results, ids, ended>>

SubmitStartWork ==
    /\ ~ended /\ modal # Nothing /\ modal.depth = "work"
    /\ modal.form = "open"
    /\ Queue([modal EXCEPT !.form = "pending"], "work", [op |-> "start"], {})

RetrySession ==
    /\ ~ended /\ modal # Nothing /\ modal.depth = "recovery"
    /\ modal.recovery = "open"
    /\ Queue([modal EXCEPT !.recovery = "pending"], "work", [op |-> "retry"], {})

(* escape, by depth; refused while submitted work is pending.              *)
EscapeWork ==
    /\ At({"work", "recovery"})
    /\ modal.form # "pending" /\ modal.recovery # "pending"
    /\ modal' = [WithoutWork(modal) EXCEPT !.depth = "detail"]
    /\ UNCHANGED <<tasks, results, ids, ended>>

EscapeDetail ==
    /\ At({"detail"})
    /\ modal' = [WithoutWork(modal) EXCEPT !.depth = "list", !.detail = Idle,
                                           !.selected = Nothing, !.active["detail"] = 0]
    /\ UNCHANGED <<tasks, results, ids, ended>>

(* Escape in the list, and the settings from the list or a detail: all     *)
(* tasks are cancelled.                                                    *)
CloseGitHub == At({"list", "detail"}) /\ Left /\ tasks' = NoTasks

----------------------------------------------------------------------------
(* The tasks.  The daemon may refuse anything; Start Work may create the   *)
(* Worktree and fail to start its Session, and it is answered with a plain *)
(* error while the application is being replaced.                          *)

Outcomes(request) ==
    CASE request.op \in {"list", "view"} -> {"found", "browse", "failure"}
      [] request.op = "prepare" -> {"found", "failure"} \cup
                                   (IF request.another THEN {} ELSE {"existing"})
      [] request.op = "start" -> {"found", "partial", "failure", "moved", "error"}
      [] request.op = "retry" -> {"found", "failure", "error"}

TaskAnswers(purpose) ==
    /\ tasks[purpose] # Nothing
    /\ \E outcome \in Outcomes(tasks[purpose].request) :
          results' = Append(results, [purpose |-> purpose, is |-> outcome,
                                      id |-> tasks[purpose].id,
                                      request |-> tasks[purpose].request])
    /\ tasks' = [tasks EXCEPT ![purpose] = Nothing]
    /\ UNCHANGED <<modal, ids, ended>>

----------------------------------------------------------------------------
(* apply_github_result.                                                    *)

Result == Head(results)

(* Mutant: any result of the purpose is accepted.                          *)
AcceptsAny(s, result) == s # Nothing /\ s.active[result.purpose] # 0

(* accepts_list and its like.                                              *)
Accepts(s, result) == s # Nothing /\ s.active[result.purpose] = result.id

Taken(op) ==
    /\ ~ended
    /\ results # <<>> /\ Accepts(modal, Result) /\ Result.request.op = op
    /\ results' = Tail(results)
    /\ UNCHANGED <<tasks, ids>>

ResultDropped ==
    /\ ~ended
    /\ results # <<>> /\ ~Accepts(modal, Result)
    /\ results' = Tail(results)
    /\ UNCHANGED <<modal, tasks, ids, ended>>

(* set_configuration_error: of the depth, not of the request.              *)
ConfigurationError(s) ==
    IF s.depth = "list" THEN [s EXCEPT !.list = Idle, !.active["list"] = 0]
    ELSE [s EXCEPT !.detail = Idle, !.active["detail"] = 0]

(* fail.                                                                   *)
Fail(s, purpose) ==
    IF purpose = "list" THEN [s EXCEPT !.list = Failed, !.active["list"] = 0]
    ELSE [s EXCEPT !.detail = Failed, !.active["detail"] = 0]

ReceiveListResult ==
    /\ Taken("list")
    /\ modal' =
          CASE Result.is = "found" ->
                  [modal EXCEPT !.list = Ready(Result.request.query),
                                !.active["list"] = 0]
            [] Result.is = "browse" -> Fail(modal, "list")
            [] Result.is = "failure" -> ConfigurationError(modal)
    /\ UNCHANGED ended

(* receive_detail goes to the detail, wherever the user is.                *)
ReceiveDetailResult ==
    /\ Taken("view")
    /\ modal' =
          CASE Result.is = "found" ->
                  LET page == [item |-> Result.request.item, comments |-> <<Result.request.page>>]
                      shown == IF Result.request.page = 1 THEN page
                               ELSE Appended(modal.detail, page) IN
                  [modal EXCEPT !.detail = Ready(shown), !.selected = shown.item,
                                !.depth = "detail", !.active["detail"] = 0]
            [] Result.is = "browse" -> Fail(modal, "detail")
            [] Result.is = "failure" -> ConfigurationError(modal)
    /\ UNCHANGED ended

(* fail_start_work.                                                        *)
FailStartWork(s, moved) ==
    [s EXCEPT !.active["work"] = 0, !.preparing = FALSE,
              !.refused = @ \/ s.form = "none",
              !.form = IF @ = "none" THEN @ ELSE IF moved THEN "moved" ELSE "open"]

ReceivePreparation ==
    /\ Taken("prepare")
    /\ modal' =
          CASE Result.is = "found" ->
                  [modal EXCEPT !.depth = "work", !.preparing = FALSE, !.active["work"] = 0,
                                !.refused = FALSE, !.form = "open"]
            [] Result.is = "existing" -> Nothing
            [] Result.is = "failure" -> \* a base that could not be refreshed stays as it was
                  FailStartWork(modal, FALSE)
    /\ UNCHANGED ended

(* Started work leads to its Session; a Worktree without one to recovery.  *)
ReceiveStartWork ==
    /\ Taken("start")
    /\ modal' =
          CASE Result.is \in {"found", "error"} -> Nothing
            [] Result.is = "partial" ->
                  [WithoutWork(modal) EXCEPT !.depth = "recovery", !.recovery = "open"]
            [] OTHER -> FailStartWork(modal, Result.is = "moved")
    /\ ended' = (Result.is = "error")

ReceiveRetry ==
    /\ Taken("retry")
    /\ modal' = IF Result.is = "failure"
                THEN [modal EXCEPT !.recovery = IF @ = "none" THEN @ ELSE "open"] ELSE Nothing
    /\ ended' = (Result.is = "error")

ModalNext ==
    \/ OpenGitHub
    \/ \E k \in Kinds : OpenWorkSource([kind |-> k, number |-> 1]) \/ SwitchKind(k)
    \/ RefreshList \/ NextPage \/ PreviousPage
    \/ \E f \in Filters : ApplyFilter(f)
    \/ OpenSelected \/ RefreshDetail \/ MoreComments
    \/ OpenWorktree \/ CloseGitHub \/ EscapeWork \/ EscapeDetail
    \/ \E another \in BOOLEAN : StartWork(another)
    \/ RetryPrepare \/ RefreshBase \/ CycleBase \/ SubmitStartWork \/ RetrySession
    \/ \E purpose \in Purposes : TaskAnswers(purpose)
    \/ ResultDropped
    \/ ReceiveListResult \/ ReceiveDetailResult
    \/ ReceivePreparation \/ ReceiveStartWork \/ ReceiveRetry

ModalSpec == ModalInit /\ [][ModalNext]_modalVars

----------------------------------------------------------------------------
(* What the modal shows is the answer to what the user has chosen by now:  *)
(* the list is of its kind, filters and page, and the comments are those   *)
(* of the selected item, in order and without a gap, however late, and in  *)
(* whatever order, the results of replaced requests come.                  *)
ModalIsOfTheQuery ==
    modal # Nothing =>
       /\ modal.list.state = "ready" =>
             modal.list.value = Query(modal)
       /\ modal.detail.value # Nothing =>
             /\ modal.detail.value.item = modal.selected
             /\ InOrder(modal.detail.value.comments)
============================================================================
