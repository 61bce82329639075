--------------------------- MODULE GitHubBrowser ---------------------------
(***************************************************************************)
(* Browsing Issues and Pull Requests in the desktop (github_surface.rs,    *)
(* lib.rs).  Every list, detail and status is an answer that the daemon    *)
(* gets from the gh command, seconds later, and the user does not wait:    *)
(* the surface may be another one by then.  The desktop has one request at *)
(* a time, tells its answer by Project and kind, and defers a status that  *)
(* it wanted meanwhile.  GitHubModal is the same of the terminal UI.       *)
(*                                                                         *)
(* A page is the query that it answers.  Page n of a list has item n, and  *)
(* item n has CommentPages pages of comments.  The cache of the gateway    *)
(* answers the same queries sooner; the browser and the cursor in the list *)
(* are left out.                                                           *)
(***************************************************************************)
EXTENDS Integers, Sequences, SequencesExt

CONSTANTS
    Projects,
    Repositories,   \* what a Project can be associated with
    Filters,        \* of a list
    NoFilter,       \* the default
    Pages,          \* of a list
    CommentPages,   \* of an item
    Nothing,        \* no value
    MaxSteps        \* bound: what users do

ASSUME GitHubAssumption ==
    /\ NoFilter \in Filters
    /\ Nothing \notin Projects \cup Repositories \cup Filters
    /\ {Pages, CommentPages} \subseteq Nat \ {0}
    /\ MaxSteps \in Nat

Kinds == {"issue", "pull"}

(* GitHubLoad: what was there stays in sight while its successor loads.    *)
Idle == [state |-> "idle", value |-> Nothing]
Failed == [state |-> "failed", value |-> Nothing]
Loading(load) == [state |-> "loading", value |-> load.value]
Ready(value) == [state |-> "ready", value |-> value]

(* What a list shows and what leads to it, in both clients.                *)
Query(s) == [kind |-> s.kind, filters |-> s.filters, cursor |-> s.cursor]
BeginList(s) == [s EXCEPT !.list = Loading(@)]
ItemOf(page) == [kind |-> page.kind, number |-> page.cursor]

HasNext(s) == s.list.value # Nothing /\ s.list.value.cursor < Pages
Forward(s) ==
    [s EXCEPT !.previous = Append(@, s.cursor), !.cursor = s.list.value.cursor + 1]
Backward(s) == [s EXCEPT !.previous = Front(@), !.cursor = Last(s.previous)]

HasMoreComments(s) ==
    s.detail.value # Nothing /\ Last(s.detail.value.comments) < CommentPages

(* append_comments: to the comments of the same item, if those are there.  *)
Appended(detail, page) ==
    IF detail.value # Nothing /\ detail.value.item = page.item
    THEN [page EXCEPT !.comments = detail.value.comments \o @]
    ELSE page

(* The next cursor is the last page's: a page is one number.               *)
InOrder(comments) == comments = [n \in 1..Len(comments) |-> n]

----------------------------------------------------------------------------
(* The desktop, and the daemon as it sees it.                              *)

VARIABLES
    repository,  \* the daemon's association of each Project
    news,        \* per Project, events of a change on their way
    here,        \* selected_project_id
    onGitHub,    \* content_surface
    status,      \* github_status: of which Project, and what it said
    surface,     \* github_surface
    busy,        \* the bridge takes no request
    asked,       \* github_request, and the deferred status
    done         \* bound: what users did so far

surfaceVars ==
    <<repository, news, here, onGitHub, status, surface, busy, asked, done>>

(* `mixed' and `stray' are histories: the list, or the detail, answers a   *)
(* request that the surface had been reset under.                          *)
Blank(p, k) ==
    [project |-> p, kind |-> k, filters |-> NoFilter, cursor |-> 1,
     previous |-> <<>>, list |-> Idle, detail |-> Idle, selected |-> Nothing,
     mixed |-> FALSE, stray |-> FALSE]

Opened(p, k) == BeginList(Blank(p, k))

(* select: the item, and its detail from the start.                        *)
Viewing(s, item) ==
    [s EXCEPT !.selected = item, !.detail = Loading(Idle), !.stray = FALSE]

ListRequest(s) == [op |-> "list", project |-> s.project, query |-> Query(s)]
ViewRequest(s, item, page) ==
    [op |-> "view", project |-> s.project, item |-> item, page |-> page]
StatusRequest(p) == [op |-> "status", project |-> p]

Asked(request) == [request |-> request, answer |-> Nothing, overtaken |-> FALSE]

SurfaceInit ==
    /\ repository \in [Projects -> Repositories]
    /\ news = [p \in Projects |-> 0]
    /\ here \in Projects
    /\ onGitHub = FALSE
    /\ status = Nothing
    /\ surface = Blank(Nothing, "issue")
    /\ busy = FALSE
    /\ asked = [slot |-> Asked(StatusRequest(here)), deferred |-> Nothing]
    /\ done = 0

(* send_github_request and send_github_browse_request: dropped while one   *)
(* is pending, and when the bridge is busy.                                *)
Sent(a, request) ==
    IF a.slot # Nothing \/ busy THEN a ELSE [a EXCEPT !.slot = Asked(request)]

(* refresh_github_status, of the Project that is selected by then.         *)
Refreshed(a, p) ==
    IF a.slot # Nothing THEN [a EXCEPT !.deferred = p]
    ELSE Sent([a EXCEPT !.deferred = Nothing], StatusRequest(p))

(* finish_github_request: the deferred status, if it is still wanted.      *)
Finished(a, p) ==
    LET free == [a EXCEPT !.slot = Nothing, !.deferred = Nothing] IN
    IF a.deferred = p THEN Refreshed(free, p) ELSE free

(* The surface is reset, or the Project is another, under the request.     *)
Overtaken(a) == IF a.slot = Nothing THEN a ELSE [a EXCEPT !.slot.overtaken = TRUE]

(* has_github_browsing_target: an association says whose it is.            *)
HasTarget(p) == status # Nothing /\ status.project = p

Doing == done < MaxSteps /\ done' = done + 1

BridgeFills ==
    /\ Doing
    /\ ~busy /\ busy' = TRUE
    /\ UNCHANGED <<repository, news, here, onGitHub, status, surface, asked>>

BridgeDrains ==
    /\ busy /\ busy' = FALSE
    /\ UNCHANGED <<repository, news, here, onGitHub, status, surface, asked, done>>

SelectProject(p) ==
    /\ Doing
    /\ p # here
    /\ here' = p
    /\ status' = Nothing
    /\ surface' = IF onGitHub THEN Opened(p, surface.kind) ELSE surface
    /\ asked' = Refreshed(IF onGitHub THEN Overtaken(asked) ELSE asked, p)
    /\ UNCHANGED <<repository, news, onGitHub, busy>>

(* select_worktree and select_session_context take the Project along, and  *)
(* nothing of GitHub.                                                      *)
SelectWorktreeOf(p) ==
    /\ Doing
    /\ p # here
    /\ here' = p
    /\ asked' = IF asked.slot # Nothing /\ asked.slot.request.op = "status"
                THEN Overtaken(asked) ELSE asked
    /\ UNCHANGED <<repository, news, onGitHub, status, surface, busy>>

(* open_github_surface.                                                    *)
OpenTab(k) ==
    /\ Doing
    /\ onGitHub' = TRUE
    /\ surface' = Opened(here, k)
    /\ IF HasTarget(here)
       THEN /\ asked' = Sent(Overtaken(asked), ListRequest(Opened(here, k)))
            /\ UNCHANGED status
       ELSE /\ status' = Nothing
            /\ asked' = Refreshed(Overtaken(asked), here)
    /\ UNCHANGED <<repository, news, here, busy>>

(* open_work_source_issue, of a Worktree of Project p: the issue is looked  *)
(* at, the list behind it loads and nobody asks for it.                    *)
OpenWorkSourceIssue(p, item) ==
    /\ Doing
    /\ HasTarget(p)
    /\ here' = p
    /\ onGitHub' = TRUE
    /\ surface' = Viewing(Opened(p, item.kind), item)
    /\ asked' = Sent(Overtaken(asked), ViewRequest(surface', item, 1))
    /\ UNCHANGED <<repository, news, status, busy>>

LeaveGitHub ==
    /\ Doing
    /\ onGitHub
    /\ onGitHub' = FALSE
    /\ UNCHANGED <<repository, news, here, status, surface, busy, asked>>

(* What the user does with the surface; each of these is refused while a   *)
(* request is pending.                                                     *)
Browse(next, request) ==
    /\ Doing
    /\ onGitHub /\ asked.slot = Nothing /\ surface.project # Nothing
    /\ surface' = next
    /\ asked' = Sent(asked, request)
    /\ UNCHANGED <<repository, news, here, onGitHub, status, busy>>

BrowseList(s) == Browse([BeginList(s) EXCEPT !.mixed = FALSE], ListRequest(s))

ApplyGitHubFilters(f) ==
    BrowseList([surface EXCEPT !.filters = f, !.cursor = 1, !.previous = <<>>,
                               !.selected = Nothing, !.detail = Idle,
                               !.stray = FALSE])
RefreshGitHubItems == BrowseList(surface)
NextGitHubPage == HasNext(surface) /\ BrowseList(Forward(surface))
PreviousGitHubPage == surface.previous # <<>> /\ BrowseList(Backward(surface))

(* For select_github_item and refresh_github_detail.                       *)
View(item) ==
    Browse(Viewing(surface, item), ViewRequest(surface, item, 1))

(* Items of a repository that is not the status's are not opened.          *)
SelectGitHubItem ==
    /\ surface.list.value # Nothing /\ surface.selected = Nothing
    /\ surface.list.value.kind = surface.kind
    /\ HasTarget(surface.project) /\ here = surface.project
    /\ status.repository = surface.list.value.repository
    /\ View(ItemOf(surface.list.value))

RefreshGitHubDetail ==
    /\ surface.selected # Nothing /\ surface.selected.kind = surface.kind
    /\ View(surface.selected)

LoadMoreGitHubComments ==
    /\ surface.selected # Nothing /\ HasMoreComments(surface)
    /\ Browse([surface EXCEPT !.detail = Loading(@)],
              ViewRequest(surface, surface.selected,
                          Last(surface.detail.value.comments) + 1))

(* Possible at any time.                                                   *)
BackToList ==
    /\ Doing
    /\ onGitHub /\ surface.selected # Nothing
    /\ surface' = [surface EXCEPT !.selected = Nothing, !.detail = Idle,
                                  !.stray = FALSE]
    /\ asked' = Overtaken(asked)
    /\ UNCHANGED <<repository, news, here, onGitHub, status, busy>>

(* The button, or the settings.                                            *)
AskStatus ==
    /\ Doing
    /\ asked' = Refreshed(asked, here)
    /\ UNCHANGED <<repository, news, here, onGitHub, status, surface, busy>>

Associate(r) ==
    /\ Doing
    /\ asked.slot = Nothing
    /\ asked' = Sent(asked, [op |-> "associate", project |-> here, repository |-> r])
    /\ UNCHANGED <<repository, news, here, onGitHub, status, surface, busy>>

(* The browser and Start Work use the slot as well.                        *)
OtherRequest ==
    /\ Doing
    /\ onGitHub /\ asked.slot = Nothing /\ surface.detail.value # Nothing
    /\ asked' = Sent(asked, [op |-> "other", project |-> surface.project])
    /\ UNCHANGED <<repository, news, here, onGitHub, status, surface, busy>>

----------------------------------------------------------------------------
(* The daemon.  Any request may be refused by GitHub or by the daemon; a   *)
(* change of an association that has Work Sources asks to be confirmed     *)
(* first, and then changes nothing either.                                 *)

SetAssociation(p, r) ==
    /\ repository' = [repository EXCEPT ![p] = r]
    /\ news' = [news EXCEPT ![p] = @ + 1]

Found(request) ==
    CASE request.op = "list" ->
                  [project |-> request.project, repository |-> repository[request.project],
                   kind |-> request.query.kind, filters |-> request.query.filters,
                   cursor |-> request.query.cursor]
      [] request.op = "view" -> [item |-> request.item, comments |-> <<request.page>>]
      [] request.op = "associate" -> request.repository
      [] OTHER -> repository[request.project]

DaemonAnswers ==
    /\ asked.slot # Nothing /\ asked.slot.answer = Nothing
    /\ \/ /\ asked' = [asked EXCEPT !.slot.answer =
                          [is |-> "found", found |-> Found(asked.slot.request)]]
          /\ IF asked.slot.request.op = "associate"
             THEN SetAssociation(asked.slot.request.project, asked.slot.request.repository)
             ELSE UNCHANGED <<repository, news>>
       \/ /\ \E failure \in {"browse", "failure"} :
                asked' = [asked EXCEPT !.slot.answer = [is |-> failure]]
          /\ UNCHANGED <<repository, news>>
    /\ UNCHANGED <<here, onGitHub, status, surface, busy, done>>

OtherClientAssociates(p, r) ==
    /\ Doing
    /\ SetAssociation(p, r)
    /\ UNCHANGED <<here, onGitHub, status, surface, busy, asked>>

(* DaemonEvent::GitHubAssociationUpdated.                                  *)
AssociationNews(p) ==
    /\ news[p] > 0
    /\ news' = [news EXCEPT ![p] = @ - 1]
    /\ asked' = IF here = p THEN Refreshed(asked, p) ELSE asked
    /\ UNCHANGED <<repository, here, onGitHub, status, surface, busy, done>>

----------------------------------------------------------------------------
(* handle_response.                                                        *)

Answered(op) ==
    /\ asked.slot # Nothing /\ asked.slot.answer # Nothing
    /\ asked.slot.request.op = op
    /\ UNCHANGED <<repository, news, here, onGitHub, busy, done>>

Answer == asked.slot.answer
Requested == asked.slot.request
Came == Answer.is = "found" /\ Requested.project = here

(* open, and the query of a list, if nothing is pending by now.            *)
Reopen(a) ==
    /\ surface' = Opened(here, surface.kind)
    /\ asked' = Sent(Overtaken(a), ListRequest(Opened(here, surface.kind)))

ReceiveStatus ==
    /\ Answered("status")
    /\ IF Came
       THEN LET a == Finished(asked, here) IN
            /\ status' = [project |-> here, repository |-> Answer.found]
            /\ IF onGitHub /\ surface.project = here /\ surface.list.value = Nothing
               THEN Reopen(a)
               ELSE asked' = a /\ UNCHANGED surface
       ELSE /\ asked' = Finished(asked, here)
            /\ UNCHANGED <<status, surface>>

ReceiveAssociation ==
    /\ Answered("associate")
    /\ LET a == Finished(asked, here) IN
       IF Came
       THEN /\ status' = IF status = Nothing THEN Nothing
                         ELSE [project |-> here, repository |-> Answer.found]
            /\ LET b == IF status = Nothing THEN Refreshed(a, here) ELSE a IN
                  IF onGitHub THEN Reopen(b) ELSE asked' = b /\ UNCHANGED surface
       ELSE asked' = a /\ UNCHANGED <<status, surface>>

(* Mutant: the kind of the list is not compared.                           *)
ReceiveListOfProject ==
    /\ Answered("list")
    /\ asked' = Finished(asked, here)
    /\ surface' =
          IF Requested.project = here /\ surface.project = here /\ Answer.is = "found"
          THEN [surface EXCEPT !.list = Ready(Answer.found), !.mixed = asked.slot.overtaken]
          ELSE surface
    /\ UNCHANGED status

(* A list that fails for GitHub's reasons says so; one that fails for the  *)
(* daemon's leaves the surface loading.                                    *)
ReceiveList ==
    /\ Answered("list")
    /\ asked' = Finished(asked, here)
    /\ surface' =
          IF ~(/\ Requested.project = here /\ surface.project = here
               /\ surface.kind = Requested.query.kind) THEN surface
          ELSE CASE
               Answer.is = "found" -> [surface EXCEPT !.list = Ready(Answer.found),
                                                      !.mixed = asked.slot.overtaken]
            [] Answer.is = "browse" -> [surface EXCEPT !.list = Failed]
            [] OTHER -> surface
    /\ UNCHANGED status

(* A detail is taken whether or not the item is still selected.            *)
ReceiveDetail ==
    /\ Answered("view")
    /\ asked' = Finished(asked, here)
    /\ surface' =
          IF ~(Requested.project = here /\ surface.project = here) THEN surface
          ELSE CASE
               Answer.is = "found" ->
                  LET shown == IF Requested.page = 1 THEN Answer.found
                               ELSE Appended(surface.detail, Answer.found) IN
                  [surface EXCEPT !.selected = shown.item, !.detail = Ready(shown),
                                  !.stray = asked.slot.overtaken \/ (@ /\ Requested.page # 1)]
            [] Answer.is = "browse" /\ surface.selected = Requested.item ->
                  [surface EXCEPT !.detail = Failed]
            [] OTHER -> surface
    /\ UNCHANGED status

ReceiveOther ==
    /\ Answered("other")
    /\ asked' = Finished(asked, here)
    /\ UNCHANGED <<status, surface>>

SurfaceNext ==
    \/ BridgeFills \/ BridgeDrains
    \/ \E p \in Projects : SelectProject(p) \/ SelectWorktreeOf(p) \/ AssociationNews(p)
    \/ \E k \in Kinds : OpenTab(k)
    \/ \E p \in Projects, n \in 1..Pages :
          OpenWorkSourceIssue(p, [kind |-> "issue", number |-> n])
    \/ LeaveGitHub
    \/ \E f \in Filters : ApplyGitHubFilters(f)
    \/ RefreshGitHubItems \/ NextGitHubPage \/ PreviousGitHubPage
    \/ SelectGitHubItem \/ RefreshGitHubDetail \/ LoadMoreGitHubComments \/ BackToList
    \/ AskStatus
    \/ \E r \in Repositories : Associate(r)
    \/ OtherRequest
    \/ DaemonAnswers
    \/ \E p \in Projects, r \in Repositories : OtherClientAssociates(p, r)
    \/ ReceiveStatus \/ ReceiveAssociation \/ ReceiveList \/ ReceiveDetail \/ ReceiveOther

SurfaceSpec == SurfaceInit /\ [][SurfaceNext]_surfaceVars

(* The list in the desktop's surface is of its Project and kind, and the   *)
(* answer to the query that the surface stands for, its filters and page   *)
(* included; the comments of an item are its first pages, in order and     *)
(* without a gap, however late the answers come.  A surface that was reset *)
(* to the same kind, or an item that was left, while the request was       *)
(* pending may have the page, or the comments, of before.                  *)
SurfaceIsOfTheQuery ==
    /\ surface.list.value # Nothing =>
          /\ surface.list.value.project = surface.project
          /\ surface.list.value.kind = surface.kind
    /\ surface.list.state = "ready" /\ ~surface.mixed =>
          \A field \in {"kind", "filters", "cursor"} :
             surface.list.value[field] = surface[field]
    /\ surface.detail.value # Nothing /\ ~surface.stray =>
          /\ surface.detail.value.item = surface.selected
          /\ InOrder(surface.detail.value.comments)
============================================================================
