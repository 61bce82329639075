--------------------------- MODULE ChangesReview ---------------------------
(* The review of local changes: ReviewState with the request cycle of the  *)
(* desktop (poll_review, review_response) or of the terminal UI (poll).    *)
(* The Checkout changes on disk under it; one request is under way at a    *)
(* time, and what it answers is as old as the moment it was served at.     *)
EXTENDS Naturals, Sequences, FiniteSetsExt, SequencesExt

CONSTANTS
    Reviewers,   \* the clients: "desktop", "terminal"
    ReviewCheckouts,   \* 1 .. n; the first is selected at the start
    FileKeys,    \* naturals: the order of the file list
    MaxChoices,  \* what the user does in one behaviour
    MaxEdits,    \* changes of the files on disk
    MaxReviewFaults   \* requests that fail or find the bridge busy

ASSUME ReviewAssumption ==
    /\ Reviewers \subseteq {"desktop", "terminal"}
    /\ 1 \in ReviewCheckouts
    /\ 0 \notin ReviewCheckouts
    /\ FileKeys \subseteq Nat \ {0}
    /\ {MaxChoices, MaxEdits, MaxReviewFaults} \subseteq Nat

VARIABLES
    reviewer,  \* the client that this behaviour is of
    screen,    \* the selected Checkout, whether Changes is visible
    review,    \* ReviewState and the control of its requests
    answer,    \* the reply to the pending request, once it was served
    disk,      \* per Checkout: the changed files and how often they changed
    past       \* what the user asked for, what went wrong, and the counts

reviewVars == <<reviewer, screen, review, answer, disk, past>>

NoReview == [key |-> 0]
List == 0
Failures == {"error", "failure"}
NoKey == 0

FreshReview ==
    [checkout |-> 0, files |-> {}, listed |-> 0, selected |-> NoKey,
     file |-> NoReview, generation |-> 0, paused |-> FALSE, hidden |-> {},
     error |-> FALSE, pending |-> NoReview, sent |-> NoReview,
     queued |-> FALSE, load |-> FALSE, refresh |-> FALSE, discard |-> FALSE]

ReviewInit ==
    /\ reviewer \in Reviewers
    /\ screen = [checkout |-> 1, shown |-> FALSE]
    /\ review = FreshReview
    /\ answer = NoReview
    /\ disk = [c \in ReviewCheckouts |-> [files |-> FileKeys, version |-> 1]]
    /\ past = [renew |-> FALSE, chosen |-> FALSE, again |-> FALSE,
               choices |-> 0, edits |-> 0, faults |-> 0]

----------------------------------------------------------------------------
(* ReviewState.                                                            *)

Enter(r, c) ==
    IF r.checkout = c THEN r
    ELSE [FreshReview EXCEPT
            !.checkout = c, !.generation = r.generation + 1,
            !.pending = r.pending, !.sent = r.sent, !.queued = r.queued,
            !.load = r.load, !.refresh = r.refresh, !.discard = r.discard]

Shown(r) == r.files \ r.hidden
Visible(r) == SetToSortSeq(Shown(r), LAMBDA a, b : a < b)

Select(r, key) ==
    IF r.selected = key THEN r
    ELSE [r EXCEPT !.selected = key, !.file = NoReview, !.generation = @ + 1]

SelectAt(r, i) ==
    LET files == Visible(r)
    IN Select(r, IF Shown(r) = {} THEN NoKey
                 ELSE files[Min({i, Len(files)})])

(* A selection that is not listed any more moves to what took its place.   *)
ApplyList(r, list) ==
    LET before == {i \in DOMAIN Visible(r) : Visible(r)[i] = r.selected}
        listed == [r EXCEPT !.files = list.files, !.listed = list.version]
        kept == r.selected \in Shown(listed)
    IN IF list.checkout # r.checkout THEN r
       ELSE [IF kept THEN listed ELSE SelectAt(listed, Max(before \cup {1}))
               EXCEPT !.error = FALSE]

ApplyFile(r, file) ==
    IF file.checkout = r.checkout /\ file.key = r.selected
    THEN [r EXCEPT !.file = file, !.error = FALSE]
    ELSE r

(* A request goes out; `sent' is the daemon's end of it.                   *)
AskFor(r, c, key) ==
    LET request == [checkout |-> c, generation |-> r.generation, key |-> key]
    IN [r EXCEPT !.pending = request, !.sent = request]

Awaiting(r) == r.pending # NoReview

----------------------------------------------------------------------------
(* The desktop.  `busy' says that the bridge takes no request now.         *)

SendReview(r, key, busy) ==
    IF busy THEN [r EXCEPT !.error = TRUE] ELSE AskFor(r, r.checkout, key)

RefreshReview(r, busy) ==
    LET c == screen.checkout
        entered == Enter(IF r.checkout = c THEN r
                         ELSE [r EXCEPT !.discard = FALSE], c)
    IN IF Awaiting(entered) THEN [entered EXCEPT !.queued = TRUE]
       ELSE SendReview([entered EXCEPT !.queued = FALSE], List, busy)

LoadReviewFile(r, busy) ==
    IF Awaiting(r) THEN [r EXCEPT !.queued = TRUE]
    ELSE IF r.selected = NoKey THEN r
    ELSE SendReview(r, r.selected, busy)

(* The request itself failed.                                              *)
ReviewFailure(r, asked, busy) ==
    LET idle == [r EXCEPT !.pending = NoReview]
    IN IF /\ screen.checkout = asked.checkout
          /\ r.checkout = asked.checkout
          /\ r.generation = asked.generation
       THEN [idle EXCEPT !.error = TRUE]
       ELSE IF r.checkout = screen.checkout
            THEN LoadReviewFile([idle EXCEPT !.queued = FALSE], busy)
            ELSE RefreshReview([idle EXCEPT !.queued = FALSE], busy)

ReviewResponse(r, asked, response, busy) ==
    LET idle == [r EXCEPT !.pending = NoReview]
    IN IF r.discard
       THEN [idle EXCEPT !.discard = FALSE, !.queued = FALSE]
       ELSE IF {screen.checkout, r.checkout} # {asked.checkout}
       THEN RefreshReview(idle, busy)
       ELSE IF r.generation # asked.generation
       THEN LoadReviewFile([idle EXCEPT !.queued = FALSE], busy)
       ELSE CASE response.type = "list" ->
                   LoadReviewFile(ApplyList(idle, response), busy)
              [] response.type = "file" ->
                   LET applied == ApplyFile(idle, response)
                   IN IF r.queued THEN RefreshReview(applied, busy)
                      ELSE applied
              [] response.type = "error" -> [idle EXCEPT !.error = TRUE]

PollReview(r, busy) ==
    IF screen.shown /\ (screen.checkout # r.checkout \/ ~r.paused)
    THEN RefreshReview(r, busy) ELSE r

----------------------------------------------------------------------------
(* The terminal UI.                                                        *)

(* A reply that was taken from the channel.                                *)
Receive(r, asked, response) ==
    LET idle == [r EXCEPT !.pending = NoReview]
    IN IF {screen.checkout, r.checkout} = {asked.checkout}
            /\ r.generation = asked.generation
       THEN CASE response.type = "list" ->
                   [ApplyList(idle, response) EXCEPT !.load = TRUE]
              [] response.type = "file" -> ApplyFile(idle, response)
              [] OTHER -> [idle EXCEPT !.error = TRUE]
       ELSE [idle EXCEPT !.load = TRUE]

(* The next request, of a view that is visible: `due' says that the last   *)
(* refresh is two seconds old.                                             *)
NextRequest(r, due) ==
    IF ~screen.shown \/ Awaiting(r) THEN r
    ELSE IF r.load
    THEN LET loading == [r EXCEPT !.load = FALSE]
         IN IF r.selected = NoKey THEN loading
            ELSE AskFor(loading, screen.checkout, r.selected)
    ELSE IF r.refresh \/ (~r.paused /\ due)
    THEN AskFor([r EXCEPT !.refresh = FALSE], screen.checkout, List)
    ELSE r

Poll(r, due) ==
    LET entered == IF screen.shown /\ r.checkout # screen.checkout
                   THEN [Enter(r, screen.checkout) EXCEPT !.refresh = TRUE]
                   ELSE r
    IN IF answer = NoReview THEN NextRequest(entered, due)
       ELSE IF r.discard THEN [entered EXCEPT !.pending = NoReview,
                                              !.discard = FALSE]
       ELSE NextRequest(Receive(entered, r.pending, answer), due)

----------------------------------------------------------------------------
(* No request is under way and none will be made for what was asked; and   *)
(* none is owed that a later request would bring.                          *)
AtRest(r) == ~Awaiting(r) /\ ~r.load /\ ~r.refresh
ReviewSettled(r) == AtRest(r) /\ ~r.queued

(* The bookkeeping of a step of the program.                               *)
Remember(busy) ==
    past' = [past EXCEPT
               !.renew = @ /\ ~ReviewSettled(review'),
               !.chosen = @ /\ ~ReviewSettled(review'),
               !.again = @ /\ ~ReviewSettled(review'),
               !.faults = IF busy THEN @ + 1 ELSE @]

CanBeBusy(busy) == busy => past.faults < MaxReviewFaults

(* Tick, of the desktop; the event loop, of the terminal UI.               *)
PollStep ==
    /\ \/ /\ reviewer = "desktop"
          /\ \E busy \in BOOLEAN :
                /\ CanBeBusy(busy)
                /\ review' = PollReview(review, busy)
                /\ Remember(busy)
          /\ UNCHANGED answer
       \/ /\ reviewer = "terminal"
          /\ \E due \in BOOLEAN : review' = Poll(review, due)
          /\ answer' = NoReview
          /\ Remember(FALSE)
    /\ UNCHANGED <<reviewer, screen, disk>>

(* The daemon serves the request, from what is on disk now; or it answers  *)
(* with an error; or the request fails.                                    *)
ServeReview ==
    /\ review.sent # NoReview
    /\ review' = [review EXCEPT !.sent = NoReview]
    /\ LET asked == review.sent
           now == disk[asked.checkout]
       IN \/ /\ answer' =
                  [type |-> IF asked.key = List THEN "list" ELSE "file",
                   checkout |-> asked.checkout, key |-> asked.key,
                   files |-> now.files, version |-> now.version]
             /\ UNCHANGED past
          \/ /\ past.faults < MaxReviewFaults
             /\ \E type \in Failures :
                   answer' = [type |-> type, key |-> asked.key]
             /\ past' = [past EXCEPT !.faults = @ + 1]
    /\ UNCHANGED <<reviewer, screen, disk>>

(* The bridge hands the reply to the desktop; that of a full event channel *)
(* is lost.                                                                *)
TakeReview ==
    /\ reviewer = "desktop"
    /\ answer # NoReview
    /\ answer' = NoReview
    /\ \/ \E busy \in BOOLEAN :
             /\ CanBeBusy(busy)
             /\ review' = IF answer.type = "failure"
                          THEN ReviewFailure(review, review.pending, busy)
                          ELSE ReviewResponse(review, review.pending, answer,
                                              busy)
             /\ Remember(busy)
       \/ /\ past.faults < MaxReviewFaults
          /\ past' = [past EXCEPT !.faults = @ + 1]
          /\ UNCHANGED review
    /\ UNCHANGED <<reviewer, screen, disk>>

(* Somebody works in a Checkout.                                           *)
EditFiles(c) ==
    /\ past.edits < MaxEdits
    /\ \E files \in SUBSET FileKeys :
          disk' = [disk EXCEPT ![c] =
                      [files |-> files, version |-> @.version + 1]]
    /\ past' = [past EXCEPT !.edits = @ + 1]
    /\ UNCHANGED <<reviewer, screen, review, answer>>

----------------------------------------------------------------------------
(* The user.                                                               *)

Choice == past.choices < MaxChoices

(* What the user asked of a paused review: a refresh by hand, one by the   *)
(* way, a file, a file again.                                              *)
Note(asks) ==
    past' = [past EXCEPT
       !.choices = IF "show" \in asks THEN @ ELSE @ + 1,
       !.renew = (@ \/ {"refresh", "renew"} \cap asks # {}) /\ review'.paused,
       !.chosen = (@ \/ "file" \in asks) /\ review'.paused,
       !.again = (@ \/ "again" \in asks) /\ review'.paused]

(* The file that is selected is chosen again while a request is under way. *)
Again == review'.selected = review.selected /\ Awaiting(review)

(* The files of the list.  The terminal UI also opens the selected file    *)
(* when it is hidden, and moving in an empty list selects nothing.         *)
Choosable ==
    Shown(review) \cup
    (IF reviewer = "desktop" THEN {}
     ELSE {review.selected} \cup (IF Shown(review) = {} THEN {NoKey} ELSE {}))

(* A file is chosen in the list, or opened again.                          *)
ChooseFile(key) ==
    /\ Choice /\ screen.shown /\ screen.checkout = review.checkout
    /\ key \in Choosable
    /\ review' = LET chosen == Select(review, key)
                 IN IF reviewer = "desktop"
                    THEN LoadReviewFile([chosen EXCEPT !.discard = FALSE],
                                        FALSE)
                    ELSE [chosen EXCEPT !.load = TRUE]
    /\ Note(IF Again THEN {"file", "again"} ELSE {"file"})
    /\ UNCHANGED <<reviewer, screen, answer, disk>>

(* A filter hides files.  The desktop keeps a selection that is visible,   *)
(* the terminal UI selects the first file when the filter is finished.     *)
Filter(hidden) ==
    /\ Choice /\ screen.shown /\ screen.checkout = review.checkout
    /\ hidden # review.hidden
    /\ review' =
         LET filtered == [review EXCEPT !.hidden = hidden]
             moved == SelectAt(filtered, 1)
         IN IF reviewer = "terminal" THEN [moved EXCEPT !.load = TRUE]
            ELSE IF review.selected \in Shown(filtered) THEN filtered
            ELSE LoadReviewFile([moved EXCEPT !.discard = FALSE], FALSE)
    /\ Note(IF Again THEN {"file", "again"} ELSE {"file"})
    /\ UNCHANGED <<reviewer, screen, answer, disk>>

(* A group is folded or unfolded, which leaves the selection alone.        *)
Group(hidden) ==
    /\ Choice /\ screen.shown /\ screen.checkout = review.checkout
    /\ hidden # review.hidden
    /\ review' = [review EXCEPT !.hidden = hidden]
    /\ Note({})
    /\ UNCHANGED <<reviewer, screen, answer, disk>>

(* Mutant: a reply that is under way is shown after the pause.             *)
PauseOnly ==
    /\ Choice /\ screen.shown /\ screen.checkout = review.checkout
    /\ ~review.paused
    /\ review' = [review EXCEPT !.paused = TRUE, !.queued = FALSE,
                                !.load = FALSE]
    /\ Note({})
    /\ UNCHANGED <<reviewer, screen, answer, disk>>

Pause ==
    /\ Choice /\ screen.shown /\ screen.checkout = review.checkout
    /\ ~review.paused
    /\ review' = [review EXCEPT !.paused = TRUE, !.queued = FALSE,
                                !.load = FALSE, !.discard = Awaiting(review)]
    /\ Note(IF review.refresh THEN {"renew"} ELSE {})
    /\ UNCHANGED <<reviewer, screen, answer, disk>>

(* Refresh now, or Resume, which also ends the pause.                      *)
Refresh(resume) ==
    /\ Choice /\ screen.shown /\ screen.checkout = review.checkout
    /\ resume => review.paused
    /\ review' = LET asked == [review EXCEPT !.discard = FALSE,
                                             !.paused = @ /\ ~resume]
                 IN IF reviewer = "desktop" THEN RefreshReview(asked, FALSE)
                    ELSE [asked EXCEPT !.refresh = TRUE]
    /\ Note({"refresh"})
    /\ UNCHANGED <<reviewer, screen, answer, disk>>

(* The Changes tab is opened, which asks for a refresh, or left.           *)
ShowChanges ==
    /\ screen.shown => Choice
    /\ screen' = [screen EXCEPT !.shown = ~@]
    /\ review' = IF screen.shown THEN review
                 ELSE IF reviewer = "desktop" THEN RefreshReview(review, FALSE)
                 ELSE [review EXCEPT !.refresh = TRUE]
    /\ Note(IF screen.shown THEN {} ELSE {"renew", "show"})
    /\ UNCHANGED <<reviewer, answer, disk>>

SelectCheckout(c) ==
    /\ Choice
    /\ screen.checkout # c
    /\ screen' = [screen EXCEPT !.checkout = c]
    /\ past' = [past EXCEPT !.choices = @ + 1]
    /\ UNCHANGED <<reviewer, review, answer, disk>>

ReviewNext ==
    \/ PollStep \/ ServeReview \/ TakeReview
    \/ \E c \in ReviewCheckouts : EditFiles(c) \/ SelectCheckout(c)
    \/ \E key \in FileKeys \cup {NoKey} : ChooseFile(key)
    \/ \E hidden \in SUBSET FileKeys : Filter(hidden) \/ Group(hidden)
    \/ \E resume \in BOOLEAN : Refresh(resume)
    \/ Pause \/ ShowChanges

ReviewSpec == ReviewInit /\ [][ReviewNext]_reviewVars

----------------------------------------------------------------------------

(* Pause freezes the review, and replies already under way: the list stays *)
(* until the user asks for a refresh, the diff until a file is chosen.     *)
(* Left out: on the desktop a file that is chosen again while a request is *)
(* under way renews the list (changes.md; update_review, poll).            *)
PauseFreezes ==
    [][review.paused /\ review'.paused /\ review'.checkout = review.checkout =>
         \/ past.renew \/ past'.renew
         \/ reviewer = "desktop" /\ (past.again \/ past'.again)
         \/ /\ review'.files = review.files
            /\ review'.listed = review.listed
            /\ \/ past.chosen \/ past'.chosen
               \/ review'.file = review.file]_reviewVars
=============================================================================
