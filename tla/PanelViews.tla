----------------------------- MODULE PanelViews -----------------------------
(***************************************************************************)
(* One view of the panel and the server behind it: what it asks, what it   *)
(* shows, and what it does when an answer is late, a write is not          *)
(* confirmed, or the connection, the user's selection or the controls      *)
(* change while a request is under way.  The server's data is a revision   *)
(* that every change advances and that a write must name.                  *)
(*                                                                         *)
(* A request that the view gives up is aborted, or its answer fails the    *)
(* comparison of epochs; either way it has no more effect on the view, so  *)
(* it is dropped here at once.  A write given up may still be executed.    *)
(***************************************************************************)
EXTENDS ViewCatalogue, Naturals

CONSTANTS
  None,        \* no request, or nothing shown
  Question,    \* the choices of the controls
  MaxOutside   \* bound on what happens outside the view

ASSUME ViewsAssumption ==
  /\ MaxOutside \in Nat
  /\ None \notin Question

VARIABLES
  view,        \* which view this is
  up,          \* the connection is open
  hidden,      \* the browser does not show the page
  key,         \* counts the sessions (instances, selections)
  rev,         \* the server's revision
  question,    \* what the controls ask
  read,        \* the read under way
  again,       \* _reloadQueued
  pending,     \* a write is prepared and reviewed
  write,       \* the write under way
  command,     \* a command under way; "free" when the view is no longer busy
  orphans,     \* the revisions named by writes given up but not yet executed
  shown,       \* the answer shown
  uncertain,   \* a reload is wanted before the next write
  blind,       \* a write timed out or broke off and nothing was read since
  outside      \* what happened outside so far

vars == <<view, up, hidden, key, rev, question, read, again, pending, write,
          command, orphans, shown, uncertain, blind, outside>>
-----------------------------------------------------------------------------
Revisions == 0..MaxOutside
Keys == 0..MaxOutside

Reads == [question : Question, key : Keys, front : BOOLEAN,
          answered : BOOLEAN, rev : Revisions]
Writes == [base : Revisions, state : {"sent", "done", "refused"}]
Shown == [question : Question, key : Keys, rev : Revisions]

(* Nothing under way, and nothing shown, differ from every request, every   *)
(* answer, and every answer as ReadView sees it.                            *)
ASSUME NoneAssumption ==
  None \notin [question : Question, key : Nat, front : BOOLEAN,
               answered : BOOLEAN, rev : Nat]
         \cup [base : Nat, state : {"sent", "done", "refused"}]
         \cup [question : Question, key : Nat, rev : Nat]
         \cup [session : Nat, rev : Nat]

TypeOK ==
  /\ view \in Views
  /\ up \in BOOLEAN
  /\ hidden \in BOOLEAN
  /\ key \in Keys
  /\ rev \in Revisions
  /\ question \in Question
  /\ read \in Reads \cup {None}
  /\ again \in BOOLEAN
  /\ pending \in BOOLEAN
  /\ write \in Writes \cup {None}
  /\ command \in {"none", "busy", "free"}
  /\ orphans \subseteq Revisions
  /\ shown \in Shown \cup {None}
  /\ uncertain \in BOOLEAN
  /\ blind \in BOOLEAN
  /\ outside \in 0..MaxOutside

(* Background reads do not set _busy.                                       *)
Busy == (read # None /\ read.front) \/ write # None \/ command = "busy"

Outside ==
  /\ outside < MaxOutside
  /\ outside' = outside + 1
-----------------------------------------------------------------------------
(* A request in place of the one under way, with kept shown meanwhile.      *)
(* Without a connection it fails at once.                                   *)
Request(kept, front) ==
  IF up'
  THEN /\ read' = [question |-> question', key |-> key', front |-> front,
                   answered |-> FALSE, rev |-> 0]
       /\ shown' = IF view.blank THEN None ELSE kept
  ELSE /\ read' = None
       /\ shown' = IF ~view.quiet /\ (view.blank \/ view.drop = "always")
                   THEN None ELSE kept

(* The view forgets its data and requests.                                  *)
Reset ==
  /\ read' = None
  /\ shown' = None

(* The write under way, if any, is left to the server.                      *)
LeaveWrite ==
  /\ write' = None
  /\ orphans' = orphans \cup
       IF write # None /\ write.state = "sent" THEN {write.base} ELSE {}

AbandonWrite ==
  /\ LeaveWrite
  /\ blind' = (blind \/ write # None)

NoWrite == UNCHANGED <<write, orphans, blind>>

Init ==
  /\ view \in Views
  /\ up = TRUE
  /\ hidden = FALSE
  /\ key = 0
  /\ rev = 0
  /\ question \in Question
  /\ read = IF view.attach
            THEN [question |-> question, key |-> 0,
                  front |-> view.poll # "background",
                  answered |-> FALSE, rev |-> 0]
            ELSE None
  /\ again = FALSE
  /\ pending = FALSE
  /\ write = None
  /\ command = "none"
  /\ orphans = {}
  /\ shown = None
  /\ uncertain = FALSE
  /\ blind = FALSE
  /\ outside = 0
-----------------------------------------------------------------------------
(* The view loads; a refresh gives up the review, another page keeps it.    *)
Load ==
  /\ UNCHANGED <<up, hidden, key, question, command, uncertain>>
  /\ pending' \in {pending, FALSE}
  /\ NoWrite
  /\ \/ /\ ~Busy \/ (view.guard = "supersede" /\ view.askBusy)
        /\ Request(shown, TRUE)
        /\ UNCHANGED again
     \/ /\ Busy
        /\ view.guard = "queue"
        /\ again' = TRUE
        /\ UNCHANGED <<read, shown>>

(* The user presses refresh or turns the page.                              *)
Refresh ==
  /\ Outside
  /\ Load
  /\ UNCHANGED <<view, rev>>

(* Mutant of Ask: a choice that clears the view leaves its request.         *)
AskKeepsRequest(q) ==
  /\ Outside
  /\ ~Busy \/ view.askBusy
  /\ ~pending
  /\ question' = q
  /\ again' = FALSE
  /\ UNCHANGED <<view, up, hidden, key, rev, pending, command, uncertain>>
  /\ NoWrite
  /\ \/ /\ "clear" \in view.ask
        /\ shown' = None
        /\ UNCHANGED read
     \/ /\ view.ask \cap {"load", "blank"} # {}
        /\ ~Busy \/ view.guard # "busy"
        /\ Request(IF "load" \in view.ask THEN shown ELSE None, TRUE)

(* The user chooses something, or the same again.  A load that the view     *)
(* ignores while it is busy leaves the old question under way.              *)
Ask(q) ==
  /\ Outside
  /\ ~Busy \/ view.askBusy
  /\ ~pending
  /\ question' = q
  /\ again' = FALSE
  /\ UNCHANGED <<view, up, hidden, key, rev, pending, command, uncertain>>
  /\ NoWrite
  /\ \/ /\ "clear" \in view.ask
        /\ Reset
     \/ /\ view.ask \cap {"load", "blank"} # {}
        /\ ~Busy \/ view.guard # "busy"
        /\ Request(IF "load" \in view.ask THEN shown ELSE None, TRUE)
     \/ /\ view.ask \cap {"load", "blank"} # {}
        /\ Busy
        /\ view.guard = "busy"
        /\ UNCHANGED <<read, shown>>
     \/ /\ "type" \in view.ask
        /\ UNCHANGED <<read, shown>>

(* Mutant of Poll: only data on the screen is polled again.                 *)
PollWhenShown ==
  /\ view.poll = "timer"
  /\ shown # None
  /\ ~Busy
  /\ ~uncertain
  /\ ~pending
  /\ ~(view.visible /\ hidden)
  /\ Load
  /\ UNCHANGED <<view, rev, outside>>

(* The view's timer, which is set again when it may not load.               *)
Poll ==
  /\ view.poll = "timer"
  /\ ~Busy
  /\ ~uncertain
  /\ ~pending
  /\ ~(view.visible /\ hidden)
  /\ Load
  /\ UNCHANGED <<view, rev, outside>>

(* The timer of a view that only polls while jobs run.                      *)
PollActive ==
  /\ view.poll = "active"
  /\ shown # None
  /\ ~Busy
  /\ Load
  /\ UNCHANGED <<view, rev, outside>>

(* Home Assistant assigns a new hass on every change of any entity.         *)
HassUpdate ==
  /\ view.poll \in {"hass", "background"}
  /\ up
  /\ ~Busy
  /\ UNCHANGED <<view, up, hidden, key, rev, question, again, pending, command,
                 uncertain, outside>>
  /\ Request(shown, view.poll = "hass")
  /\ NoWrite

(* The user prepares a write, and gives it up.                              *)
Prepare ==
  /\ Outside
  /\ view.review
  /\ ~Busy
  /\ ~uncertain
  /\ pending' = TRUE
  /\ UNCHANGED <<view, up, hidden, key, rev, question, read, again, write,
                 command, orphans, shown, uncertain, blind>>

CloseReview ==
  /\ pending
  /\ ~Busy
  /\ pending' = FALSE
  /\ UNCHANGED <<view, up, hidden, key, rev, question, read, again, write,
                 command, orphans, shown, uncertain, blind, outside>>

(* A write names the revision shown, or an earlier one if its form was      *)
(* opened earlier, and waits for its answer.                                *)
Write(base) ==
  /\ Outside
  /\ view.write # "none"
  /\ ~Busy
  /\ ~uncertain
  /\ view.review => pending
  /\ view.needs => shown # None
  /\ base <= IF view.needs THEN shown.rev ELSE rev
  /\ up
  /\ write' = [base |-> base, state |-> "sent"]
  /\ UNCHANGED <<view, up, hidden, key, rev, question, read, again, pending,
                 command, orphans, shown, uncertain, blind>>

(* A command asks the server for work; what that changes is OtherChange.    *)
Retry ==
  /\ Outside
  /\ view.command
  /\ command = "none"
  /\ ~Busy
  /\ shown # None
  /\ up
  /\ command' = "busy"
  /\ UNCHANGED <<view, up, hidden, key, rev, question, read, again, pending,
                 write, orphans, shown, uncertain, blind>>
-----------------------------------------------------------------------------
ServerReads ==
  /\ read # None
  /\ ~read.answered
  /\ read' = [read EXCEPT !.answered = TRUE, !.rev = rev]
  /\ UNCHANGED <<view, up, hidden, key, rev, question, again, pending, write,
                 command, orphans, shown, uncertain, blind, outside>>

ServerWrites ==
  /\ write # None
  /\ write.state = "sent"
  /\ \/ /\ write.base = rev
        /\ rev' = rev + 1
        /\ write' = [write EXCEPT !.state = "done"]
     \/ /\ write.base # rev
        /\ write' = [write EXCEPT !.state = "refused"]
        /\ UNCHANGED rev
  /\ UNCHANGED <<view, up, hidden, key, question, read, again, pending,
                 command, orphans, shown, uncertain, blind, outside>>

(* Mutant of ServerLate: executed whatever revision it names, and replayed. *)
ServerReplays(base) ==
  /\ base \in orphans
  /\ rev' = rev + 1
  /\ UNCHANGED <<view, up, hidden, key, question, read, again, pending, write,
                 command, orphans, shown, uncertain, blind, outside>>

(* A write nobody waits for is executed late, or refused.                   *)
ServerLate(base) ==
  /\ base \in orphans
  /\ orphans' = orphans \ {base}
  /\ rev' = IF base = rev THEN rev + 1 ELSE rev
  /\ UNCHANGED <<view, up, hidden, key, question, read, again, pending, write,
                 command, shown, uncertain, blind, outside>>

(* Another operator, or work the server was asked for.                      *)
OtherChange ==
  /\ Outside
  /\ rev' = rev + 1
  /\ UNCHANGED <<view, up, hidden, key, question, read, again, pending, write,
                 command, orphans, shown, uncertain, blind>>
-----------------------------------------------------------------------------
(* What follows a read: the queued load, or nothing.  A read that ends      *)
(* clears _busy, also when a command set it.                                *)
Follow(now) ==
  /\ again' = FALSE
  /\ command' = IF command = "busy" THEN "free" ELSE command
  /\ IF again
     THEN Request(now, TRUE)
     ELSE /\ read' = None
          /\ shown' = now

ReadAnswered ==
  /\ read # None
  /\ read.answered
  /\ UNCHANGED <<view, up, hidden, key, rev, question, pending, write, orphans,
                 outside>>
  /\ Follow([question |-> read.question, key |-> read.key, rev |-> read.rev])
  /\ uncertain' = FALSE
  /\ blind' = FALSE

(* What may be left of the data when the server reports an error.           *)
Remains ==
  IF view.drop = "never" THEN {shown}
  ELSE IF view.drop = "always" THEN {None}
  ELSE {shown, None}

(* The server reports an error, or the time is up.                          *)
ReadFailed ==
  /\ Outside
  /\ read # None
  /\ UNCHANGED <<view, up, hidden, key, rev, question, pending, uncertain>>
  /\ NoWrite
  /\ \E now \in Remains : Follow(now)

(* Mutant of FailWrite: only a refusal makes the view careful.              *)
FailWriteRefused(lost) ==
  /\ uncertain' = (uncertain \/ (view.fail = "uncertain" /\ ~lost))
  /\ \/ view.fail = "drop" /\ shown' = None
     \/ view.fail # "drop" /\ lost /\ shown' = shown
     \/ view.fail # "drop" /\ ~lost
        /\ shown' \in IF view.drop = "sometimes" THEN Remains ELSE {shown}

(* What the view does when a write fails.                                   *)
FailWrite(lost) ==
  /\ uncertain' = \/ uncertain
                  \/ view.fail = "uncertain"
                  \/ view.fail = "unknown" /\ lost
  /\ shown' \in IF view.fail = "drop" THEN {None}
                ELSE IF view.drop = "sometimes" /\ ~lost THEN Remains
                ELSE {shown}

WriteAnswered ==
  /\ write # None
  /\ write.state # "sent"
  /\ write' = None
  /\ UNCHANGED <<view, up, hidden, key, rev, question, again, command, orphans,
                 blind, outside>>
  /\ \/ /\ write.state = "done"
        /\ view.write = "shows"
        /\ shown' = [question |-> question, key |-> key,
                     rev |-> write.base + 1]
        /\ pending' = FALSE
        /\ UNCHANGED <<read, uncertain>>
     \/ /\ write.state = "done"
        /\ view.write = "reloads"
        /\ Request(shown, TRUE)
        /\ pending' = FALSE
        /\ UNCHANGED uncertain
     \/ /\ write.state = "refused"
        /\ FailWrite(FALSE)
        /\ UNCHANGED <<read, pending>>

WriteTimeout ==
  /\ Outside
  /\ write # None
  /\ AbandonWrite
  /\ FailWrite(TRUE)
  /\ UNCHANGED <<view, up, hidden, key, rev, question, read, again, pending,
                 command>>

(* A command is followed by a load.                                         *)
CommandAnswered ==
  /\ command # "none"
  /\ command' = "none"
  /\ UNCHANGED <<view, up, hidden, key, rev, question, again, pending,
                 uncertain, outside>>
  /\ Request(shown, TRUE)
  /\ NoWrite

(* ... and when it fails it clears _busy, also when a load set it.          *)
CommandFailed ==
  /\ Outside
  /\ command # "none"
  /\ command' = "none"
  /\ read' = IF read = None THEN None ELSE [read EXCEPT !.front = FALSE]
  /\ UNCHANGED <<view, up, hidden, key, rev, question, again, pending, shown,
                 uncertain>>
  /\ NoWrite
-----------------------------------------------------------------------------
(* The requests of a connection that breaks fail with it.                   *)
FailRequests ==
  /\ read' = None
  /\ command' = "none"
  /\ AbandonWrite
  /\ IF write # None THEN FailWrite(TRUE)
     ELSE /\ shown' = IF read # None /\ view.drop = "always"
                      THEN None ELSE shown
          /\ UNCHANGED uncertain

ConnectionLost ==
  /\ Outside
  /\ up
  /\ up' = FALSE
  /\ again' = FALSE
  /\ UNCHANGED <<view, hidden, key, rev, question>>
  /\ \/ /\ view.lost = "keep"
        /\ FailRequests
        /\ UNCHANGED pending
     \/ /\ view.lost = "clear"
        /\ AbandonWrite
        /\ Reset
        /\ pending' = FALSE
        /\ command' = "none"
        /\ uncertain' = FALSE

ConnectionReady ==
  /\ ~up
  /\ up' = TRUE
  /\ UNCHANGED <<view, hidden, key, rev, question, again, pending, command,
                 uncertain, outside>>
  /\ NoWrite
  /\ IF view.ready THEN Request(shown, TRUE)
     ELSE UNCHANGED <<read, shown>>

(* Mutant of StartOver: the data of the old session stays until the answer  *)
(* to the new load.                                                         *)
StartOverShowing(loads) ==
  /\ again' = FALSE
  /\ pending' = FALSE
  /\ command' = "none"
  /\ uncertain' = FALSE
  /\ AbandonWrite
  /\ IF loads THEN Request(shown, view.poll # "background") ELSE Reset

(* The view starts over, with or without a load.                            *)
StartOver(loads) ==
  /\ again' = FALSE
  /\ pending' = FALSE
  /\ command' = "none"
  /\ uncertain' = FALSE
  /\ AbandonWrite
  /\ IF loads THEN Request(None, view.poll # "background") ELSE Reset

(* hass has another connection; requests of the old one are refused.        *)
ConnectionReplaced ==
  /\ Outside
  /\ up' = TRUE
  /\ UNCHANGED <<view, hidden, key, rev, question>>
  /\ \/ /\ view.replaced = "keep"
        /\ again' = FALSE
        /\ FailRequests
        /\ UNCHANGED pending
     \/ /\ view.replaced # "keep"
        /\ StartOver(view.replaced = "reload")

(* Another user, person, station or authorisation is passed to the view.    *)
Rekey(way) ==
  /\ Outside
  /\ way \in view.rekey
  /\ UNCHANGED <<view, up, hidden, rev, question>>
  /\ \/ /\ way = "cancel"
        /\ read' = None
        /\ AbandonWrite
        /\ UNCHANGED <<key, again, pending, command, shown, uncertain>>
     \/ /\ way \in {"clear", "reload"}
        /\ key' = key + 1
        /\ StartOver(way = "reload")

(* The right to manage is lost, and may be granted again at any time; blind *)
(* does not count the write given up.                                       *)
Demote ==
  /\ Outside
  /\ LeaveWrite
  /\ pending' = FALSE
  /\ UNCHANGED <<view, up, hidden, key, rev, question, again, command,
                 uncertain, blind>>
  /\ \/ "demote" \in view.rekey /\ Request(shown, TRUE)
     \/ "ignore" \in view.rekey /\ UNCHANGED <<read, shown>>

(* The panel removes the view and creates it anew: another user, another    *)
(* tab, or a locked screen.                                                 *)
Remount ==
  /\ Outside
  /\ key' = key + 1
  /\ UNCHANGED <<view, up, hidden, rev, question>>
  /\ StartOver(view.attach)

(* The page of the browser is hidden, or seen again; views whose timer does *)
(* not ask do not notice.                                                   *)
Hide ==
  /\ Outside
  /\ view.visible
  /\ ~hidden
  /\ hidden' = TRUE
  /\ UNCHANGED <<view, up, key, rev, question, read, again, pending, write,
                 command, orphans, shown, uncertain, blind>>

See ==
  /\ hidden
  /\ hidden' = FALSE
  /\ UNCHANGED <<view, up, key, rev, question, read, again, pending, write,
                 command, orphans, shown, uncertain, blind, outside>>
-----------------------------------------------------------------------------
Next ==
  \/ Refresh
  \/ \E q \in Question : Ask(q)
  \/ Poll
  \/ PollActive
  \/ HassUpdate
  \/ Prepare
  \/ CloseReview
  \/ \E base \in Revisions : Write(base)
  \/ Retry
  \/ ServerReads
  \/ ServerWrites
  \/ \E base \in Revisions : ServerLate(base)
  \/ OtherChange
  \/ ReadAnswered
  \/ ReadFailed
  \/ WriteAnswered
  \/ WriteTimeout
  \/ CommandAnswered
  \/ CommandFailed
  \/ ConnectionLost
  \/ ConnectionReady
  \/ ConnectionReplaced
  \/ \E way \in {"clear", "reload", "cancel"} : Rekey(way)
  \/ Demote
  \/ Remount
  \/ Hide
  \/ See

Spec == Init /\ [][Next]_vars

(* The server answers in the end, timers fire and hass is updated again and *)
(* again.  A view that asks anew on every update of hass only converges if  *)
(* some answer arrives between two updates: strong fairness says so.        *)
(* Nobody has to close a review, to show the page or to run jobs.           *)
FairSpec ==
  /\ Spec
  /\ SF_vars(ServerReads)
  /\ SF_vars(ReadAnswered)
  /\ WF_vars(ServerWrites)
  /\ WF_vars(WriteAnswered)
  /\ WF_vars(CommandAnswered)
  /\ WF_vars(ConnectionReady)
  /\ WF_vars(Poll)
  /\ WF_vars(HassUpdate)
-----------------------------------------------------------------------------
(* A view that has settled shows no answer to an earlier question of its    *)
(* controls, whichever loads failed (unified-search.ts search, events.ts    *)
(* applyFilters, permission-reviews.ts load).  Not of this kind are views   *)
(* with choices that wait for a button, and views that keep the old answer  *)
(* when the load of a new choice fails or is ignored.                       *)
Answers ==
  "type" \notin view.ask /\ ("load" \in view.ask => view.drop = "always")

SettledAnswersQuestion ==
  ~Busy /\ shown # None /\ Answers => shown.question = question

(* Whoever sends a write has read the server's state since the last write   *)
(* that timed out, broke off with its connection or ended with its session  *)
(* (the _uncertain flags, _refreshRequired, the dropped previews).  A write *)
(* given up because the right to manage was lost is not counted: the view   *)
(* keeps its data then and, granted the right again, may write from it.     *)
(* Not of this kind are views that do not care, or write without a read.    *)
Careful == view.fail # "keep" /\ view.needs

NoBlindWrite ==
  [][write = None /\ write' # None /\ Careful => ~blind]_vars

(* When the outside comes to rest, a view that loads by itself ends with    *)
(* the server's state for its question, unless it waits for a refresh after *)
(* an unknown outcome, for the end of a review or for a page that is seen;  *)
(* a view that does not load by itself ends its requests.                   *)
Polls == view.poll \in {"timer", "hass", "background"}
Waits == uncertain \/ pending \/ hidden
UpToDate == shown # None /\ shown.rev = rev /\ shown.question = question

Converges ==
  <>[](IF Polls THEN Waits \/ UpToDate ELSE view.poll = "none" => ~Busy)

(* The view implements what ReadView promises.                              *)
Promise == INSTANCE ReadView WITH
  Nothing <- None,
  session <- key,
  shown <- IF shown = None THEN None
           ELSE [session |-> shown.key, rev |-> shown.rev]

Refines == Promise!Spec
=============================================================================
