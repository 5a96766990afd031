-------------------------- MODULE PanelViewsProofs --------------------------
(***************************************************************************)
(* Proofs that every view of the catalogue implements ReadView, and that   *)
(* none writes blindly, for any number of questions and of events outside  *)
(* the view.                                                               *)
(***************************************************************************)
EXTENDS PanelViews, TLAPS

AnyRead == [question : Question, key : Nat, front : BOOLEAN,
            answered : BOOLEAN, rev : Nat]
AnyWrite == [base : Nat, state : {"sent", "done", "refused"}]
AnyShown == [question : Question, key : Nat, rev : Nat]

(* The types, without the bounds that TypeOK adds.                          *)
Types ==
  /\ view \in Views
  /\ up \in BOOLEAN
  /\ key \in Nat
  /\ rev \in Nat
  /\ question \in Question
  /\ read \in AnyRead \cup {None}
  /\ write \in AnyWrite \cup {None}
  /\ orphans \subseteq Nat
  /\ shown \in AnyShown \cup {None}
  /\ uncertain \in BOOLEAN
  /\ blind \in BOOLEAN

(* What is under way or shown belongs to this session.                      *)
InSession ==
  /\ read # None => read.key = key
  /\ shown # None => shown.key = key

(* What is shown is not newer than any answer that may take its place.      *)
Ordered ==
  /\ shown # None => shown.rev <= rev
  /\ read # None /\ read.answered => read.rev <= rev
  /\ read # None /\ read.answered /\ shown # None => shown.rev <= read.rev
  /\ write # None /\ write.state = "done" =>
       /\ write.base < rev
       /\ shown # None => shown.rev <= write.base

(* A write waits alone.                                                     *)
Alone ==
  /\ read # None => read.front \/ view.poll = "background"
  /\ write # None => read = None /\ up /\ view.write # "none"

(* A careful view that does not know the outcome of a write cannot write.   *)
Cautious ==
  blind /\ Careful => write = None /\ (uncertain \/ shown = None)

(* What the requests and answers do not depend on.                          *)
Aside ==
  /\ again \in BOOLEAN
  /\ pending \in BOOLEAN
  /\ hidden \in BOOLEAN
  /\ command \in {"none", "busy", "free"}
  /\ command # "none" => view.command

Sound == Types /\ InSession /\ Ordered /\ Alone /\ Cautious

Inv == Sound /\ Aside

(* What ReadView may see of a step.                                         *)
Later ==
  /\ key' = key
  /\ shown' # None
  /\ shown'.key = key
  /\ shown # None => shown'.rev >= shown.rev

Observed ==
  \/ UNCHANGED <<key, shown>>
  \/ shown' = None /\ key' \in {key, key + 1}
  \/ Later

Aware == write = None /\ write' # None /\ Careful => ~blind

Good == Sound' /\ Observed /\ Aware
-----------------------------------------------------------------------------
(* The views that write disable their controls meanwhile, wait for no       *)
(* second load, and do not load in the background.  Only a view that does   *)
(* sends commands.                                                          *)
Fitting(v) ==
  /\ v.write # "none" => /\ v.askBusy = FALSE
                         /\ v.guard # "queue"
                         /\ v.poll # "background"
  /\ v.ready = TRUE => v.write = "none"
  /\ v.command = TRUE => v.poll = "background" /\ v.write = "none"
  /\ "cancel" \in v.rekey => v.fail = "keep"
  /\ v.attach \in BOOLEAN /\ v.command \in BOOLEAN
  /\ v.fail \in {"keep", "uncertain", "unknown", "drop"}

LEMMA Catalogue == \A v \in Views : Fitting(v)
<1>1. /\ Fitting(PersonalRenewal)
      /\ Fitting(UnifiedSearch)
      /\ Fitting(FleetAlerts)
      /\ Fitting(OperationsCenter)
      /\ Fitting(ScheduleOperations)
  BY DEF Fitting, Default, OnDemand, PersonalRenewal, UnifiedSearch,
         FleetAlerts, OperationsCenter, ScheduleOperations
<1>2. /\ Fitting(AccessComparison)
      /\ Fitting(RenewalBindings)
      /\ Fitting(MaintenanceQueue)
      /\ Fitting(DataQuality)
      /\ Fitting(ClockSettings)
  BY DEF Fitting, Default, OnDemand, AccessComparison, RenewalBindings,
         MaintenanceQueue, DataQuality, ClockSettings
<1>3. /\ Fitting(PolicyVersions)
      /\ Fitting(PermissionDirectory)
      /\ Fitting(IdentityLifecycle)
      /\ Fitting(AccessScenario)
      /\ Fitting(DoorPrograms)
  BY DEF Fitting, Default, OnDemand, PolicyVersions, PermissionDirectory,
         IdentityLifecycle, AccessScenario, DoorPrograms
<1>4. /\ Fitting(HoldOpenForm)
      /\ Fitting(GuestTemplates)
      /\ Fitting(Investigations)
      /\ Fitting(AdminAudit)
      /\ Fitting(PermissionReviews)
  BY DEF Fitting, Default, OnDemand, HoldOpenForm, GuestTemplates,
         Investigations, AdminAudit, PermissionReviews
<1>5. /\ Fitting(VisitRequests)
      /\ Fitting(EventList)
      /\ Fitting(GroupSuggestions)
      /\ Fitting(EventTrace)
      /\ Fitting(PlatformCenter)
  BY DEF Fitting, Default, OnDemand, VisitRequests, EventList,
         GroupSuggestions, EventTrace, PlatformCenter
<1> QED
  BY <1>1, <1>2, <1>3, <1>4, <1>5 DEF Views
-----------------------------------------------------------------------------
LEMMA Apart ==
  /\ None \notin AnyRead
  /\ None \notin AnyWrite
  /\ None \notin AnyShown
BY NoneAssumption DEF AnyRead, AnyWrite, AnyShown

(* A request is not answered yet, and belongs to the session it is asked in. *)
LEMMA RequestFacts ==
  ASSUME NEW kept, NEW front \in BOOLEAN, Request(kept, front),
         question' \in Question, key' \in Nat
  PROVE  /\ read' \in AnyRead \cup {None}
         /\ read' # None => /\ read'.key = key'
                            /\ read'.front = front
                            /\ read'.answered = FALSE
         /\ shown' \in {kept, None}
<1>1. shown' \in {kept, None}
  BY Zenon DEF Request
<1>2. CASE up'
  <2>1. read' = [question |-> question', key |-> key', front |-> front,
                 answered |-> FALSE, rev |-> 0]
    BY <1>2, Zenon DEF Request
  <2> QED
    BY <1>1, <2>1 DEF AnyRead
<1>3. CASE ~up'
  <2>1. read' = None
    BY <1>3, Zenon DEF Request
  <2> QED
    BY <1>1, <2>1
<1> QED
  BY <1>2, <1>3

(* A step that reads anew, or gives up reading, and shows nothing else than *)
(* before, while no write is under way.                                     *)
LEMMA ReadingAnew ==
  ASSUME Inv, key' = key, question' \in Question, rev' = rev, view' = view,
         NoWrite, write = None, up' \in BOOLEAN,
         uncertain' = uncertain,
         read' \in AnyRead \cup {None},
         read' # None => /\ read'.key = key'
                         /\ read'.front \/ view.poll = "background"
                         /\ read'.answered = FALSE,
         shown' \in {shown, None}
  PROVE  Good
BY DEF Inv, Sound, Types, InSession, Ordered, Alone, Cautious, Careful,
       NoWrite, Good, Observed, Aware

LEMMA StillTyped ==
  ASSUME Inv, UNCHANGED <<view, up, key, question>>
  PROVE  /\ view' \in Views /\ up' \in BOOLEAN /\ key' \in Nat
         /\ question' \in Question
BY DEF Inv, Sound, Types

LEMMA Fits == ASSUME Inv PROVE Fitting(view)
BY Catalogue DEF Inv, Sound, Types

(* Nothing is asked while a write is under way.                             *)
LEMMA LoadGood ==
  ASSUME Inv, Load, UNCHANGED <<view, rev>>
  PROVE  Good
<1>1. UNCHANGED <<up, key, question, uncertain>> /\ NoWrite
  BY DEF Load
<1>2. question' \in Question /\ key' \in Nat /\ up' \in BOOLEAN
  BY <1>1, StillTyped
<1>3. CASE (~Busy \/ (view.guard = "supersede" /\ view.askBusy))
           /\ Request(shown, TRUE)
  <2>1. write = None
    BY <1>3, Fits DEF Busy, Fitting, Inv, Sound, Alone
  <2>2. /\ read' \in AnyRead \cup {None}
        /\ read' # None => /\ read'.key = key'
                           /\ read'.front = TRUE
                           /\ read'.answered = FALSE
        /\ shown' \in {shown, None}
    BY <1>2, <1>3, RequestFacts
  <2> QED
    BY <1>1, <1>2, <2>1, <2>2, ReadingAnew
<1>4. CASE UNCHANGED <<read, shown>>
  BY <1>1, <1>4
  DEF Inv, Sound, Types, InSession, Ordered, Alone, Cautious, Careful, NoWrite,
      Good, Observed, Aware
<1> QED
  BY <1>3, <1>4 DEF Load

LEMMA AskGood ==
  ASSUME Inv, NEW q \in Question, Ask(q)
  PROVE  Good
<1>1. /\ UNCHANGED <<view, up, key, rev, uncertain>>
      /\ NoWrite
      /\ question' = q
  BY DEF Ask
<1>2. question' \in Question /\ key' \in Nat /\ up' \in BOOLEAN
  BY <1>1 DEF Inv, Sound, Types
<1>3. write = None
  BY Fits DEF Ask, Busy, Fitting, Inv, Sound, Alone
<1>4. CASE Reset
  BY <1>1, <1>2, <1>3, <1>4, ReadingAnew DEF Reset
<1>5. CASE Request(IF "load" \in view.ask THEN shown ELSE None, TRUE)
  <2>1. /\ read' \in AnyRead \cup {None}
        /\ read' # None => /\ read'.key = key'
                           /\ read'.front = TRUE
                           /\ read'.answered = FALSE
        /\ shown' \in {IF "load" \in view.ask THEN shown ELSE None, None}
    BY <1>2, <1>5, RequestFacts
  <2> QED
    BY <1>1, <1>2, <1>3, <2>1, ReadingAnew
<1>6. CASE UNCHANGED <<read, shown>>
  BY <1>1, <1>2, <1>6
  DEF Inv, Sound, Types, InSession, Ordered, Alone, Cautious, Careful, NoWrite,
      Good, Observed, Aware
<1> QED
  BY <1>4, <1>5, <1>6 DEF Ask

LEMMA HassUpdateGood == ASSUME Inv, HassUpdate PROVE Good
<1>1. /\ UNCHANGED <<view, up, key, rev, question, uncertain>>
      /\ NoWrite
      /\ write = None
      /\ view.poll \in {"hass", "background"}
  BY DEF HassUpdate, Busy
<1>2. question' \in Question /\ key' \in Nat /\ up' \in BOOLEAN
  BY <1>1, StillTyped
<1>3. /\ read' \in AnyRead \cup {None}
      /\ read' # None => /\ read'.key = key'
                         /\ read'.front = (view.poll = "hass")
                         /\ read'.answered = FALSE
      /\ shown' \in {shown, None}
  BY <1>2, RequestFacts DEF HassUpdate
<1> QED
  BY <1>1, <1>2, <1>3, ReadingAnew

LEMMA WriteGood ==
  ASSUME Inv, NEW base \in Revisions, Write(base)
  PROVE  Good
<1>1. /\ UNCHANGED <<view, up, key, rev, question, read, shown, orphans,
                     uncertain, blind>>
      /\ up
      /\ view.write # "none"
      /\ view.needs => shown # None
      /\ ~uncertain
      /\ write = None
      /\ write' = [base |-> base, state |-> "sent"]
  BY DEF Write, Busy
<1>2. read = None
  BY <1>1, Fits DEF Write, Busy, Fitting, Inv, Sound, Alone
<1>3. write' \in AnyWrite /\ write'.state = "sent"
  BY <1>1, ViewsAssumption DEF Revisions, AnyWrite
<1>4. ~(blind /\ Careful)
  BY <1>1 DEF Inv, Sound, Cautious, Careful
<1>5. Sound'
  BY <1>1, <1>2, <1>3, <1>4 DEF Inv, Sound, Types, InSession, Ordered, Alone,
                                Cautious, Careful, AnyShown
<1> QED
  BY <1>1, <1>4, <1>5 DEF Good, Observed, Aware

(* What is no request of the view changes nothing about them.               *)
LEMMA AsideGood ==
  ASSUME Inv,
         \/ Prepare \/ CloseReview
         \/ Retry
         \/ Hide \/ See
  PROVE  Good
<1>1. UNCHANGED <<view, up, key, rev, question, read, write, orphans, shown,
                  uncertain, blind>>
  BY DEF Prepare, CloseReview, Retry, Hide, See
<1> QED
  BY <1>1 DEF Inv, Sound, Types, InSession, Ordered, Alone, Cautious, Careful,
              Good, Observed, Aware

(* A command is followed by a load, or leaves the read of a background load *)
(* on its own.                                                              *)
LEMMA CommandGood ==
  ASSUME Inv, CommandAnswered \/ CommandFailed
  PROVE  Good
<1>1. /\ UNCHANGED <<view, up, key, rev, question, uncertain>>
      /\ NoWrite
      /\ command # "none"
  BY DEF CommandAnswered, CommandFailed
<1>2. question' \in Question /\ key' \in Nat /\ up' \in BOOLEAN
  BY <1>1, StillTyped
<1>3. view.poll = "background" /\ write = None
  BY <1>1, Fits DEF Fitting, Inv, Aside, Sound, Alone
<1>4. CASE CommandAnswered
  <2>1. /\ read' \in AnyRead \cup {None}
        /\ read' # None => /\ read'.key = key'
                           /\ read'.front = TRUE
                           /\ read'.answered = FALSE
        /\ shown' \in {shown, None}
    BY <1>2, <1>4, RequestFacts DEF CommandAnswered
  <2> QED
    BY <1>1, <1>2, <1>3, <2>1, ReadingAnew
<1>5. CASE CommandFailed
  <2>1. UNCHANGED <<shown, write, orphans, blind>>
    BY <1>5 DEF CommandFailed, NoWrite
  <2>2. CASE read = None
    <3>1. read' = None
      BY <1>5, <2>2 DEF CommandFailed
    <3> QED
      BY <1>1, <1>2, <1>3, <2>1, <3>1, ReadingAnew
  <2>3. CASE read # None
    <3>1. read' = [read EXCEPT !.front = FALSE] /\ read \in AnyRead
      BY <1>5, <2>3 DEF CommandFailed, Inv, Sound, Types
    <3>2. /\ read' \in AnyRead
          /\ read'.key = read.key /\ read'.rev = read.rev
          /\ read'.answered = read.answered
      BY <3>1 DEF AnyRead
    <3> QED
      BY <1>1, <1>2, <1>3, <2>1, <2>3, <3>2
      DEF Inv, Sound, Types, InSession, Ordered, Alone, Cautious, Careful,
          Good, Observed, Aware
  <2> QED
    BY <2>2, <2>3
<1> QED
  BY <1>4, <1>5
-----------------------------------------------------------------------------
(* The server's steps are not seen by the view.                             *)
LEMMA ServerGood ==
  ASSUME Inv,
         \/ ServerReads
         \/ ServerWrites
         \/ \E base \in Revisions : ServerLate(base)
         \/ OtherChange
  PROVE  Good
<1>1. UNCHANGED <<view, up, key, question, shown, uncertain, blind>>
  BY DEF ServerReads, ServerWrites, ServerLate, OtherChange
<1>2. CASE ServerReads
  <2>1. /\ read' = [read EXCEPT !.answered = TRUE, !.rev = rev]
        /\ read \in AnyRead
        /\ UNCHANGED <<rev, write, orphans>>
    BY <1>2 DEF ServerReads, Inv, Sound, Types
  <2>2. /\ read' \in AnyRead /\ read'.key = read.key /\ read'.rev = rev
        /\ read'.front = read.front
    BY <2>1 DEF AnyRead, Inv, Sound, Types
  <2> QED
    BY <1>1, <2>1, <2>2, Apart
    DEF ServerReads, Inv, Sound, Types, InSession, Ordered, Alone, Cautious,
        Careful, Good, Observed, Aware
<1>3. CASE ServerWrites
  <2>1. write \in AnyWrite /\ write # None /\ read = None /\ UNCHANGED read
        /\ orphans' = orphans
    BY <1>3 DEF ServerWrites, Inv, Sound, Types, Alone
  <2>2. /\ write' \in AnyWrite
        /\ write'.base = write.base
        /\ rev' \in Nat /\ rev <= rev'
        /\ write'.state = "done" => write.base = rev /\ rev' = rev + 1
    BY <1>3, <2>1 DEF ServerWrites, AnyWrite, Inv, Sound, Types
  <2> QED
    BY <1>1, <2>1, <2>2, Apart
    DEF Inv, Sound, Types, InSession, Ordered, Alone, Cautious, Careful,
        AnyShown, Good, Observed, Aware
<1>4. CASE (\E base \in Revisions : ServerLate(base)) \/ OtherChange
  <2>1. /\ UNCHANGED <<read, write>>
        /\ rev' \in Nat /\ rev <= rev'
        /\ orphans' \subseteq Nat
    <3>1. CASE OtherChange
      BY <3>1 DEF OtherChange, Inv, Sound, Types
    <3>2. ASSUME NEW base \in Revisions, ServerLate(base)
          PROVE  /\ UNCHANGED <<read, write>>
                 /\ rev' \in Nat /\ rev <= rev'
                 /\ orphans' \subseteq Nat
      BY <3>2 DEF ServerLate, Inv, Sound, Types
    <3> QED
      BY <1>4, <3>1, <3>2
  <2> QED
    BY <1>1, <2>1
    DEF Inv, Sound, Types, InSession, Ordered, Alone, Cautious, Careful,
        AnyRead, AnyWrite, AnyShown, Good, Observed, Aware
<1> QED
  BY <1>2, <1>3, <1>4

(* A read that is answered shows its answer, and another may follow.        *)
LEMMA ReadAnsweredGood == ASSUME Inv, ReadAnswered PROVE Good
<1> DEFINE answer == [question |-> read.question, key |-> read.key,
                      rev |-> read.rev]
<1>1. /\ UNCHANGED <<view, up, key, rev, question, write, orphans>>
      /\ uncertain' = FALSE
      /\ blind' = FALSE
      /\ read # None
      /\ read.answered
      /\ Follow(answer)
  BY DEF ReadAnswered
<1>2. question' \in Question /\ key' \in Nat /\ up' \in BOOLEAN
  BY <1>1, StillTyped
<1>3. /\ read \in AnyRead
      /\ answer \in AnyShown
      /\ answer.key = key
      /\ answer.rev <= rev
      /\ shown # None => shown.rev <= answer.rev
      /\ write = None
  BY <1>1 DEF Inv, Sound, Types, InSession, Ordered, Alone, AnyRead, AnyShown
<1> HIDE DEF answer
<1>4. /\ read' \in AnyRead \cup {None}
      /\ read' # None => /\ read'.key = key'
                         /\ read'.front = TRUE
                         /\ read'.answered = FALSE
      /\ shown' \in {answer, None}
  BY <1>1, <1>2, RequestFacts DEF Follow
<1>5. Sound'
  BY <1>1, <1>2, <1>3, <1>4 DEF Inv, Sound, Types, InSession, Ordered, Alone,
     Cautious, Careful
<1>6. Observed
  BY <1>1, <1>3, <1>4, Apart DEF Observed, Later, AnyShown, Inv, Sound, Types
<1> QED
  BY <1>1, <1>5, <1>6 DEF Good, Aware

LEMMA ReadFailedGood == ASSUME Inv, ReadFailed PROVE Good
<1>1. /\ UNCHANGED <<view, up, key, rev, question, uncertain>>
      /\ NoWrite
      /\ read # None
  BY DEF ReadFailed
<1>2. PICK now \in Remains : Follow(now)
  BY DEF ReadFailed
<1>3. question' \in Question /\ key' \in Nat /\ up' \in BOOLEAN
  BY <1>1, StillTyped
<1>4. write = None
  BY <1>1 DEF Inv, Sound, Alone
<1>5. now \in {shown, None}
  BY <1>2 DEF Remains
<1>6. /\ read' \in AnyRead \cup {None}
      /\ read' # None => /\ read'.key = key'
                         /\ read'.front = TRUE
                         /\ read'.answered = FALSE
      /\ shown' \in {now, None}
  BY <1>1, <1>2, <1>3, RequestFacts DEF Follow
<1> QED
  BY <1>1, <1>3, <1>4, <1>5, <1>6, ReadingAnew

LEMMA PollGood == ASSUME Inv, Poll \/ PollActive PROVE Good
BY LoadGood DEF Poll, PollActive

LEMMA RefreshGood == ASSUME Inv, Refresh PROVE Good
BY LoadGood DEF Refresh
-----------------------------------------------------------------------------
(* Whatever happens to a write, no new one is under way, nothing new is     *)
(* shown, and a careful view remembers an unknown outcome.                  *)
LEMMA GivingUp ==
  ASSUME Inv, write' = None, view' = view, rev' = rev,
         question' \in Question, up' \in BOOLEAN,
         orphans' \subseteq Nat, blind' \in BOOLEAN, uncertain' \in BOOLEAN,
         read' \in AnyRead \cup {None},
         read' # None => /\ read'.key = key'
                         /\ read'.front \/ view.poll = "background"
                         /\ read'.answered = FALSE,
         \/ key' = key /\ shown' \in {shown, None}
         \/ key' = key + 1 /\ shown' = None,
         blind' /\ Careful => uncertain' \/ shown' = None
  PROVE  Good
BY DEF Inv, Sound, Types, InSession, Ordered, Alone, Cautious, Careful, Good,
       Observed, Aware

LEMMA LeaveFacts ==
  ASSUME Inv, LeaveWrite
  PROVE  write' = None /\ orphans' \subseteq Nat
<1>1. write # None => write.base \in Nat
  BY DEF Inv, Sound, Types, AnyWrite
<1> QED
  BY <1>1 DEF LeaveWrite, Inv, Sound, Types

LEMMA AbandonFacts ==
  ASSUME Inv, AbandonWrite
  PROVE  /\ write' = None
         /\ orphans' \subseteq Nat
         /\ blind' \in BOOLEAN
         /\ blind' <=> blind \/ write # None
BY LeaveFacts DEF AbandonWrite, Inv, Sound, Types

(* After a failed write a careful view reads before it writes again, or has *)
(* nothing to write from.                                                   *)
LEMMA FailWriteFacts ==
  ASSUME Inv, NEW lost \in BOOLEAN, FailWrite(lost)
  PROVE  /\ uncertain' \in BOOLEAN
         /\ shown' \in {shown, None}
         /\ uncertain => uncertain'
         /\ lost /\ Careful => uncertain' \/ shown' = None
<1>1. view.fail \in {"keep", "uncertain", "unknown", "drop"}
  BY Fits DEF Fitting
<1>2. shown' \in {shown, None}
  BY DEF FailWrite, Remains
<1>3. uncertain' \in BOOLEAN /\ (uncertain => uncertain')
  BY DEF FailWrite, Inv, Sound, Types
<1>4. ASSUME lost, Careful PROVE uncertain' \/ shown' = None
  BY <1>1, <1>4 DEF FailWrite, Careful
<1> QED
  BY <1>2, <1>3, <1>4
-----------------------------------------------------------------------------
LEMMA WriteAnsweredGood == ASSUME Inv, WriteAnswered PROVE Good
<1>1. /\ UNCHANGED <<view, up, key, rev, question, orphans, blind>>
      /\ write # None
      /\ write' = None
      /\ read = None
      /\ write \in AnyWrite
  BY DEF WriteAnswered, Inv, Sound, Types, Alone
<1>2. /\ question' \in Question /\ key' \in Nat /\ up' \in BOOLEAN
      /\ orphans' \subseteq Nat /\ blind' \in BOOLEAN
      /\ ~(blind' /\ Careful)
  BY <1>1, StillTyped DEF Inv, Sound, Types, Cautious, Careful
<1>3. CASE /\ write.state = "done"
           /\ shown' = [question |-> question, key |-> key,
                        rev |-> write.base + 1]
           /\ UNCHANGED <<read, uncertain>>
  <2>1. /\ shown' \in AnyShown
        /\ shown'.key = key
        /\ shown'.rev = write.base + 1
    BY <1>1, <1>3 DEF AnyShown, AnyWrite, Inv, Sound, Types
  <2>2. /\ write.base \in Nat /\ write.base < rev
        /\ shown # None => shown.rev \in Nat /\ shown.rev <= write.base
    BY <1>1, <1>3 DEF Inv, Sound, Types, Ordered, AnyWrite, AnyShown
  <2>3. Sound'
    BY <1>1, <1>2, <1>3, <2>1, <2>2
    DEF Inv, Sound, Types, InSession, Ordered, Alone, Cautious, Careful
  <2>4. Later
    BY <1>1, <2>1, <2>2, Apart DEF Later
  <2> QED
    BY <1>1, <2>3, <2>4 DEF Good, Observed, Aware
<1>4. CASE Request(shown, TRUE) /\ UNCHANGED uncertain
  <2>1. /\ read' \in AnyRead \cup {None}
        /\ read' # None => /\ read'.key = key'
                           /\ read'.front = TRUE
                           /\ read'.answered = FALSE
        /\ shown' \in {shown, None}
    BY <1>2, <1>4, RequestFacts
  <2> QED
    BY <1>1, <1>2, <1>4, <2>1, GivingUp DEF Inv, Sound, Types
<1>5. CASE FailWrite(FALSE) /\ UNCHANGED read
  <2>1. uncertain' \in BOOLEAN /\ shown' \in {shown, None}
    BY <1>5, FailWriteFacts
  <2> QED
    BY <1>1, <1>2, <1>5, <2>1, GivingUp
<1> QED
  BY <1>3, <1>4, <1>5 DEF WriteAnswered

LEMMA WriteTimeoutGood == ASSUME Inv, WriteTimeout PROVE Good
<1>1. /\ UNCHANGED <<view, up, key, rev, question, read>>
      /\ read = None
      /\ AbandonWrite
      /\ FailWrite(TRUE)
  BY DEF WriteTimeout, Inv, Sound, Alone
<1> QED
  BY <1>1, StillTyped, AbandonFacts, FailWriteFacts, GivingUp

LEMMA FailRequestsGood ==
  ASSUME Inv, FailRequests, UNCHANGED <<view, key, rev, question>>,
         up' \in BOOLEAN
  PROVE  Good
<1>1. question' \in Question /\ read' = None /\ AbandonWrite
  BY DEF FailRequests, Inv, Sound, Types
<1>2. /\ uncertain' \in BOOLEAN
      /\ shown' \in {shown, None}
      /\ uncertain => uncertain'
      /\ write # None /\ Careful => uncertain' \/ shown' = None
  <2>1. CASE write # None
    BY <2>1, FailWriteFacts DEF FailRequests
  <2>2. CASE write = None
    BY <2>2 DEF FailRequests, Inv, Sound, Types
  <2> QED
    BY <2>1, <2>2
<1>3. blind' /\ Careful => uncertain' \/ shown' = None
  BY <1>1, <1>2, AbandonFacts DEF Inv, Sound, Cautious
<1> QED
  BY <1>1, <1>2, <1>3, AbandonFacts, GivingUp

LEMMA StartOverFacts ==
  ASSUME Inv, NEW loads \in BOOLEAN, StartOver(loads), question' \in Question,
         key' \in Nat
  PROVE  /\ shown' = None
         /\ uncertain' = FALSE
         /\ AbandonWrite
         /\ read' \in AnyRead \cup {None}
         /\ read' # None => /\ read'.key = key'
                            /\ read'.front \/ view.poll = "background"
                            /\ read'.answered = FALSE
<1>1. uncertain' = FALSE /\ AbandonWrite
  BY DEF StartOver
<1>2. CASE loads
  <2>1. Request(None, view.poll # "background")
    BY <1>2 DEF StartOver
  <2>2. /\ read' \in AnyRead \cup {None}
        /\ read' # None => /\ read'.key = key'
                           /\ read'.front = (view.poll # "background")
                           /\ read'.answered = FALSE
        /\ shown' \in {None, None}
    BY <2>1, RequestFacts
  <2> QED
    BY <1>1, <2>2
<1>3. CASE ~loads
  BY <1>1, <1>3 DEF StartOver, Reset
<1> QED
  BY <1>2, <1>3

LEMMA ConnectionLostGood == ASSUME Inv, ConnectionLost PROVE Good
<1>1. UNCHANGED <<view, key, rev, question>> /\ up' = FALSE
  BY DEF ConnectionLost
<1>2. CASE FailRequests
  BY <1>1, <1>2, FailRequestsGood
<1>3. CASE AbandonWrite /\ Reset /\ uncertain' = FALSE
  BY <1>1, <1>3, AbandonFacts, GivingUp DEF Reset, Inv, Sound, Types
<1> QED
  BY <1>2, <1>3 DEF ConnectionLost

LEMMA ConnectionReadyGood == ASSUME Inv, ConnectionReady PROVE Good
<1>1. /\ UNCHANGED <<view, key, rev, question, uncertain>>
      /\ NoWrite
      /\ up' = TRUE
      /\ write = None
  BY DEF ConnectionReady, Inv, Sound, Alone
<1>2. question' \in Question /\ key' \in Nat
  BY <1>1 DEF Inv, Sound, Types
<1>3. CASE Request(shown, TRUE)
  <2>1. /\ read' \in AnyRead \cup {None}
        /\ read' # None => /\ read'.key = key'
                           /\ read'.front = TRUE
                           /\ read'.answered = FALSE
        /\ shown' \in {shown, None}
    BY <1>2, <1>3, RequestFacts
  <2> QED
    BY <1>1, <1>2, <2>1, ReadingAnew
<1>4. CASE UNCHANGED <<read, shown>>
  BY <1>1, <1>4
  DEF Inv, Sound, Types, InSession, Ordered, Alone, Cautious, Careful, NoWrite,
      Good, Observed, Aware
<1> QED
  BY <1>3, <1>4 DEF ConnectionReady

LEMMA ConnectionReplacedGood == ASSUME Inv, ConnectionReplaced PROVE Good
<1>1. UNCHANGED <<view, key, rev, question>> /\ up' = TRUE
  BY DEF ConnectionReplaced
<1>2. CASE FailRequests
  BY <1>1, <1>2, FailRequestsGood
<1>3. CASE StartOver(view.replaced = "reload")
  <2>1. question' \in Question /\ key' \in Nat
    BY <1>1 DEF Inv, Sound, Types
  <2> QED
    BY <1>1, <1>3, <2>1, StartOverFacts, AbandonFacts, GivingUp
<1> QED
  BY <1>2, <1>3 DEF ConnectionReplaced

LEMMA RekeyGood ==
  ASSUME Inv, NEW way \in {"clear", "reload", "cancel"}, Rekey(way)
  PROVE  Good
<1>1. UNCHANGED <<view, up, rev, question>> /\ way \in view.rekey
  BY DEF Rekey
<1>2. question' \in Question /\ up' \in BOOLEAN
  BY <1>1 DEF Inv, Sound, Types
<1>3. CASE /\ way = "cancel"
           /\ read' = None
           /\ AbandonWrite
           /\ UNCHANGED <<key, shown, uncertain>>
  <2>1. ~Careful
    BY <1>1, <1>3, Fits DEF Fitting, Careful
  <2> QED
    BY <1>1, <1>2, <1>3, <2>1, AbandonFacts, GivingUp DEF Inv, Sound, Types
<1>4. CASE key' = key + 1 /\ StartOver(way = "reload")
  <2>1. key' \in Nat
    BY <1>4 DEF Inv, Sound, Types
  <2> QED
    BY <1>1, <1>2, <1>4, <2>1, StartOverFacts, AbandonFacts, GivingUp
<1> QED
  BY <1>3, <1>4 DEF Rekey

(* A write given up with the right to manage leaves the view as careful as  *)
(* it was.                                                                  *)
LEMMA DemoteGood == ASSUME Inv, Demote PROVE Good
<1>1. /\ UNCHANGED <<view, up, key, rev, question, uncertain, blind>>
      /\ LeaveWrite
  BY DEF Demote
<1>2. question' \in Question /\ key' \in Nat /\ up' \in BOOLEAN
  BY <1>1, StillTyped
<1>3. CASE Request(shown, TRUE)
  <2>1. /\ read' \in AnyRead \cup {None}
        /\ read' # None => /\ read'.key = key'
                           /\ read'.front = TRUE
                           /\ read'.answered = FALSE
        /\ shown' \in {shown, None}
    BY <1>2, <1>3, RequestFacts
  <2>2. blind' /\ Careful => uncertain' \/ shown' = None
    BY <1>1, <2>1 DEF Inv, Sound, Cautious, Careful
  <2> QED
    BY <1>1, <1>2, <2>1, <2>2, LeaveFacts, GivingUp DEF Inv, Sound, Types
<1>4. CASE UNCHANGED <<read, shown>>
  BY <1>1, <1>2, <1>4, LeaveFacts
  DEF Inv, Sound, Types, InSession, Ordered, Alone, Cautious, Careful, Good,
      Observed, Aware
<1> QED
  BY <1>3, <1>4 DEF Demote

LEMMA RemountGood == ASSUME Inv, Remount PROVE Good
<1>1. /\ UNCHANGED <<view, up, rev, question>>
      /\ key' = key + 1
      /\ StartOver(view.attach)
  BY DEF Remount
<1>2. question' \in Question /\ up' \in BOOLEAN /\ key' \in Nat
  BY <1>1 DEF Inv, Sound, Types
<1>3. view.attach \in BOOLEAN
  BY Fits DEF Fitting
<1> QED
  BY <1>1, <1>2, <1>3, StartOverFacts, AbandonFacts, GivingUp
-----------------------------------------------------------------------------
LEMMA StepGood == ASSUME Inv, Next PROVE Good
BY RefreshGood, AskGood, PollGood, HassUpdateGood, WriteGood, AsideGood,
   ServerGood, ReadAnsweredGood, ReadFailedGood, WriteAnsweredGood,
   WriteTimeoutGood, CommandGood, ConnectionLostGood, ConnectionReadyGood,
   ConnectionReplacedGood, RekeyGood, DemoteGood, RemountGood DEF Next

(* Commands are only sent by views that have them.                          *)
LEMMA AsideKept == ASSUME Inv, Next PROVE Aside'
<1> USE DEF Inv, Aside
<1>1. CASE Refresh \/ Poll \/ PollActive
  BY <1>1 DEF Refresh, Poll, PollActive, Load
<1>2. CASE \/ \E q \in Question : Ask(q)
           \/ HassUpdate
           \/ \E base \in Revisions : Write(base)
  BY <1>2 DEF Ask, HassUpdate, Write
<1>3. CASE Prepare \/ CloseReview \/ Retry \/ Hide \/ See
  BY <1>3 DEF Prepare, CloseReview, Retry, Hide, See
<1>4. CASE \/ ServerReads \/ ServerWrites \/ OtherChange
           \/ \E base \in Revisions : ServerLate(base)
  BY <1>4 DEF ServerReads, ServerWrites, OtherChange, ServerLate
<1>5. CASE ReadAnswered \/ ReadFailed
  BY <1>5 DEF ReadAnswered, ReadFailed, Follow
<1>6. CASE WriteAnswered \/ WriteTimeout
  BY <1>6 DEF WriteAnswered, WriteTimeout
<1>7. CASE CommandAnswered \/ CommandFailed
  BY <1>7 DEF CommandAnswered, CommandFailed
<1>8. CASE ConnectionLost \/ ConnectionReady \/ ConnectionReplaced
  BY <1>8 DEF ConnectionLost, ConnectionReady, ConnectionReplaced,
              FailRequests, StartOver
<1>9. CASE \/ \E way \in {"clear", "reload", "cancel"} : Rekey(way)
           \/ Demote \/ Remount
  BY <1>9 DEF Rekey, Demote, Remount, StartOver
<1> QED
  BY <1>1, <1>2, <1>3, <1>4, <1>5, <1>6, <1>7, <1>8, <1>9 DEF Next

LEMMA StepKeeps == ASSUME Inv, Next PROVE Inv'
BY StepGood, AsideKept DEF Good, Inv

LEMMA StutterKeeps == ASSUME Inv, UNCHANGED vars PROVE Inv'
BY DEF vars, Inv, Sound, Aside, Types, InSession, Ordered, Alone, Cautious,
       Careful

LEMMA InitInv == Init => Inv
<1> SUFFICES ASSUME Init PROVE Inv
  OBVIOUS
<1>1. /\ key = 0 /\ rev = 0 /\ up = TRUE /\ question \in Question
      /\ view \in Views /\ write = None /\ orphans = {} /\ shown = None
      /\ uncertain = FALSE /\ blind = FALSE
      /\ Aside
  BY DEF Init, Aside
<1>2. /\ read \in AnyRead \cup {None}
      /\ read # None => /\ read.key = key
                        /\ read.front \/ view.poll = "background"
                        /\ read.answered = FALSE
  BY <1>1 DEF Init, AnyRead
<1> QED
  BY <1>1, <1>2
  DEF Inv, Sound, Types, InSession, Ordered, Alone, Cautious, Careful

LEMMA Invariance == Spec => []Inv
<1>1. Inv /\ [Next]_vars => Inv'
  BY StepKeeps, StutterKeeps
<1> QED
  BY <1>1, InitInv, PTL DEF Spec
-----------------------------------------------------------------------------
(* A view whose writes are careful never sends one while the outcome of an  *)
(* earlier one is unknown to it: it has read the server's state since, or   *)
(* has nothing to write from (the _uncertain flags and dropped previews).   *)
THEOREM WritesKnowTheState == Spec => NoBlindWrite
<1>1. Inv /\ [Next]_vars =>
        [write = None /\ write' # None /\ Careful => ~blind]_vars
  BY StepGood DEF Good, Aware
<1> QED
  BY <1>1, Invariance, PTL DEF Spec, NoBlindWrite

(* Every view shows an answer only in the session it was asked in, and      *)
(* never one older than it has shown in that session (the cancelled         *)
(* requests and compared epochs of every load).                             *)
THEOREM ViewsKeepThePromise == Spec => Refines
<1>1. Init => Promise!Init
  BY DEF Init, Promise!Init
<1>2. ASSUME Inv, [Next]_vars PROVE [Promise!Next]_(Promise!vars)
  <2>1. Observed
    BY <1>2, StepGood DEF Good, vars, Observed
  <2>2. CASE UNCHANGED <<key, shown>>
    BY <2>2 DEF Promise!vars
  <2>3. CASE shown' = None /\ key' \in {key, key + 1}
    BY <2>3 DEF Promise!Next, Promise!Clear, Promise!NewSession
  <2>4. CASE Later
    <3>1. Inv'
      BY <1>2, StepKeeps, StutterKeeps
    <3>2. shown' \in AnyShown /\ shown'.key \in Nat /\ shown'.rev \in Nat
      BY <2>4, <3>1 DEF Later, Inv, Sound, Types, AnyShown
    <3>3. [session |-> shown'.key, rev |-> shown'.rev] # None
      BY <3>2, NoneAssumption
    <3>4. shown # None => [session |-> shown.key, rev |-> shown.rev].rev
                            = shown.rev
      OBVIOUS
    <3>5. Promise!Show
      BY <2>4, <3>2, <3>3, <3>4 DEF Later, Promise!Show
    <3> QED
      BY <3>5 DEF Promise!Next
  <2> QED
    BY <2>1, <2>2, <2>3, <2>4 DEF Observed
<1> QED
  BY <1>1, <1>2, Invariance, PTL DEF Spec, Refines, Promise!Spec
-----------------------------------------------------------------------------
Settling(v) ==
  "type" \notin v.ask /\ ("load" \in v.ask => v.drop = "always")

(* A view that keeps the old answer while it loads another is a view of     *)
(* these: it never gives a load up without clearing, nor ignores one.       *)
Direct(v) ==
  Settling(v) =>
    /\ v.poll # "background"
    /\ v.command = FALSE
    /\ v.ask \cap {"load", "blank"} # {} =>
         v.askBusy = FALSE \/ v.guard # "busy"
    /\ "load" \in v.ask => /\ v.quiet = FALSE
                           /\ v.lost = "clear"
                           /\ v.replaced # "keep"
                           /\ "cancel" \notin v.rekey

LEMMA DirectCatalogue == \A v \in Views : Direct(v)
<1> USE DEF Direct, Settling, Default, OnDemand
<1>1. /\ Direct(PersonalRenewal) /\ Direct(UnifiedSearch)
      /\ Direct(FleetAlerts) /\ Direct(OperationsCenter)
      /\ Direct(ScheduleOperations)
  BY DEF PersonalRenewal, UnifiedSearch, FleetAlerts, OperationsCenter,
         ScheduleOperations
<1>2. /\ Direct(AccessComparison) /\ Direct(RenewalBindings)
      /\ Direct(MaintenanceQueue) /\ Direct(DataQuality)
      /\ Direct(ClockSettings)
  BY DEF AccessComparison, RenewalBindings, MaintenanceQueue, DataQuality,
         ClockSettings
<1>3. /\ Direct(PolicyVersions) /\ Direct(PermissionDirectory)
      /\ Direct(IdentityLifecycle) /\ Direct(AccessScenario)
      /\ Direct(DoorPrograms)
  BY DEF PolicyVersions, PermissionDirectory, IdentityLifecycle,
         AccessScenario, DoorPrograms
<1>4. /\ Direct(HoldOpenForm) /\ Direct(GuestTemplates)
      /\ Direct(Investigations) /\ Direct(AdminAudit)
      /\ Direct(PermissionReviews)
  BY DEF HoldOpenForm, GuestTemplates, Investigations, AdminAudit,
         PermissionReviews
<1>5. /\ Direct(VisitRequests) /\ Direct(EventList)
      /\ Direct(GroupSuggestions) /\ Direct(EventTrace)
      /\ Direct(PlatformCenter)
  BY DEF VisitRequests, EventList, GroupSuggestions, EventTrace,
         PlatformCenter
<1> QED
  BY <1>1, <1>2, <1>3, <1>4, <1>5 DEF Views

(* The read under way asks what the controls ask; an answer to another      *)
(* question is only shown while a view loads that drops it if that fails.   *)
Answering ==
  Answers =>
    /\ read # None => read.question = question
    /\ shown # None /\ shown.question # question =>
         "load" \in view.ask /\ read # None /\ read.front = TRUE

LEMMA DirectView ==
  ASSUME Inv, Answers
  PROVE  /\ view.poll # "background"
         /\ view.command = FALSE
         /\ view.ask \cap {"load", "blank"} # {} =>
              view.askBusy = FALSE \/ view.guard # "busy"
         /\ "load" \in view.ask => /\ view.quiet = FALSE
                                   /\ view.drop = "always"
                                   /\ view.lost = "clear"
                                   /\ view.replaced # "keep"
                                   /\ "cancel" \notin view.rekey
<1>1. Direct(view) /\ Settling(view)
  BY DirectCatalogue DEF Inv, Sound, Types, Answers, Settling
<1> QED
  BY <1>1 DEF Direct, Settling

LEMMA RequestAnswering ==
  ASSUME Inv, Inv', view' = view, NEW kept, NEW front \in BOOLEAN,
         Request(kept, front),
         Answers =>
           /\ front = TRUE
           /\ kept # None /\ kept.question # question' => "load" \in view.ask
  PROVE  Answering'
<1> SUFFICES ASSUME Answers
             PROVE  /\ read' # None => read'.question = question'
                    /\ shown' # None /\ shown'.question # question' =>
                         /\ "load" \in view.ask
                         /\ read' # None /\ read'.front = TRUE
  BY DEF Answering, Answers
<1>1. CASE up'
  <2> DEFINE asked == [question |-> question', key |-> key', front |-> front,
                       answered |-> FALSE, rev |-> 0]
  <2>1. read' = asked /\ shown' \in {kept, None}
    BY <1>1, Zenon DEF Request
  <2>2. asked.question = question' /\ asked.front = front
    OBVIOUS
  <2>3. asked \in AnyRead
    BY DEF AnyRead, Inv, Sound, Types
  <2> HIDE DEF asked
  <2>4. read' # None
    BY <2>1, <2>3, Apart
  <2> QED
    BY <2>1, <2>2, <2>4
<1>2. CASE ~up'
  <2>1. /\ read' = None
        /\ shown' = IF ~view.quiet /\ (view.blank \/ view.drop = "always")
                    THEN None ELSE kept
    BY <1>2, Zenon DEF Request
  <2> QED
    BY <2>1, DirectView
<1> QED
  BY <1>1, <1>2

LEMMA UnchangedAnswering ==
  ASSUME Answering, UNCHANGED <<view, question, read, shown>>
  PROVE  Answering'
BY DEF Answering, Answers

(* A write waits alone, and what is shown then answers the question.        *)
LEMMA ClearAnswering ==
  ASSUME Inv, Answering, UNCHANGED <<view, question>>, read' = None,
         \/ shown' = None
         \/ shown' = shown /\ (read = None \/ ~("load" \in view.ask))
  PROVE  Answering'
BY DEF Answering, Answers

LEMMA LoadAnswering ==
  ASSUME Inv, Inv', Answering, Load, view' = view
  PROVE  Answering'
<1>1. question' = question
  BY DEF Load
<1>2. CASE Request(shown, TRUE)
  BY <1>1, <1>2, RequestAnswering DEF Answering
<1>3. CASE UNCHANGED <<read, shown>>
  BY <1>1, <1>3, UnchangedAnswering
<1> QED
  BY <1>2, <1>3 DEF Load

(* A changed question is asked at once, or nothing is shown.                *)
LEMMA AskAnswering ==
  ASSUME Inv, Inv', Answering, NEW q \in Question, Ask(q)
  PROVE  Answering'
<1>1. view' = view /\ question' = q
  BY DEF Ask
<1>2. CASE Reset
  BY <1>1, <1>2 DEF Reset, Answering
<1>3. CASE Request(IF "load" \in view.ask THEN shown ELSE None, TRUE)
  BY <1>1, <1>3, RequestAnswering
<1>4. CASE view.ask \cap {"load", "blank"} # {} /\ Busy /\ view.guard = "busy"
  <2>1. ~Answers
    BY <1>4, DirectView DEF Ask
  <2> QED
    BY <1>1, <2>1 DEF Answering, Answers
<1>5. CASE "type" \in view.ask
  BY <1>1, <1>5 DEF Answering, Answers
<1> QED
  BY <1>2, <1>3, <1>4, <1>5 DEF Ask

LEMMA HassUpdateAnswering ==
  ASSUME Inv, Inv', Answering, HassUpdate
  PROVE  Answering'
<1>1. UNCHANGED <<view, question>> /\ Request(shown, view.poll = "hass")
      /\ view.poll \in {"hass", "background"}
  BY DEF HassUpdate
<1>2. Answers => view.poll = "hass"
  BY <1>1, DirectView
<1> QED
  BY <1>1, <1>2, RequestAnswering DEF Answering

LEMMA WriteAnswering ==
  ASSUME Inv, Answering, NEW base \in Revisions, Write(base)
  PROVE  Answering'
BY UnchangedAnswering DEF Write

LEMMA AsideAnswering ==
  ASSUME Inv, Answering, Prepare \/ CloseReview \/ Retry \/ Hide \/ See
  PROVE  Answering'
BY UnchangedAnswering DEF Prepare, CloseReview, Retry, Hide, See

LEMMA CommandAnswering ==
  ASSUME Inv, Answering, CommandAnswered \/ CommandFailed
  PROVE  Answering'
<1>1. view.command = TRUE /\ view' = view
  BY Fits DEF CommandAnswered, CommandFailed, Inv, Aside, Fitting
<1>2. ~Answers
  BY <1>1, DirectView
<1> QED
  BY <1>1, <1>2 DEF Answering, Answers

LEMMA ServerAnswering ==
  ASSUME Inv, Inv', Answering,
         \/ ServerReads
         \/ ServerWrites
         \/ \E base \in Revisions : ServerLate(base)
         \/ OtherChange
  PROVE  Answering'
<1>1. UNCHANGED <<view, question, shown>>
  BY DEF ServerReads, ServerWrites, ServerLate, OtherChange
<1>2. CASE ServerReads
  <2>1. /\ read # None
        /\ read' = [read EXCEPT !.answered = TRUE, !.rev = rev]
    BY <1>2 DEF ServerReads
  <2>2. read' \in AnyRead /\ read'.question = read.question
        /\ read'.front = read.front
    BY <2>1 DEF AnyRead, Inv, Sound, Types
  <2> QED
    BY <1>1, <2>1, <2>2, Apart DEF Answering, Answers
<1>3. CASE ServerWrites \/ OtherChange
           \/ \E base \in Revisions : ServerLate(base)
  <2>1. read' = read
    BY <1>3 DEF ServerWrites, ServerLate, OtherChange
  <2> QED
    BY <1>1, <2>1, UnchangedAnswering
<1> QED
  BY <1>2, <1>3

LEMMA FollowAnswering ==
  ASSUME Inv, Inv', UNCHANGED <<view, question>>, NEW now, Follow(now),
         Answers => now = None \/ now.question = question
  PROVE  Answering'
<1>1. CASE Request(now, TRUE)
  BY <1>1, RequestAnswering
<1>2. CASE read' = None /\ shown' = now
  BY <1>2 DEF Answering, Answers
<1> QED
  BY <1>1, <1>2 DEF Follow

LEMMA ReadsAnswering ==
  ASSUME Inv, Inv', Answering, ReadAnswered \/ ReadFailed
  PROVE  Answering'
<1>1. UNCHANGED <<view, question>> /\ read # None
  BY DEF ReadAnswered, ReadFailed
<1>2. CASE ReadAnswered
  <2> DEFINE answer == [question |-> read.question, key |-> read.key,
                        rev |-> read.rev]
  <2>1. Follow(answer) /\ answer.question = read.question
    BY <1>2 DEF ReadAnswered
  <2>2. Answers => answer.question = question
    BY <1>1, <2>1 DEF Answering
  <2> HIDE DEF answer
  <2> QED
    BY <1>1, <2>1, <2>2, FollowAnswering
<1>3. CASE ReadFailed
  <2>1. PICK now \in Remains : Follow(now)
    BY <1>3 DEF ReadFailed
  <2>2. Answers => now = None \/ now.question = question
    BY <2>1, DirectView DEF Remains, Answering
  <2> QED
    BY <1>1, <2>1, <2>2, FollowAnswering
<1> QED
  BY <1>2, <1>3

LEMMA WritesAnswering ==
  ASSUME Inv, Inv', Answering, WriteAnswered \/ WriteTimeout
  PROVE  Answering'
<1>1. UNCHANGED <<view, question>> /\ read = None
  BY DEF WriteAnswered, WriteTimeout, Inv, Sound, Alone
<1>2. CASE /\ shown' = [question |-> question, key |-> key,
                        rev |-> write.base + 1]
           /\ read' = read
  <2>1. shown'.question = question
    BY <1>2
  <2> QED
    BY <1>1, <1>2, <2>1 DEF Answering, Answers
<1>3. CASE Request(shown, TRUE)
  BY <1>1, <1>3, RequestAnswering DEF Answering
<1>4. CASE (FailWrite(FALSE) \/ FailWrite(TRUE)) /\ UNCHANGED read
  <2>1. shown' \in {shown, None}
    BY <1>4 DEF FailWrite, Remains
  <2> QED
    BY <1>1, <1>4, <2>1, ClearAnswering
<1> QED
  BY <1>2, <1>3, <1>4 DEF WriteAnswered, WriteTimeout

LEMMA StartOverAnswering ==
  ASSUME Inv, Inv', UNCHANGED <<view, question>>, NEW loads \in BOOLEAN,
         StartOver(loads)
  PROVE  Answering'
<1>1. CASE loads
  <2>1. Request(None, view.poll # "background")
    BY <1>1 DEF StartOver
  <2>2. Answers => view.poll # "background"
    BY DirectView
  <2> QED
    BY <2>1, <2>2, RequestAnswering
<1>2. CASE ~loads
  BY <1>2 DEF StartOver, Reset, Answering
<1> QED
  BY <1>1, <1>2

LEMMA FailRequestsAnswering ==
  ASSUME Inv, Answering, UNCHANGED <<view, question>>, FailRequests,
         view.lost = "keep" \/ view.replaced = "keep"
  PROVE  Answering'
<1>1. read' = None /\ shown' \in {shown, None}
  BY DEF FailRequests, FailWrite, Remains
<1>2. Answers => "load" \notin view.ask
  BY DirectView
<1> QED
  BY <1>1, <1>2 DEF Answering, Answers

LEMMA ConnectionAnswering ==
  ASSUME Inv, Inv', Answering,
         ConnectionLost \/ ConnectionReady \/ ConnectionReplaced
  PROVE  Answering'
<1>1. UNCHANGED <<view, question>>
  BY DEF ConnectionLost, ConnectionReady, ConnectionReplaced
<1>2. CASE ConnectionLost
  BY <1>1, <1>2, FailRequestsAnswering DEF ConnectionLost, Reset, Answering
<1>3. CASE ConnectionReady
  BY <1>1, <1>3, RequestAnswering, UnchangedAnswering
  DEF ConnectionReady, Answering
<1>4. CASE ConnectionReplaced
  BY <1>1, <1>4, FailRequestsAnswering, StartOverAnswering
  DEF ConnectionReplaced
<1> QED
  BY <1>2, <1>3, <1>4

LEMMA SessionAnswering ==
  ASSUME Inv, Inv', Answering,
         \/ \E way \in {"clear", "reload", "cancel"} : Rekey(way)
         \/ Remount
  PROVE  Answering'
<1>1. CASE Remount
  BY <1>1, StartOverAnswering, Fits DEF Remount, Fitting
<1>2. ASSUME NEW way \in {"clear", "reload", "cancel"}, Rekey(way)
      PROVE  Answering'
  <2>1. UNCHANGED <<view, question>>
    BY <1>2 DEF Rekey
  <2>2. CASE way = "cancel" /\ read' = None /\ shown' = shown
    <3>1. Answers => "load" \notin view.ask
      BY <1>2, <2>2, DirectView DEF Rekey
    <3> QED
      BY <2>1, <2>2, <3>1 DEF Answering, Answers
  <2>3. CASE StartOver(way = "reload")
    BY <2>1, <2>3, StartOverAnswering
  <2> QED
    BY <1>2, <2>2, <2>3 DEF Rekey
<1> QED
  BY <1>1, <1>2

LEMMA DemoteAnswering ==
  ASSUME Inv, Inv', Answering, Demote
  PROVE  Answering'
BY RequestAnswering, UnchangedAnswering DEF Demote, Answering

LEMMA NextAnswering == ASSUME Inv, Answering, Next PROVE Answering'
<1>1. Inv'
  BY StepKeeps
<1>2. CASE Refresh \/ Poll \/ PollActive
  BY <1>1, <1>2, LoadAnswering DEF Refresh, Poll, PollActive
<1> QED
  BY <1>1, <1>2, AskAnswering, HassUpdateAnswering, WriteAnswering,
     AsideAnswering, CommandAnswering, ServerAnswering, ReadsAnswering,
     WritesAnswering, ConnectionAnswering, SessionAnswering, DemoteAnswering
  DEF Next

(* A view that has come to rest shows no answer to an earlier question of   *)
(* its controls, whatever failed or was given up, if each of its choices    *)
(* loads or clears and a failed load leaves no older answer (the epochs     *)
(* compared by every load, unified-search.ts search, events.ts              *)
(* applyFilters, permission-reviews.ts load).                               *)
THEOREM SettledViewsAnswer == Spec => []SettledAnswersQuestion
<1>1. Init => Answering
  <2> SUFFICES ASSUME Init PROVE Answering
    OBVIOUS
  <2>1. read # None => read.question = question
    BY DEF Init
  <2> QED
    BY <2>1 DEF Init, Answering
<1>2. Inv /\ Answering /\ [Next]_vars => Answering'
  BY NextAnswering, UnchangedAnswering DEF vars
<1>3. Inv /\ Answering => SettledAnswersQuestion
  BY DEF Answering, SettledAnswersQuestion, Busy
<1> QED
  BY <1>1, <1>2, <1>3, Invariance, PTL DEF Spec
-----------------------------------------------------------------------------
(* A write sent, or given up, that the server would still execute.          *)
Owed == (write # None /\ write.state = "sent" /\ write.base = rev)
        \/ rev \in orphans

(* Every revision and every session was paid for by something outside, and  *)
(* so is the revision that a write owed will make.                          *)
Bounded ==
  /\ outside \in 0..MaxOutside
  /\ key <= outside
  /\ rev <= outside
  /\ Owed => rev < outside
  /\ orphans \subseteq 0..rev
  /\ write # None => write.base <= rev
  /\ read # None => read.rev <= rev

(* A step of the view other than a write: the server's data stays, a write  *)
(* under way goes on, is answered or is given up, and a new read knows no   *)
(* revision yet.                                                            *)
ViewStep ==
  /\ rev' = rev
  /\ outside' \in {outside} \/ Outside
  /\ key' = key \/ (key' = key + 1 /\ Outside)
  /\ \/ UNCHANGED <<write, orphans>>
     \/ write' = None /\ orphans' = orphans
     \/ LeaveWrite
  /\ \/ read' \in {read, None}
     \/ read'.rev = 0
     \/ read # None /\ read'.rev = read.rev

LEMMA ViewStepBounded ==
  ASSUME Inv, Bounded, ViewStep
  PROVE  Bounded'
<1>1. rev \in Nat /\ key \in Nat /\ rev' = rev
  BY DEF Inv, Sound, Types, ViewStep
<1>2. /\ outside' \in 0..MaxOutside
      /\ outside <= outside'
      /\ key' <= outside'
  BY <1>1, ViewsAssumption DEF ViewStep, Outside, Bounded
<1>3. read' # None => read'.rev <= rev
  BY <1>1 DEF ViewStep, Bounded
<1>4. /\ Owed' => Owed
      /\ orphans' \subseteq 0..rev
      /\ write' # None => write'.base <= rev
  <2>1. CASE orphans' = orphans /\ (write' = write \/ write' = None)
    BY <1>1, <2>1 DEF Owed, Bounded
  <2>2. CASE LeaveWrite
    <3>1. write # None => write.base \in 0..rev
      BY <1>1 DEF Bounded, Inv, Sound, Types, AnyWrite
    <3>2. /\ write' = None
          /\ \A r \in orphans' :
               r \in orphans \/ (write # None /\ write.state = "sent"
                                 /\ r = write.base)
      BY <2>2 DEF LeaveWrite
    <3>3. orphans' \subseteq 0..rev
      BY <3>1, <3>2 DEF Bounded
    <3>4. Owed' => Owed
      BY <1>1, <3>2 DEF Owed
    <3> QED
      BY <3>2, <3>3, <3>4
  <2> QED
    BY <2>1, <2>2 DEF ViewStep
<1> QED
  BY <1>1, <1>2, <1>3, <1>4 DEF Bounded

LEMMA RequestRev ==
  ASSUME NEW kept, NEW front, Request(kept, front)
  PROVE  read' = None \/ read'.rev = 0
<1>1. CASE up'
  <2>1. read' = [question |-> question', key |-> key', front |-> front,
                 answered |-> FALSE, rev |-> 0]
    BY <1>1, Zenon DEF Request
  <2> QED
    BY <2>1
<1>2. CASE ~up'
  BY <1>2, Zenon DEF Request
<1> QED
  BY <1>1, <1>2

LEMMA FollowStep ==
  ASSUME NEW now, Follow(now)
  PROVE  read' = None \/ read'.rev = 0
BY RequestRev DEF Follow

LEMMA LoadStep ==
  ASSUME Inv, Bounded, Load, rev' = rev, outside' = outside \/ Outside
  PROVE  ViewStep
<1>1. UNCHANGED <<key, write, orphans>>
  BY DEF Load, NoWrite
<1>2. CASE Request(shown, TRUE)
  BY <1>1, <1>2, RequestRev DEF ViewStep
<1>3. CASE UNCHANGED read
  BY <1>1, <1>3 DEF ViewStep
<1> QED
  BY <1>2, <1>3 DEF Load

LEMMA AskStep ==
  ASSUME Inv, Bounded, NEW q \in Question, Ask(q)
  PROVE  ViewStep
<1>1. UNCHANGED <<key, rev, write, orphans>> /\ Outside
  BY DEF Ask, NoWrite
<1>2. CASE read' \in {read, None}
  BY <1>1, <1>2 DEF ViewStep
<1>3. CASE Request(IF "load" \in view.ask THEN shown ELSE None, TRUE)
  BY <1>1, <1>3, RequestRev DEF ViewStep
<1> QED
  BY <1>2, <1>3 DEF Ask, Reset

LEMMA HassUpdateStep == ASSUME Inv, Bounded, HassUpdate PROVE ViewStep
<1>1. UNCHANGED <<key, rev, outside, write, orphans>>
      /\ Request(shown, view.poll = "hass")
  BY DEF HassUpdate, NoWrite
<1> QED
  BY <1>1, RequestRev DEF ViewStep

LEMMA AsideStep ==
  ASSUME Inv, Bounded, Prepare \/ CloseReview \/ Retry \/ Hide \/ See
  PROVE  ViewStep
BY DEF Prepare, CloseReview, Retry, Hide, See, ViewStep

LEMMA CommandStep ==
  ASSUME Inv, Bounded, CommandAnswered \/ CommandFailed
  PROVE  ViewStep
<1>1. /\ UNCHANGED <<key, rev, write, orphans>>
      /\ outside' = outside \/ Outside
  BY DEF CommandAnswered, CommandFailed, NoWrite
<1>2. CASE CommandAnswered
  <2>1. read' = None \/ read'.rev = 0
    BY <1>2, RequestRev DEF CommandAnswered
  <2> QED
    BY <1>1, <2>1 DEF ViewStep
<1>3. CASE CommandFailed
  <2>1. CASE read = None
    BY <1>1, <1>3, <2>1 DEF CommandFailed, ViewStep
  <2>2. CASE read # None
    <3>1. read' = [read EXCEPT !.front = FALSE] /\ read \in AnyRead
      BY <1>3, <2>2 DEF CommandFailed, Inv, Sound, Types
    <3>2. read'.rev = read.rev
      BY <3>1 DEF AnyRead
    <3> QED
      BY <1>1, <2>2, <3>2 DEF ViewStep
  <2> QED
    BY <2>1, <2>2
<1> QED
  BY <1>2, <1>3

LEMMA ReadsStep ==
  ASSUME Inv, Bounded, ReadAnswered \/ ReadFailed
  PROVE  ViewStep
<1>1. UNCHANGED <<key, rev, write, orphans>>
      /\ (outside' = outside \/ Outside)
  BY DEF ReadAnswered, ReadFailed, NoWrite, Inv, Sound, Alone
<1>2. \E now : Follow(now)
  BY Zenon DEF ReadAnswered, ReadFailed
<1>3. read' = None \/ read'.rev = 0
  BY <1>2, FollowStep
<1> QED
  BY <1>1, <1>3 DEF ViewStep

LEMMA WritesStep ==
  ASSUME Inv, Bounded, WriteAnswered \/ WriteTimeout
  PROVE  ViewStep
<1>1. UNCHANGED <<key, rev>>
  BY DEF WriteAnswered, WriteTimeout
<1>2. CASE WriteAnswered
  <2>1. write' = None /\ orphans' = orphans /\ outside' = outside
    BY <1>2 DEF WriteAnswered
  <2>2. CASE read' = read
    BY <1>1, <2>1, <2>2 DEF ViewStep
  <2>3. CASE Request(shown, TRUE)
    BY <1>1, <2>1, <2>3, RequestRev DEF ViewStep
  <2> QED
    BY <1>2, <2>2, <2>3 DEF WriteAnswered
<1>3. CASE WriteTimeout
  BY <1>1, <1>3 DEF WriteTimeout, AbandonWrite, ViewStep
<1> QED
  BY <1>2, <1>3

LEMMA StartOverStep ==
  ASSUME NEW loads, StartOver(loads)
  PROVE  LeaveWrite /\ (read' = None \/ read'.rev = 0)
<1>1. LeaveWrite
  BY DEF StartOver, AbandonWrite
<1>2. CASE Request(None, view.poll # "background")
  BY <1>1, <1>2, RequestRev
<1>3. CASE Reset
  BY <1>1, <1>3 DEF Reset
<1> QED
  BY <1>2, <1>3 DEF StartOver

LEMMA ConnectionStep ==
  ASSUME Inv, Bounded, ConnectionLost \/ ConnectionReady \/ ConnectionReplaced
  PROVE  ViewStep
<1>1. UNCHANGED <<key, rev>>
  BY DEF ConnectionLost, ConnectionReady, ConnectionReplaced
<1>2. CASE ConnectionLost
  BY <1>1, <1>2
  DEF ConnectionLost, FailRequests, AbandonWrite, Reset, ViewStep
<1>3. CASE ConnectionReady
  <2>1. UNCHANGED <<outside, write, orphans>>
    BY <1>3 DEF ConnectionReady, NoWrite
  <2>2. CASE Request(shown, TRUE)
    BY <1>1, <2>1, <2>2, RequestRev DEF ViewStep
  <2>3. CASE UNCHANGED read
    BY <1>1, <2>1, <2>3 DEF ViewStep
  <2> QED
    BY <1>3, <2>2, <2>3 DEF ConnectionReady
<1>4. CASE ConnectionReplaced
  <2>1. Outside
    BY <1>4 DEF ConnectionReplaced
  <2>2. CASE FailRequests
    BY <1>1, <2>1, <2>2 DEF FailRequests, AbandonWrite, ViewStep
  <2>3. CASE StartOver(view.replaced = "reload")
    BY <1>1, <2>1, <2>3, StartOverStep DEF ViewStep
  <2> QED
    BY <1>4, <2>2, <2>3 DEF ConnectionReplaced
<1> QED
  BY <1>2, <1>3, <1>4

LEMMA SessionStep ==
  ASSUME Inv, Bounded,
         \/ \E way \in {"clear", "reload", "cancel"} : Rekey(way)
         \/ Demote
         \/ Remount
  PROVE  ViewStep
<1>1. rev' = rev /\ Outside
  BY DEF Rekey, Demote, Remount
<1>2. CASE /\ key' = key + 1
           /\ \E loads : StartOver(loads)
  BY <1>1, <1>2, StartOverStep DEF ViewStep
<1>3. CASE /\ read' = None
           /\ AbandonWrite
           /\ key' = key
  BY <1>1, <1>3 DEF AbandonWrite, ViewStep
<1>4. CASE Remount
  BY <1>2, <1>4, Zenon DEF Remount
<1>5. CASE \E way \in {"clear", "reload", "cancel"} : Rekey(way)
  BY <1>2, <1>3, <1>5, Zenon DEF Rekey
<1>6. CASE Demote
  <2>1. read' \in {read, None} \/ read'.rev = 0
    BY <1>6, RequestRev DEF Demote
  <2> QED
    BY <1>1, <1>6, <2>1 DEF Demote, ViewStep
<1> QED
  BY <1>4, <1>5, <1>6

LEMMA WriteBounded ==
  ASSUME Inv, Bounded, NEW base \in Revisions, Write(base)
  PROVE  Bounded'
<1>1. /\ UNCHANGED <<key, rev, read, orphans>>
      /\ Outside
      /\ write' = [base |-> base, state |-> "sent"]
  BY DEF Write
<1>2. write'.base <= rev /\ rev \in Nat /\ key \in Nat
  <2>1. base \in Nat /\ rev \in Nat /\ key \in Nat
    BY ViewsAssumption DEF Revisions, Inv, Sound, Types
  <2>2. shown # None => shown.rev \in Nat /\ shown.rev <= rev
    BY DEF Inv, Sound, Types, Ordered, AnyShown
  <2>3. base <= rev
    BY <2>1, <2>2 DEF Write
  <2> QED
    BY <1>1, <2>1, <2>3
<1>3. outside' \in 0..MaxOutside /\ outside' = outside + 1 /\ rev < outside'
      /\ key <= outside'
  BY <1>1, <1>2, ViewsAssumption DEF Outside, Bounded
<1>4. /\ orphans' \subseteq 0..rev'
      /\ read' # None => read'.rev <= rev'
  BY <1>1 DEF Bounded
<1>5. key' <= outside' /\ rev' < outside' /\ rev' <= outside'
      /\ write'.base <= rev'
  BY <1>1, <1>2, <1>3 DEF Bounded
<1> QED
  BY <1>3, <1>4, <1>5 DEF Bounded

(* The server makes a new revision for a write that is owed, or for another *)
(* operator, and owes none then.                                            *)
LEMMA ServerBounded ==
  ASSUME Inv, Bounded,
         \/ ServerReads
         \/ ServerWrites
         \/ \E base \in Revisions : ServerLate(base)
         \/ OtherChange
  PROVE  Bounded'
<1>1. key' = key /\ key \in Nat /\ rev \in Nat
  BY DEF ServerReads, ServerWrites, ServerLate, OtherChange, Inv, Sound, Types
<1>2. CASE ServerReads
  <2>1. /\ read' = [read EXCEPT !.answered = TRUE, !.rev = rev]
        /\ read \in AnyRead
        /\ UNCHANGED <<rev, write, orphans, outside>>
    BY <1>2 DEF ServerReads, Inv, Sound, Types
  <2>2. read'.rev = rev
    BY <2>1 DEF AnyRead
  <2> QED
    BY <1>1, <2>1, <2>2 DEF Bounded, Owed
<1>3. CASE ServerWrites
  <2>1. /\ write \in AnyWrite /\ write # None /\ write.state = "sent"
        /\ UNCHANGED <<read, orphans, outside>>
    BY <1>3 DEF ServerWrites, Inv, Sound, Types
  <2>2. CASE write.base = rev
    <3>1. rev' = rev + 1 /\ write'.base = write.base /\ write'.state = "done"
      BY <1>3, <2>1, <2>2 DEF ServerWrites, AnyWrite
    <3>2. rev < outside
      BY <2>1, <2>2 DEF Bounded, Owed
    <3>3. ~Owed'
      BY <1>1, <2>1, <2>2, <3>1 DEF Owed, Bounded
    <3>4. read # None => read.rev \in Nat
      BY DEF Inv, Sound, Types, AnyRead
    <3> QED
      BY <1>1, <2>1, <2>2, <3>1, <3>2, <3>3, <3>4 DEF Bounded
  <2>3. CASE write.base # rev
    <3>1. rev' = rev /\ write'.base = write.base /\ write'.state = "refused"
      BY <1>3, <2>1, <2>3 DEF ServerWrites, AnyWrite
    <3> QED
      BY <1>1, <2>1, <3>1 DEF Bounded, Owed
  <2> QED
    BY <2>2, <2>3
<1>4. ASSUME NEW base \in Revisions, ServerLate(base) PROVE Bounded'
  <2>1. /\ base \in orphans /\ orphans' = orphans \ {base}
        /\ UNCHANGED <<read, write, outside>>
        /\ rev' = IF base = rev THEN rev + 1 ELSE rev
    BY <1>4 DEF ServerLate
  <2>2. CASE base = rev
    <3>1. rev < outside /\ rev' = rev + 1
      BY <2>1, <2>2 DEF Bounded, Owed
    <3>2. /\ read # None => read.rev \in Nat
          /\ write # None => write.base \in Nat
      BY DEF Inv, Sound, Types, AnyRead, AnyWrite
    <3>3. ~Owed'
      BY <1>1, <2>1, <3>1, <3>2 DEF Owed, Bounded
    <3> QED
      BY <1>1, <2>1, <3>1, <3>2, <3>3 DEF Bounded
  <2>3. CASE base # rev
    BY <1>1, <2>1, <2>3 DEF Bounded, Owed
  <2> QED
    BY <2>2, <2>3
<1>5. CASE OtherChange
  <2>1. rev' = rev + 1 /\ Outside /\ UNCHANGED <<read, write, orphans>>
    BY <1>5 DEF OtherChange
  <2>2. /\ read # None => read.rev \in Nat
        /\ write # None => write.base \in Nat
    BY DEF Inv, Sound, Types, AnyRead, AnyWrite
  <2>3. ~Owed'
    BY <1>1, <2>1, <2>2 DEF Owed, Bounded
  <2> QED
    BY <1>1, <2>1, <2>2, <2>3, ViewsAssumption DEF Bounded, Outside
<1> QED
  BY <1>2, <1>3, <1>4, <1>5

LEMMA NextBounded == ASSUME Inv, Bounded, Next PROVE Bounded'
<1>1. CASE Refresh \/ Poll \/ PollActive
  BY <1>1, LoadStep, ViewStepBounded DEF Refresh, Poll, PollActive
<1> QED
  BY <1>1, AskStep, HassUpdateStep, AsideStep, CommandStep, ReadsStep,
     WritesStep, ConnectionStep, SessionStep, ViewStepBounded, WriteBounded,
     ServerBounded
  DEF Next

(* Every variable of a view keeps its type, and neither the server's        *)
(* revision nor the count of sessions exceeds what happened outside: a      *)
(* write that a view gave up is executed at most once.                      *)
THEOREM ViewsTyped == Spec => []TypeOK
<1>1. Init => Bounded
  <2> SUFFICES ASSUME Init PROVE Bounded
    OBVIOUS
  <2>1. /\ key = 0 /\ rev = 0 /\ outside = 0
        /\ write = None /\ orphans = {}
        /\ read # None => read.rev = 0
    BY DEF Init
  <2>2. ~Owed
    BY <2>1 DEF Owed
  <2>3. outside \in 0..MaxOutside /\ key <= outside /\ rev <= outside
    BY <2>1, ViewsAssumption
  <2>4. read # None => read.rev <= rev
    BY <2>1
  <2>5. /\ orphans \subseteq 0..rev
        /\ write # None => write.base <= rev
    BY <2>1
  <2> QED
    BY <2>2, <2>3, <2>4, <2>5 DEF Bounded
<1>2. Inv /\ Bounded /\ [Next]_vars => Bounded'
  BY NextBounded DEF vars, Bounded, Owed
<1>3. ASSUME Inv, Bounded PROVE TypeOK
  <2>1. rev \in Revisions /\ key \in Keys /\ outside \in 0..MaxOutside
    BY <1>3, ViewsAssumption DEF Inv, Sound, Types, Bounded, Revisions, Keys
  <2>2. read \in Reads \cup {None}
    BY <1>3, <2>1, ViewsAssumption
    DEF Inv, Sound, Types, Bounded, InSession, Reads, AnyRead, Revisions, Keys
  <2>3. write \in Writes \cup {None}
    BY <1>3, <2>1, ViewsAssumption
    DEF Inv, Sound, Types, Bounded, Writes, AnyWrite, Revisions
  <2>4. shown \in Shown \cup {None}
    BY <1>3, <2>1, ViewsAssumption
    DEF Inv, Sound, Types, Ordered, InSession, Shown, AnyShown, Revisions, Keys
  <2>5. orphans \subseteq Revisions
    BY <1>3, <2>1, ViewsAssumption DEF Inv, Sound, Types, Bounded, Revisions
  <2> QED
    BY <1>3, <2>1, <2>2, <2>3, <2>4, <2>5
    DEF TypeOK, Inv, Sound, Types, Aside, Bounded
<1> QED
  BY <1>1, <1>2, <1>3, Invariance, PTL DEF Spec
=============================================================================
