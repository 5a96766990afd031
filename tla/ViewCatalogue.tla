--------------------------- MODULE ViewCatalogue ---------------------------
(***************************************************************************)
(* The views of the panel (frontend/src/*.ts), each as the set of its      *)
(* choices about the requests it makes.  PanelViews gives the choices      *)
(* their meaning.                                                          *)
(***************************************************************************)

(* guard     a load while the view is busy is ignored ("busy"), takes the   *)
(*           place of the running one ("supersede"), or follows it          *)
(*           ("queue")                                                      *)
(* attach    the view loads when it is attached                             *)
(* quiet     a load without a connection is ignored, not an error           *)
(* lost      what happens to the data when the connection breaks            *)
(* ready     the view loads when the connection is back                     *)
(* replaced  ... when the connection is another one                         *)
(* rekey     ... when the user, person, station or authorisation is another *)
(*           one; "cancel" gives up the requests only; when the right to    *)
(*           manage is lost, "demote" gives them up and loads anew, but     *)
(*           keeps the data, and "ignore" ignores the answer to a write     *)
(* ask       a new choice in the controls is loaded ("load"), clears what   *)
(*           is shown and is loaded ("blank"), only clears ("clear"), or    *)
(*           waits for the user to press a button ("type")                  *)
(* askBusy   the controls work while the view is busy                       *)
(* blank     a load clears what is shown when it starts                     *)
(* drop      a failure clears what is shown: never, always when a load      *)
(*           fails, or sometimes, for certain errors of the server          *)
(* poll      the view loads by itself: on a timer, only while jobs run      *)
(*           ("active"), on every update of hass ("hass"), or also in the   *)
(*           background of another load ("background")                      *)
(* visible   the timer waits while the page of the browser is hidden        *)
(* review    a write is prepared first, and reviewed while the timer waits  *)
(* write     a write's answer is shown ("shows"), or loaded ("reloads")     *)
(* needs     a write starts from the data shown                             *)
(* fail      after a failed write the view wants a reload before the next   *)
(*           ("uncertain"), only if the outcome is unknown ("unknown"),     *)
(*           drops the data ("drop"), or does nothing ("keep")              *)
(* command   the view sends commands that are not based on its data         *)
Default ==
  [guard |-> "busy", attach |-> TRUE, quiet |-> FALSE, lost |-> "keep",
   ready |-> FALSE, replaced |-> "reload", rekey |-> {}, ask |-> {},
   askBusy |-> FALSE, blank |-> FALSE, drop |-> "never", poll |-> "none",
   visible |-> FALSE, review |-> FALSE, write |-> "none", needs |-> TRUE,
   fail |-> "keep", command |-> FALSE]

(* Read on demand, forgotten whenever the surroundings change.              *)
OnDemand ==
  [Default EXCEPT !.attach = FALSE, !.replaced = "clear", !.rekey = {"clear"}]

PersonalRenewal ==
  [Default EXCEPT !.lost = "clear", !.rekey = {"reload"}, !.drop = "sometimes",
                  !.write = "shows", !.fail = "uncertain"]

UnifiedSearch ==
  [OnDemand EXCEPT !.guard = "supersede", !.lost = "clear",
                   !.ask = {"blank", "clear"}, !.askBusy = TRUE,
                   !.blank = TRUE, !.drop = "always"]

FleetAlerts ==
  [Default EXCEPT !.rekey = {"demote", "reload"}, !.ask = {"load"},
                  !.poll = "timer", !.visible = TRUE, !.review = TRUE,
                  !.write = "reloads", !.fail = "uncertain"]

OperationsCenter ==
  [Default EXCEPT !.quiet = TRUE, !.replaced = "keep", !.ask = {"load"},
                  !.askBusy = TRUE, !.poll = "background", !.command = TRUE]

ScheduleOperations ==
  [Default EXCEPT !.rekey = {"clear", "reload"}, !.poll = "active",
                  !.write = "reloads", !.needs = FALSE, !.fail = "unknown"]

AccessComparison ==
  [OnDemand EXCEPT !.lost = "clear", !.ask = {"clear"}, !.askBusy = TRUE,
                   !.blank = TRUE]

RenewalBindings ==
  [Default EXCEPT !.lost = "clear", !.rekey = {"clear", "reload"},
                  !.write = "shows", !.fail = "drop"]

MaintenanceQueue ==
  [Default EXCEPT !.quiet = TRUE, !.replaced = "keep",
                  !.rekey = {"cancel", "clear", "reload"}, !.poll = "timer",
                  !.visible = TRUE, !.write = "reloads"]

DataQuality ==
  [Default EXCEPT !.guard = "supersede", !.lost = "clear",
                  !.rekey = {"clear", "reload"}, !.ask = {"blank"},
                  !.drop = "always"]

ClockSettings ==
  [Default EXCEPT !.replaced = "keep", !.rekey = {"clear", "reload"},
                  !.write = "shows"]

PolicyVersions ==
  [OnDemand EXCEPT !.lost = "clear", !.ask = {"clear"}, !.blank = TRUE]

PermissionDirectory == [OnDemand EXCEPT !.ask = {"clear"}, !.askBusy = TRUE]

IdentityLifecycle ==
  [Default EXCEPT !.quiet = TRUE, !.replaced = "keep", !.ask = {"load"},
                  !.askBusy = TRUE, !.poll = "hass"]

AccessScenario ==
  [OnDemand EXCEPT !.lost = "clear", !.ask = {"clear"}, !.askBusy = TRUE,
                   !.blank = TRUE]

DoorPrograms ==
  [Default EXCEPT !.replaced = "keep", !.rekey = {"reload"},
                  !.write = "shows"]

HoldOpenForm ==
  [OnDemand EXCEPT !.replaced = "keep", !.ask = {"clear"}, !.blank = TRUE,
                   !.write = "shows", !.fail = "drop"]

(* A deletion is not given up with the right to manage, but not shown.      *)
GuestTemplates ==
  [Default EXCEPT !.rekey = {"demote", "ignore", "reload"},
                  !.write = "shows", !.fail = "uncertain"]

(* Its question, and that of the event list, is the filter applied, which   *)
(* pages and refreshes ask again; the one edited may differ until then.     *)
Investigations ==
  [Default EXCEPT !.rekey = {"clear", "reload"}, !.ask = {"blank"}]

AdminAudit ==
  [Default EXCEPT !.rekey = {"clear", "reload"}, !.ask = {"load", "type"},
                  !.askBusy = TRUE]

(* A failed decision drops the preview, so that one must be read again.     *)
PermissionReviews ==
  [Default EXCEPT !.guard = "supersede", !.lost = "clear",
                  !.rekey = {"clear", "reload"}, !.ask = {"load"},
                  !.drop = "always", !.write = "reloads",
                  !.fail = "uncertain"]

VisitRequests ==
  [Default EXCEPT !.rekey = {"clear", "reload"}, !.ask = {"load", "type"},
                  !.write = "reloads", !.fail = "uncertain"]

EventList ==
  [Default EXCEPT !.guard = "queue", !.quiet = TRUE, !.ready = TRUE,
                  !.rekey = {"clear", "reload"}, !.ask = {"blank"},
                  !.askBusy = TRUE]

GroupSuggestions ==
  [OnDemand EXCEPT !.lost = "clear", !.ask = {"clear"}, !.drop = "sometimes"]

EventTrace ==
  [OnDemand EXCEPT !.quiet = TRUE, !.write = "shows", !.needs = FALSE,
                   !.fail = "uncertain"]

PlatformCenter ==
  [Default EXCEPT !.replaced = "keep", !.rekey = {"clear", "reload"},
                  !.write = "reloads"]

(* Views that make the same choices are one record.                         *)
Views ==
  {PersonalRenewal, UnifiedSearch, FleetAlerts, OperationsCenter,
   ScheduleOperations, AccessComparison, RenewalBindings, MaintenanceQueue,
   DataQuality, ClockSettings, PolicyVersions, PermissionDirectory,
   IdentityLifecycle, AccessScenario, DoorPrograms, HoldOpenForm,
   GuestTemplates, Investigations, AdminAudit, PermissionReviews,
   VisitRequests, EventList, GroupSuggestions, EventTrace, PlatformCenter}
=============================================================================
