---------------------------- MODULE PanelSession ----------------------------
(***************************************************************************)
(* The panel's session (panel.ts): who is authorised, whether the screen   *)
(* is locked, the overview shown, and the subscription that tells it of    *)
(* changes; with the server's side of the connection (websocket.py,        *)
(* panel_security.py).  The two exchange messages in order; a handler runs *)
(* from one message, timer or callback to its next await.                  *)
(*                                                                         *)
(* Raising _epoch always goes with cancelRequests: the reads under way are *)
(* aborted, so their messages are removed here, and a connect() under way  *)
(* is forgotten (pending): whatever it obtains, it gives back.  Messages   *)
(* of a connection that was replaced have no effect, and are removed too.  *)
(***************************************************************************)
EXTENDS Naturals, Sequences, FiniteSets, SequencesExt

CONSTANTS
  None,         \* no subscription, or no overview
  Sub,          \* identities of subscriptions, at least as many as can coexist
  MaxOutside    \* bound on what happens outside the panel

ASSUME SessionAssumption ==
  /\ MaxOutside \in Nat
  /\ None \notin Sub \cup Nat

VARIABLES
  attached,     \* isConnected
  up,           \* the websocket is open
  session,      \* _session: "none", or whether it is "allowed" or "denied"
  locked,       \* _locked
  data,         \* _data: None, or its revision
  reading,      \* _refreshing
  again,        \* _refreshAgain
  pending,      \* the subscription connect() waits for (_connecting)
  held,         \* _unsubscribe
  toServer,     \* messages to the server, in order
  toPanel,      \* messages to the panel, in order
  idle,         \* an idle policy is set
  granted,      \* the user may use the panel
  serverLocked, \* the lock of the connection
  served,       \* subscriptions the server keeps
  dirty,        \* those with a notification timer under way
  rev,          \* revision of the server's data
  sealed,       \* the screen was locked and nobody has proved who he is since
  outside       \* what happened outside so far

panel == <<attached, session, locked, data, reading, again, pending, held>>
server == <<granted, serverLocked, served, dirty, rev>>
vars == <<panel, up, toServer, toPanel, idle, server, sealed, outside>>
-----------------------------------------------------------------------------
Ask(kind) == [kind |-> kind]
About(kind, id) == [kind |-> kind, id |-> id]
Event(id, what) == [kind |-> "event", id |-> id, what |-> what]
SessionIs(allowed, lock) ==
  [kind |-> "session", allowed |-> allowed, locked |-> lock]
Overview(what) == [kind |-> "overview", what |-> what, rev |-> rev]

Kinds(q) == {q[i].kind : i \in DOMAIN q}
Addressed == {"subscribe", "unsubscribe", "subscribed", "refused", "event"}
Ids(q) == {q[i].id : i \in {j \in DOMAIN q : q[j].kind \in Addressed}}

(* Of the kinds removed there is one message at most (Single).              *)
Without(kind, q) ==
  IF kind \in Kinds(q)
  THEN RemoveAt(q, CHOOSE i \in DOMAIN q : q[i].kind = kind) ELSE q

Single(kind, q) ==
  \A i, j \in DOMAIN q : q[i].kind = kind /\ q[j].kind = kind => i = j

IfHeld(q) == IF held = None THEN <<>> ELSE q

TypeOK ==
  /\ attached \in BOOLEAN
  /\ up \in BOOLEAN
  /\ session \in {"none", "allowed", "denied"}
  /\ locked \in BOOLEAN
  /\ data \in 0..MaxOutside \cup {None}
  /\ reading \in BOOLEAN
  /\ again \in BOOLEAN
  /\ pending \in Sub \cup {None}
  /\ held \in Sub \cup {None}
  /\ Kinds(toServer) \subseteq
       {"session", "subscribe", "unsubscribe", "overview", "lock"}
  /\ Kinds(toPanel) \subseteq
       {"session", "subscribed", "refused", "overview", "event", "proved"}
  /\ reading <=> "overview" \in Kinds(toServer) \cup Kinds(toPanel)
  /\ ~("overview" \in Kinds(toServer) /\ "overview" \in Kinds(toPanel))
  /\ Single("overview", toServer)
  /\ Single("overview", toPanel)
  /\ Single("proved", toPanel)
  /\ pending = None \/ held = None
  /\ idle \in BOOLEAN
  /\ granted \in BOOLEAN
  /\ serverLocked \in BOOLEAN
  /\ served \subseteq Sub
  /\ dirty \subseteq served
  /\ rev \in 0..MaxOutside
  /\ sealed \in BOOLEAN
  /\ outside \in 0..MaxOutside

Outside ==
  /\ outside < MaxOutside
  /\ outside' = outside + 1

(* An identity no message and nobody uses.                                  *)
Fresh ==
  CHOOSE id \in Sub :
    id \notin served \cup {pending, held} \cup Ids(toServer) \cup Ids(toPanel)

Init ==
  /\ attached = TRUE
  /\ up = TRUE
  /\ session = "none"
  /\ locked = FALSE
  /\ data = None
  /\ reading = FALSE
  /\ again = FALSE
  /\ pending = None
  /\ held = None
  /\ toServer = <<Ask("session")>>
  /\ toPanel = <<>>
  /\ idle \in BOOLEAN
  /\ granted \in BOOLEAN
  /\ serverLocked = idle
  /\ served = {}
  /\ dirty = {}
  /\ rev = 0
  /\ sealed = FALSE
  /\ outside = 0
-----------------------------------------------------------------------------
(* Parts of handlers.  Those that send are given what was sent before.      *)

Authorized == attached' /\ session' = "allowed"

(* refresh(): one read at a time, and one more if asked meanwhile.          *)
Refresh(sent) ==
  /\ reading' = (reading \/ (Authorized /\ up' /\ ~locked'))
  /\ again' = (again \/ (reading /\ Authorized /\ up' /\ ~locked'))
  /\ toServer' = IF reading' /\ ~reading
                 THEN Append(sent, Ask("overview")) ELSE sent

(* The read ends or is aborted; the loop of refresh() goes on if asked to,  *)
(* whether or not the screen is locked.                                     *)
EndRead(sent) ==
  /\ reading' = (again /\ Authorized /\ up')
  /\ again' = FALSE
  /\ toServer' = IF reading' THEN Append(sent, Ask("overview")) ELSE sent

(* connect(): nothing if there is a subscription or one is under way.       *)
CanConnect == held' = None /\ pending = None /\ Authorized /\ up'

Connect(sent) ==
  /\ pending' = IF CanConnect THEN Fresh ELSE pending
  /\ toServer' = IF CanConnect
                 THEN Append(sent, About("subscribe", Fresh)) ELSE sent

(* Everything under way is given up, the subscription included.             *)
Abandon(inbox, extra) ==
  /\ held' = None
  /\ pending' = None
  /\ toPanel' = Without("overview", inbox)
  /\ EndRead(IF up
             THEN Without("overview", toServer)
                    \o IfHeld(<<About("unsubscribe", held)>>) \o extra
             ELSE <<>>)

(* Mutant of LockScreen: the server is not told.                            *)
LockScreenAlone(inbox) ==
  /\ ~locked
  /\ locked' = TRUE
  /\ data' = None
  /\ sealed' = TRUE
  /\ Abandon(inbox, <<>>)

(* lockScreen(), when the screen is not locked yet.                         *)
LockScreen(inbox) ==
  /\ ~locked
  /\ locked' = TRUE
  /\ data' = None
  /\ sealed' = TRUE
  /\ Abandon(inbox, <<Ask("lock")>>)
-----------------------------------------------------------------------------
(* hass is assigned anew, with the same user and connection.                *)
HassUpdate ==
  /\ held = None
  /\ pending = None
  /\ attached
  /\ session = "allowed"
  /\ up
  /\ UNCHANGED <<attached, up, session, held>>
  /\ Connect(toServer)
  /\ UNCHANGED <<locked, data, reading, again, toPanel, idle, server, sealed,
                 outside>>

(* Mutant of Timer: it only reads while there is no subscription.           *)
TimerFallback ==
  /\ held = None
  /\ attached
  /\ session = "allowed"
  /\ ~locked
  /\ up
  /\ UNCHANGED <<attached, session, locked, up>>
  /\ Refresh(toServer)
  /\ UNCHANGED <<data, pending, held, toPanel, idle, server, sealed, outside>>

(* The timer of 30 seconds.                                                 *)
Timer ==
  /\ attached
  /\ session = "allowed"
  /\ ~locked
  /\ up
  /\ UNCHANGED <<attached, session, locked, up>>
  /\ Refresh(toServer)
  /\ UNCHANGED <<data, pending, held, toPanel, idle, server, sealed, outside>>

(* bootstrap() on a connection; without one it fails at once.               *)
Bootstrap(now) ==
  IF up' THEN session' = now /\ toServer' = Append(toServer, Ask("session"))
  ELSE session' = "none" /\ UNCHANGED toServer

NewConnection ==
  /\ up' = TRUE
  /\ toPanel' = <<>>
  /\ served' = {}
  /\ dirty' = {}
  /\ serverLocked' = idle
  /\ UNCHANGED rev

(* hass names another user, on a connection of its own.                     *)
SwitchUser ==
  /\ Outside
  /\ attached
  /\ NewConnection
  /\ granted' \in BOOLEAN
  /\ session' = "none"
  /\ data' = None
  /\ held' = None
  /\ pending' = None
  /\ reading' = FALSE
  /\ again' = FALSE
  /\ toServer' = <<Ask("session")>>
  /\ UNCHANGED <<attached, locked, idle, sealed>>

(* The user is no longer an administrator: the session starts over.         *)
RoleDropped ==
  /\ Outside
  /\ attached
  /\ up
  /\ session = "allowed"
  /\ session' = "none"
  /\ data' = None
  /\ UNCHANGED <<attached, up, locked, idle, sealed>>
  /\ Abandon(toPanel, <<Ask("session")>>)
  /\ granted' \in BOOLEAN
  /\ UNCHANGED <<serverLocked, served, dirty, rev>>

(* hass has another connection of the same user.                            *)
ReplaceConnection ==
  /\ Outside
  /\ attached
  /\ NewConnection
  /\ held' = None
  /\ reading' = (again /\ session = "allowed")
  /\ again' = FALSE
  /\ LET id == CHOOSE i \in Sub : TRUE
         wanted == IF session = "allowed" THEN <<About("subscribe", id)>>
                   ELSE <<>>
     IN /\ pending' = IF session = "allowed" THEN id ELSE None
        /\ toServer' = (IF reading' THEN <<Ask("overview")>> ELSE <<>>) \o wanted
  /\ UNCHANGED <<attached, session, locked, data, idle, granted, sealed>>

(* Mutant of Lose: the reads under way are not cancelled.                   *)
LosePatient ==
  /\ Outside
  /\ up
  /\ up' = FALSE
  /\ toServer' = <<>>
  /\ toPanel' = <<>>
  /\ served' = {}
  /\ dirty' = {}
  /\ session' = IF attached /\ "session" \in Kinds(toServer) \cup Kinds(toPanel)
                THEN "none" ELSE session
  /\ UNCHANGED <<attached, locked, data, reading, again, pending, held, idle,
                 granted, serverLocked, rev, sealed>>

(* The connection breaks: requests fail, subscriptions wait for the next.   *)
Lose ==
  /\ Outside
  /\ up
  /\ up' = FALSE
  /\ toServer' = <<>>
  /\ toPanel' = <<>>
  /\ served' = {}
  /\ dirty' = {}
  /\ session' = IF attached /\ "session" \in Kinds(toServer) \cup Kinds(toPanel)
                THEN "none" ELSE session
  /\ reading' = FALSE
  /\ again' = FALSE
  /\ UNCHANGED <<attached, locked, data, pending, held, idle, granted,
                 serverLocked, rev, sealed>>

(* The connection is back.  The library subscribes again, if preCheck       *)
(* agrees; the panel reads and connects.                                    *)
Ready ==
  /\ ~up
  /\ NewConnection
  /\ UNCHANGED <<attached, session, locked, data, held, idle, granted, sealed,
                 outside>>
  /\ again' = FALSE
  /\ reading' = (Authorized /\ ~locked)
  /\ LET kept == {held, pending} \ {None}
         id == CHOOSE i \in kept : TRUE
         wanted == IF Authorized
                   THEN <<About("subscribe", IF kept = {} THEN Fresh ELSE id)>>
                   ELSE <<>>
     IN /\ pending' = IF Authorized /\ kept = {} THEN Fresh ELSE pending
        /\ toServer' = (IF reading' THEN <<Ask("overview")>> ELSE <<>>) \o wanted

Detach ==
  /\ Outside
  /\ attached
  /\ attached' = FALSE
  /\ data' = None
  /\ UNCHANGED <<up, session, locked, idle, server, sealed>>
  /\ held' = None
  /\ pending' = None
  /\ reading' = FALSE
  /\ again' = FALSE
  /\ toPanel' = Without("proved", Without("overview", toPanel))
  /\ toServer' = IF up THEN Without("overview", toServer)
                              \o IfHeld(<<About("unsubscribe", held)>>)
                 ELSE <<>>

Attach ==
  /\ Outside
  /\ ~attached
  /\ attached' = TRUE
  /\ UNCHANGED <<up, locked, data, reading, again, pending, held, toPanel,
                 idle, server, sealed>>
  /\ Bootstrap(session)
-----------------------------------------------------------------------------
(* The panel handles the first message.                                     *)
First(kind) == toPanel # <<>> /\ Head(toPanel).kind = kind
Message == Head(toPanel)
Rest == Tail(toPanel)

(* The answer to bootstrap(), which says whether the screen is locked.      *)
SessionArrives ==
  /\ First("session")
  /\ UNCHANGED <<attached, up, idle, server, outside>>
  /\ session' = IF ~attached THEN session
                ELSE IF Message.allowed THEN "allowed" ELSE "denied"
  /\ \/ /\ attached
        /\ Message.locked
        /\ LockScreen(Rest)
     \/ /\ ~attached \/ (Message.locked /\ locked)
        /\ toPanel' = Rest
        /\ UNCHANGED <<locked, data, reading, again, pending, held, toServer,
                       sealed>>
     \/ /\ attached
        /\ ~Message.locked
        /\ locked' = FALSE
        /\ toPanel' = IF locked THEN Without("proved", Rest) ELSE Rest
        /\ held' = IF Message.allowed THEN held ELSE None
        /\ data' = IF Message.allowed THEN data ELSE None
        /\ Connect(IF Message.allowed THEN toServer ELSE
                   toServer \o IfHeld(<<About("unsubscribe", held)>>))
        /\ UNCHANGED <<reading, again, sealed>>

(* Mutant of SubscribedArrives: what connect() no longer waits for is kept.  *)
SubscribedKept ==
  /\ First("subscribed")
  /\ toPanel' = Rest
  /\ UNCHANGED <<attached, up, session, locked, data, idle, server, sealed,
                 outside>>
  /\ \/ /\ Message.id = pending
        /\ held' = pending
        /\ pending' = None
        /\ Refresh(toServer)
     \/ /\ Message.id # pending
        /\ UNCHANGED <<reading, again, pending, held, toServer>>

(* What connect() waited for; what nobody waits for is given back.          *)
SubscribedArrives ==
  /\ First("subscribed")
  /\ toPanel' = Rest
  /\ UNCHANGED <<attached, up, session, locked, data, idle, server, sealed,
                 outside>>
  /\ \/ /\ Message.id = pending
        /\ held' = pending
        /\ pending' = None
        /\ Refresh(toServer)
     \/ /\ Message.id # pending
        /\ toServer' = IF Message.id = held THEN toServer
                       ELSE Append(toServer, About("unsubscribe", Message.id))
        /\ UNCHANGED <<reading, again, pending, held>>

RefusedArrives ==
  /\ First("refused")
  /\ toPanel' = Rest
  /\ pending' = IF Message.id = pending THEN None ELSE pending
  /\ UNCHANGED <<attached, up, session, locked, data, reading, again, held,
                 toServer, idle, server, sealed, outside>>

(* The answer to the read of refresh().                                     *)
OverviewArrives ==
  /\ First("overview")
  /\ UNCHANGED <<attached, up, session, idle, server, outside>>
  /\ \/ /\ Message.what = "locked"
        /\ LockScreen(Rest)
     \/ /\ Message.what # "locked" \/ locked
        /\ data' = IF Message.what = "data" /\ session = "allowed"
                   THEN Message.rev ELSE data
        /\ toPanel' = Rest
        /\ EndRead(toServer)
        /\ UNCHANGED <<locked, pending, held, sealed>>

(* The callback of the subscription, or of one that was just given up.      *)
EventArrives ==
  /\ First("event")
  /\ UNCHANGED <<attached, up, locked, pending, idle, server, sealed, outside>>
  /\ \/ /\ Message.what = "access_revoked"
        /\ session' = "none"
        /\ data' = None
        /\ held' = None
        /\ toPanel' = Without("overview", Rest)
        /\ EndRead(Without("overview", toServer))
     \/ /\ Message.what # "access_revoked"
        /\ toPanel' = Rest
        /\ UNCHANGED <<session, data, held>>
        /\ Refresh(toServer)

(* The proof is accepted; the session starts over.                          *)
ProvedArrives ==
  /\ First("proved")
  /\ toPanel' = Rest
  /\ locked' = FALSE
  /\ toServer' = Append(toServer, Ask("session"))
  /\ UNCHANGED <<attached, up, session, data, reading, again, pending, held,
                 idle, server, sealed, outside>>
-----------------------------------------------------------------------------
(* Nobody touched the panel for as long as the policy says.                 *)
ClientIdle ==
  /\ Outside
  /\ idle
  /\ attached
  /\ session # "none"
  /\ UNCHANGED <<attached, up, session, idle, server>>
  /\ LockScreen(toPanel)

(* The server saw no activity for as long as the policy says.               *)
ServerIdle ==
  /\ Outside
  /\ idle
  /\ up
  /\ ~serverLocked
  /\ serverLocked' = TRUE
  /\ UNCHANGED <<panel, up, toServer, toPanel, idle, granted, served, dirty,
                 rev, sealed>>

(* The user proves who he is to the overlay of a locked panel.              *)
Prove ==
  /\ Outside
  /\ locked
  /\ attached
  /\ up
  /\ toServer = <<>>
  /\ "proved" \notin Kinds(toPanel)
  /\ serverLocked' = FALSE
  /\ sealed' = FALSE
  /\ toPanel' = Append(toPanel, Ask("proved"))
  /\ UNCHANGED <<panel, up, toServer, idle, granted, served, dirty, rev>>

(* A change of the access data.                                             *)
Change ==
  /\ Outside
  /\ rev' = rev + 1
  /\ dirty' = served
  /\ UNCHANGED <<panel, up, toServer, toPanel, idle, granted, serverLocked,
                 served, sealed>>

(* An administrator grants or revokes access to the panel; he does not      *)
(* grant again within the quarter of a second that a revocation takes to be *)
(* announced.                                                               *)
Permit ==
  /\ Outside
  /\ granted \/ dirty = {}
  /\ granted' = ~granted
  /\ dirty' = served
  /\ UNCHANGED <<panel, up, toServer, toPanel, idle, serverLocked, served, rev,
                 sealed>>
-----------------------------------------------------------------------------
(* send(), a quarter of a second after the first change.                    *)
Notify(id) ==
  /\ id \in dirty
  /\ dirty' = dirty \ {id}
  /\ LET what == IF serverLocked THEN "screen_locked"
                 ELSE IF granted THEN "refresh" ELSE "access_revoked"
     IN /\ toPanel' = Append(toPanel, Event(id, what))
        /\ served' = IF what = "refresh" THEN served ELSE served \ {id}
  /\ UNCHANGED <<panel, up, toServer, idle, granted, serverLocked, rev, sealed,
                 outside>>

(* The server handles the first message.                                    *)
Serve ==
  /\ toServer # <<>>
  /\ toServer' = Tail(toServer)
  /\ LET m == Head(toServer)
         Answer(a) == toPanel' = Append(toPanel, a)
     IN \/ /\ m.kind = "session"
           /\ Answer(SessionIs(granted, serverLocked))
           /\ UNCHANGED <<serverLocked, served, dirty>>
        \/ /\ m.kind = "subscribe"
           /\ Answer(About(IF granted THEN "subscribed" ELSE "refused", m.id))
           /\ served' = IF granted THEN served \cup {m.id} ELSE served
           /\ UNCHANGED <<serverLocked, dirty>>
        \/ /\ m.kind = "unsubscribe"
           /\ served' = served \ {m.id}
           /\ dirty' = dirty \ {m.id}
           /\ UNCHANGED <<toPanel, serverLocked>>
        \/ /\ m.kind = "overview"
           /\ Answer(Overview(IF ~granted THEN "refused"
                              ELSE IF serverLocked THEN "locked" ELSE "data"))
           /\ UNCHANGED <<serverLocked, served, dirty>>
        \/ /\ m.kind = "lock"
           /\ serverLocked' = TRUE
           /\ UNCHANGED <<toPanel, served, dirty>>
  /\ UNCHANGED <<panel, up, idle, granted, rev, sealed, outside>>
-----------------------------------------------------------------------------
Arrives ==
  \/ SessionArrives
  \/ SubscribedArrives
  \/ RefusedArrives
  \/ OverviewArrives
  \/ EventArrives
  \/ ProvedArrives

Next ==
  \/ HassUpdate
  \/ Timer
  \/ SwitchUser
  \/ RoleDropped
  \/ ReplaceConnection
  \/ Lose
  \/ Ready
  \/ Detach
  \/ Attach
  \/ Arrives
  \/ ClientIdle
  \/ ServerIdle
  \/ Prove
  \/ Change
  \/ Permit
  \/ \E id \in Sub : Notify(id)
  \/ Serve

Spec == Init /\ [][Next]_vars

(* Messages arrive, timers fire, and the library reconnects.                *)
FairSpec ==
  /\ Spec
  /\ WF_vars(Serve)
  /\ WF_vars(Arrives)
  /\ WF_vars(\E id \in Sub : Notify(id))
  /\ WF_vars(Timer)
  /\ WF_vars(HassUpdate)
  /\ WF_vars(Ready)
-----------------------------------------------------------------------------
(* After the screen was locked nothing is shown until somebody has proved   *)
(* who he is, whatever answers were under way and even over a reconnection  *)
(* (lockScreen, bootstrap, PanelSecurity.session).                          *)
SealedUntilProof == sealed => data = None

(* The server keeps no subscription the panel has forgotten (connect's      *)
(* comparison of epochs, the unsubscribing of every handler that abandons). *)
SubscriptionsKnown ==
  served \subseteq {held, pending} \cup Ids(toServer) \cup Ids(toPanel)
              \cup dirty

(* When the outside comes to rest, a panel in use shows the server's data.  *)
InUse == attached /\ up /\ session = "allowed" /\ ~locked

ShowsLatest == <>[](InUse /\ granted => data = rev)

(* "Clears private caches after effective grant changes": a panel whose     *)
(* user has lost access ends with no data.                                  *)
RevokedCleared == <>[](attached /\ up /\ ~granted => data = None)
=============================================================================
