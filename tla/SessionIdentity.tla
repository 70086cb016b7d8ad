--------------------------- MODULE SessionIdentity ---------------------------
(***************************************************************************)
(* Who and in which session: the identity and the session manager of       *)
(* @sankofa/browser, the visibility handler that rotates sessions, and     *)
(* identify(), reset(), track() and peopleSet() of the client, in several  *)
(* tabs that share localStorage. Each tab also keeps its own copy of the   *)
(* session, in memory and in sessionStorage, and of the identity, in       *)
(* memory only; plugins learn of changes by notification.                  *)
(***************************************************************************)
EXTENDS Integers, FiniteSets, TLC

CONSTANTS Tabs, Users,
          Timeout,        \* ticks in the background after which a session ends
          MaxTime, MaxSessions, MaxAnons,
          MaxCalls        \* bounds; the last one on calls of the host and clearings

ASSUME BoundsAssumption == {Timeout, MaxTime, MaxSessions, MaxAnons, MaxCalls} \subseteq Nat

NoSession == [id |-> 0, bg |-> 0]       \* bg: lastBackgroundAt, 0 when never
NoIdentity == [anon |-> 0, distinct |-> 0]
Anonymous(a) == [anon |-> a, distinct |-> a]

VARIABLES
  now,          \* the clock, from 1
  stage,        \* of each tab: "down", "boot", "setup" (plugins), "ready"
  hidden,       \* the tabs in the background
  session,      \* of each tab: SankofaSessionManager._state, and, as both are
                \* always written together, what its sessionStorage holds
  identity,     \* of each tab: SankofaIdentity._state
  known,        \* of each tab: the session and distinct id its plugins were told
  stored,       \* localStorage: [session, identity]
  calls,        \* identify() calls and, by their two awaits, reset() calls
  sessions, anons, callCount,     \* ids drawn, calls and clearings
  owner,        \* history: for each session, the anonymous id of the tab
                \* that started it
  links,        \* history: the aliases queued, as <<anon, distinct>>, and
                \* those whose page went away before they could be
  visibleAt,    \* history: when each session was last in the foreground
  silent,       \* history: the tabs that changed without telling plugins
  unseen,       \* history: a tab went to the background unnoticed
  cleared,      \* history: localStorage was cleared
  raced,        \* history: the tabs whose session changed between the two
                \* notifications of a reset()
  crossReset    \* history: a reset() took place while another tab was open

tabState == <<stage, hidden, session, identity, known>>
history == <<owner, links, visibleAt, silent, raced, unseen, cleared, crossReset>>
vars == <<now, tabState, stored, calls, sessions, anons, callCount, history>>

Up(t) == stage[t] # "down"
Listening(t) == stage[t] = "ready"      \* the manager has its plugins

Init ==
  /\ now = 1
  /\ stage = [t \in Tabs |-> "down"] /\ hidden = {}
  /\ session = [t \in Tabs |-> NoSession]
  /\ identity = [t \in Tabs |-> NoIdentity]
  /\ known = [t \in Tabs |-> [sid |-> 0, distinct |-> 0]]
  /\ stored = [session |-> NoSession, identity |-> NoIdentity]
  /\ calls = {}
  /\ sessions = 0 /\ anons = 0 /\ callCount = 0
  /\ owner = [s \in 1 .. MaxSessions |-> 0] /\ links = {}
  /\ visibleAt = [s \in 1 .. MaxSessions |-> 0]
  /\ silent = {} /\ raced = {}
  /\ unseen = FALSE /\ cleared = FALSE /\ crossReset = FALSE

-----------------------------------------------------------------------------
(* The session manager.                                                    *)

Read(t) == IF stored.session # NoSession THEN stored.session ELSE session[t]

(* Mutant: the end of the timeout is compared with the wrong copy. *)
ExpiredOwn(t) == LET s == session[t] IN s.bg > 0 /\ now - s.bg > Timeout

Expired(t) == LET s == Read(t) IN s.bg > 0 /\ now - s.bg > Timeout

Saved(t, s) == session' = [session EXCEPT ![t] = s]

Fresh == [id |-> sessions + 1, bg |-> 0]
Drawn(anon) ==
  /\ sessions < MaxSessions /\ sessions' = sessions + 1
  /\ owner' = [owner EXCEPT ![sessions'] = anon]

(* refresh(): a session that lay in the background too long is replaced;   *)
(* otherwise the stored one is continued, whichever tab stored it. Its     *)
(* lastBackgroundAt stays.                                                 *)
Rotates(t) == Read(t) = NoSession \/ Expired(t)
Refreshed(t) == IF Rotates(t) THEN Fresh ELSE Read(t)
Refresh(t) ==
  /\ IF Rotates(t) THEN Drawn(identity[t].anon) ELSE UNCHANGED <<sessions, owner>>
  /\ Saved(t, Refreshed(t))
  /\ stored' = [stored EXCEPT !.session = Refreshed(t)]

Seen(t, sid) == visibleAt' = [visibleAt EXCEPT ![sid] = IF t \in hidden THEN @ ELSE now]

(* A reset() that has yet to tell the plugins of its session, and a change *)
(* of session meanwhile.                                                   *)
Telling(t) == \E c \in calls : c.call = "notify" /\ c.tab = t
Races(t) == raced' = IF Telling(t) /\ session'[t].id # session[t].id THEN raced \cup {t} ELSE raced

-----------------------------------------------------------------------------
(* A tab's life.                                                           *)

Constructed == IF stored.identity # NoIdentity THEN stored.identity ELSE Anonymous(anons + 1)

(* The constructors: the identity is read or drawn, and saved; the session *)
(* is refreshed. The rotation this may bring is not the one init() tracks. *)
Boot(t) ==
  /\ ~Up(t)
  /\ stage' = [stage EXCEPT ![t] = "boot"]
  /\ IF stored.identity # NoIdentity THEN UNCHANGED anons ELSE anons < MaxAnons /\ anons' = anons + 1
  /\ identity' = [identity EXCEPT ![t] = Constructed]
  /\ IF Rotates(t) THEN Drawn(Constructed.anon) ELSE UNCHANGED <<sessions, owner>>
  /\ Saved(t, Refreshed(t))
  /\ stored' = [session |-> Refreshed(t), identity |-> Constructed]
  /\ hidden' = hidden \ {t}
  /\ visibleAt' = [visibleAt EXCEPT ![session'[t].id] = now]
  /\ UNCHANGED <<now, known, calls, callCount, links, silent, raced, unseen, cleared, crossReset>>

(* The plugins take their snapshot; the manager lists them, and notifies   *)
(* them, only when the last one is set up.                                 *)
SetUp(t) ==
  /\ stage[t] = "boot"
  /\ stage' = [stage EXCEPT ![t] = "setup"]
  /\ known' = [known EXCEPT ![t] = [sid |-> session[t].id, distinct |-> identity[t].distinct]]
  /\ UNCHANGED <<now, hidden, session, identity, stored, calls, sessions, anons, callCount,
                 history>>

(* The end of init(): one more refresh, with $session_start if it rotates, *)
(* and the visibility handler is installed.                                *)
Ready(t) ==
  /\ stage[t] = "setup"
  /\ stage' = [stage EXCEPT ![t] = "ready"]
  /\ Refresh(t)
  /\ silent' = IF session'[t].id # session[t].id THEN silent \cup {t} ELSE silent
  /\ Seen(t, session'[t].id) /\ Races(t)
  /\ UNCHANGED <<now, hidden, identity, known, calls, anons, callCount, links, unseen,
                 cleared, crossReset>>

(* The handler saves the tab's own session, stale or not, over the stored  *)
(* one. Before init() has ended there is no handler.                       *)
Hide(t) ==
  /\ Up(t) /\ t \notin hidden
  /\ hidden' = hidden \cup {t}
  /\ IF Listening(t)
     THEN LET s == [session[t] EXCEPT !.bg = now]
          IN  /\ Saved(t, s)
              /\ stored' = [stored EXCEPT !.session = s]
              /\ UNCHANGED unseen
     ELSE unseen' = TRUE /\ UNCHANGED <<session, stored>>
  /\ UNCHANGED <<now, stage, identity, known, calls, sessions, anons, callCount, owner, links,
                 visibleAt, silent, raced, cleared, crossReset>>

(* Back in the foreground: refresh, $session_start, $app_foregrounded; the *)
(* plugins are not told.                                                   *)
Show(t) ==
  /\ Up(t) /\ t \in hidden
  /\ hidden' = hidden \ {t}
  /\ IF Listening(t)
     THEN /\ Refresh(t)
          /\ silent' = IF session'[t].id # session[t].id THEN silent \cup {t} ELSE silent
     ELSE UNCHANGED <<session, stored, sessions, owner, silent>>
  /\ Races(t)
  /\ visibleAt' = [visibleAt EXCEPT ![session'[t].id] = now]
  /\ UNCHANGED <<now, stage, identity, known, calls, anons, callCount, links, unseen,
                 cleared, crossReset>>

(* A reload keeps sessionStorage, closing the tab does not. A page that    *)
(* was not hidden first has crashed. What its calls were about to do is    *)
(* lost.                                                                   *)
Leave(t) ==
  /\ Up(t)
  /\ stage' = [stage EXCEPT ![t] = "down"]
  /\ hidden' = hidden \ {t}
  /\ unseen' = (unseen \/ t \notin hidden)
  /\ session' \in {session, [session EXCEPT ![t] = NoSession]}
  /\ identity' = [identity EXCEPT ![t] = NoIdentity]
  /\ known' = [known EXCEPT ![t] = [sid |-> 0, distinct |-> 0]]
  /\ calls' = {c \in calls : c.tab # t}
  /\ links' = links \cup {c.alias : c \in {d \in calls : d.tab = t /\ d.call = "identify"}}
  /\ silent' = silent \ {t} /\ raced' = raced \ {t}
  /\ UNCHANGED <<now, stored, sessions, anons, callCount, owner, visibleAt, cleared, crossReset>>

-----------------------------------------------------------------------------
(* The host's calls.                                                       *)

Called == callCount < MaxCalls /\ callCount' = callCount + 1

(* touchSession, from peopleSet() or a plugin: the plugins that are listed *)
(* are told of a new session.                                              *)
Touch(t) ==
  /\ Up(t) /\ Called
  /\ Refresh(t)
  /\ LET sid == session'[t].id
     IN  /\ known' = IF sid # session[t].id /\ Listening(t)
                     THEN [known EXCEPT ![t].sid = sid] ELSE known
         /\ silent' = IF sid # session[t].id /\ stage[t] = "setup" THEN silent \cup {t} ELSE silent
         /\ Seen(t, sid) /\ Races(t)
  /\ UNCHANGED <<now, stage, hidden, identity, calls, anons, links, unseen, cleared,
                 crossReset>>

(* Mutant: the alias is sent only once the plugins are listed. *)
IdentifyListening(t, u) ==
  /\ Up(t) /\ identity[t].distinct # u /\ Called
  /\ LET before == identity[t]
         after == [before EXCEPT !.distinct = u]
     IN  /\ identity' = [identity EXCEPT ![t] = after]
         /\ stored' = [stored EXCEPT !.identity = after]
         /\ known' = IF Listening(t) THEN [known EXCEPT ![t].distinct = u] ELSE known
         /\ silent' = IF stage[t] = "setup" THEN silent \cup {t} ELSE silent
         /\ calls' = IF before.distinct = before.anon /\ Listening(t)
                     THEN calls \cup {[call |-> "identify", tab |-> t, alias |-> <<before.anon, u>>]}
                     ELSE calls
  /\ UNCHANGED <<now, stage, hidden, session, sessions, anons, owner, links,
                 visibleAt, raced, unseen, cleared, crossReset>>

(* identify(): the change is saved and notified at once; the alias that    *)
(* links the anonymous id waits until every plugin has dealt with it.      *)
Identify(t, u) ==
  /\ Up(t) /\ identity[t].distinct # u /\ Called
  /\ LET before == identity[t]
         after == [before EXCEPT !.distinct = u]
     IN  /\ identity' = [identity EXCEPT ![t] = after]
         /\ stored' = [stored EXCEPT !.identity = after]
         /\ known' = IF Listening(t) THEN [known EXCEPT ![t].distinct = u] ELSE known
         /\ silent' = IF stage[t] = "setup" THEN silent \cup {t} ELSE silent
         /\ calls' = IF before.distinct = before.anon
                     THEN calls \cup {[call |-> "identify", tab |-> t, alias |-> <<before.anon, u>>]}
                     ELSE calls
  /\ UNCHANGED <<now, stage, hidden, session, sessions, anons, owner, links,
                 visibleAt, raced, unseen, cleared, crossReset>>

AliasQueued ==
  /\ \E c \in calls : c.call = "identify" /\ calls' = calls \ {c} /\ links' = links \cup {c.alias}
  /\ UNCHANGED <<now, tabState, stored, sessions, anons, callCount, owner, visibleAt, silent,
                 raced, unseen, cleared, crossReset>>

(* reset() first waits for a flush.                                        *)
Reset(t) ==
  /\ Up(t) /\ Called
  /\ calls' = calls \cup {[call |-> "reset", tab |-> t, alias |-> << >>]}
  /\ UNCHANGED <<now, tabState, stored, sessions, anons, history>>

(* Mutant: the session goes on after a reset. *)
ResetDrawsSameSession ==
  /\ \E c \in calls :
       /\ c.call = "reset"
       /\ calls' = (calls \ {c}) \cup {[call |-> "notify", tab |-> c.tab, alias |-> << >>,
                                        sid |-> session[c.tab].id]}
       /\ anons < MaxAnons /\ anons' = anons + 1
       /\ identity' = [identity EXCEPT ![c.tab] = Anonymous(anons')]
       /\ stored' = [stored EXCEPT !.identity = Anonymous(anons')]
       /\ known' = IF Listening(c.tab) THEN [known EXCEPT ![c.tab].distinct = anons'] ELSE known
       /\ crossReset' = (crossReset \/ \E t \in Tabs \ {c.tab} : Up(t))
       /\ silent' = CASE stage[c.tab] = "setup" -> silent \cup {c.tab}
                      [] Listening(c.tab) -> silent \ {c.tab}
                      [] OTHER -> silent
  /\ UNCHANGED <<now, stage, hidden, session, sessions, visibleAt, callCount, owner, links, raced,
                 unseen, cleared>>

(* Then a new anonymous id and a new session, whatever identify() has done *)
(* meanwhile; the plugins are told of the id at once, and reset() waits    *)
(* for them: replay may have an upload to do.                              *)
ResetDraws ==
  /\ \E c \in calls :
       /\ c.call = "reset"
       /\ calls' = (calls \ {c}) \cup {[call |-> "notify", tab |-> c.tab, alias |-> << >>,
                                        sid |-> Fresh.id]}
       /\ anons < MaxAnons /\ anons' = anons + 1
       /\ identity' = [identity EXCEPT ![c.tab] = Anonymous(anons')]
       /\ Drawn(anons')
       /\ Saved(c.tab, Fresh)
       /\ stored' = [session |-> Fresh, identity |-> Anonymous(anons')]
       /\ known' = IF Listening(c.tab) THEN [known EXCEPT ![c.tab].distinct = anons'] ELSE known
       /\ Seen(c.tab, Fresh.id)
       /\ crossReset' = (crossReset \/ \E t \in Tabs \ {c.tab} : Up(t))
       /\ silent' = CASE stage[c.tab] = "setup" -> silent \cup {c.tab}
                      [] Listening(c.tab) -> silent \ {c.tab}
                      [] OTHER -> silent
       /\ raced' = IF Telling(c.tab) THEN raced \cup {c.tab} ELSE raced \ {c.tab}
  /\ UNCHANGED <<now, stage, hidden, callCount, links, unseen, cleared>>

(* Mutant: the plugins are told of the session of before. *)
ResetEndsUntold ==
  /\ \E c \in calls : c.call = "notify" /\ calls' = calls \ {c}
  /\ UNCHANGED <<now, tabState, stored, sessions, anons, callCount, history>>

(* Last the plugins are told of the session, of the one drawn then.        *)
ResetEnds ==
  /\ \E c \in calls :
       /\ c.call = "notify" /\ calls' = calls \ {c}
       /\ known' = IF Listening(c.tab) THEN [known EXCEPT ![c.tab].sid = c.sid] ELSE known
  /\ UNCHANGED <<now, stage, hidden, session, identity, stored, sessions, anons, callCount,
                 history>>

-----------------------------------------------------------------------------
(* The world.                                                              *)

(* Time passes: what is in the foreground stays seen.                      *)
Tick ==
  /\ now < MaxTime
  /\ now' = now + 1
  /\ visibleAt' = [s \in DOMAIN visibleAt |->
                     IF \E t \in Tabs \ hidden : Up(t) /\ session[t].id = s THEN now' ELSE visibleAt[s]]
  /\ UNCHANGED <<tabState, stored, calls, sessions, anons, callCount, owner, links, silent,
                 raced, unseen, cleared, crossReset>>

(* The user clears the site's localStorage; sessionStorage stays.          *)
Clear ==
  /\ ~cleared /\ cleared' = TRUE /\ Called
  /\ stored' = [session |-> NoSession, identity |-> NoIdentity]
  /\ UNCHANGED <<now, tabState, calls, sessions, anons, owner, links, visibleAt,
                 silent, raced, unseen, crossReset>>

Next ==
  \/ \E t \in Tabs :
       \/ Boot(t) \/ SetUp(t) \/ Ready(t) \/ Hide(t) \/ Show(t) \/ Leave(t)
       \/ Touch(t) \/ Reset(t) \/ \E u \in Users : Identify(t, u)
  \/ AliasQueued \/ ResetDraws \/ ResetEnds \/ Tick \/ Clear

Spec == Init /\ [][Next]_vars

-----------------------------------------------------------------------------
(* Properties.                                                             *)

(* The plugins were told the session and the distinct id that the tab has, *)
(* unless the change came with the visibility handler, with the last steps *)
(* of init(), or while the plugins were being set up. Of the session of a  *)
(* reset() they are told only when all have dealt with the new id, and if  *)
(* the session changed once more before that, of an old one.               *)
PluginsFollow ==
  \A t \in Tabs : Listening(t) =>
    /\ known[t].distinct # identity[t].distinct => t \in silent
    /\ known[t].sid # session[t].id => t \in silent \/ t \in raced \/ Telling(t)

(* Whatever a tab tracks goes to a session that its own anonymous id       *)
(* started, through any number of tabs, reloads and users that identify:   *)
(* reset() ends the session with the id. Unless a reset() was made beside *)
(* another open tab, whose stale copies of session and identity come back  *)
(* through localStorage, or the user cleared localStorage, which forgets   *)
(* the identity but not the session that sessionStorage has too.           *)
OneOwner ==
  \A t \in Tabs : Up(t) => owner[session[t].id] = identity[t].anon \/ cleared \/ crossReset

(* Whoever is identified is linked to the anonymous id that came before:   *)
(* the alias is queued or will be, unless the page went away while the     *)
(* plugins were being notified, after which nobody sends it again.         *)
Linked ==
  \A t \in Tabs : identity[t].distinct # identity[t].anon =>
    \E p \in links \cup {c.alias : c \in calls} : p # << >> /\ p[1] = identity[t].anon

(* A session that nobody had in the foreground for longer than the timeout *)
(* is not resumed, from whichever tab, by a return or by a boot; unless a  *)
(* page crashed, or was hidden before init() had ended, so that no time    *)
(* was saved, or localStorage was cleared, or the session was itself       *)
(* started in the background.                                              *)
NotResumed ==
  [][\A t \in Tabs :
       LET sid == session'[t].id
       IN  Up(t)' /\ t \notin hidden' /\ (~Up(t) \/ t \in hidden) /\ visibleAt[sid] # 0
             => unseen \/ cleared \/ now - visibleAt[sid] <= Timeout]_vars
=============================================================================
