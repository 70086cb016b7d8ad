------------------------------ MODULE PulseShow ------------------------------
(***************************************************************************)
(* Which survey of @sankofa/pulse is on the screen, and why: the plugin    *)
(* (plugin.ts), its cached list of surveys (client.ts) and the auto-show   *)
(* pump, which looks for a survey at boot, at every navigation and at      *)
(* every change of identity, next to the host, which shows and dismisses   *)
(* surveys when it likes (also through SurveyModal of @sankofa/react).     *)
(*                                                                         *)
(* A tick of the pump and a show() are asynchronous: the tick waits for    *)
(* the list and then for the survey's display delay, show() for the        *)
(* survey. Any number of them can be in flight, while the respondent       *)
(* answers, navigates, signs out, or the SDK shuts down. What a tick has   *)
(* checked is not checked again at the end of show().                      *)
(***************************************************************************)
EXTENDS Targeting

CONSTANTS Pages,        \* the URLs of the site; a page's path is its screen
          Respondents,  \* the anonymous ids, in the order they are drawn
          Versions,     \* what the dashboard has published, in this order
          Traits,       \* the plugin's defaults: [events, props, cohorts, flags]
          MaxShows,     \* bound: show() calls that get past their guards
          MaxTicks,     \* bound: runs of the pump
          MaxEvents     \* bound: navigations, identity changes, host calls

ASSUME BoundsAssumption == {MaxShows, MaxTicks, MaxEvents} \subseteq Nat

None == 0
NoSurvey == "none"

VARIABLES
  page, who,    \* where the respondent is, and which anonymous id they have
  listed,       \* the manager has listed the plugin (every setup has ended)
  running,      \* neither the pump nor the plugin has been shut down
  pending,      \* a tick of the pump is scheduled
  ticks,        \* ticks in flight
  shows,        \* show() calls waiting for their survey
  active,       \* PulseImpl.active: the number of a modal, or None
  modals,       \* the modals in the page
  submissions,  \* those whose answers are on their way, dismissed or not
  stamps,       \* dismiss stamps still within their cooldown
  cache,        \* the list in localStorage: its version, 0 when none; fresh
  version,      \* the version the server publishes
  tickCount, showCount, eventCount,
  overlapped    \* history: a show() began while another was in flight

vars == <<page, who, listed, running, pending, ticks, shows, active, modals, submissions,
          stamps, cache, version, tickCount, showCount, eventCount, overlapped>>
counts == <<tickCount, showCount, eventCount>>

Listed(v) == ToSet(Versions[v])
Ids == UNION {{s.id : s \in Listed(v)} : v \in DOMAIN Versions}

(* The dashboard has published a list from the start.                      *)
ASSUME VersionsAssumption ==
  /\ Versions \in Seq(Seq(UNION {Listed(v) : v \in DOMAIN Versions}))
  /\ Versions # << >>

Surveys == {s.id : s \in Listed(version)}
Summary(v, id) == CHOOSE s \in Listed(v) : s.id = id

(* buildContext: nobody ever fills priorResponseCount.                     *)
Context(id, respondent) ==
  Traits @@ [survey |-> id, respondent |-> Respondents[respondent], url |-> page, screen |-> page,
             prior |-> <<>>]

Init ==
  /\ page \in Pages /\ who = 1
  /\ listed = FALSE
  /\ running = TRUE
  /\ pending = TRUE
  /\ ticks = {} /\ shows = {}
  /\ active = None /\ modals = {} /\ submissions = {}
  /\ stamps = {}
  /\ cache = [version |-> 0, fresh |-> FALSE]
  /\ version = 1
  /\ tickCount = 0 /\ showCount = 0 /\ eventCount = 0
  /\ overlapped = FALSE

Event == eventCount < MaxEvents /\ eventCount' = eventCount + 1

-----------------------------------------------------------------------------
(* The dismiss store, written by the pump's listeners while it runs.       *)

(* survey_dismissed and survey_completed: stamped for whoever is the       *)
(* respondent now.                                                         *)
Since(jobs, ids) == {IF j.survey \in ids THEN [j EXCEPT !.since = TRUE] ELSE j : j \in jobs}
Stamp(ids, respondent) ==
  IF running
  THEN /\ stamps' = stamps \cup {<<respondent, id>> : id \in ids}
       /\ ticks' = Since(ticks, ids)
       /\ shows' = Since(shows, ids)
  ELSE UNCHANGED <<stamps, ticks, shows>>

(* The modal on `active` is removed and onDismiss clears the field.        *)
DismissActive(respondent) ==
  LET gone == {m \in modals : m.n = active}
  IN  /\ modals' = modals \ gone
      /\ active' = None
      /\ Stamp({m.survey : m \in gone}, respondent)

-----------------------------------------------------------------------------
(* The pump.                                                               *)

Navigate ==
  /\ Event
  /\ page' \in Pages \ {page}
  /\ pending' = (pending \/ running)
  /\ UNCHANGED <<who, listed, running, ticks, shows, active, modals, submissions, stamps, cache,
                 version, tickCount, showCount, overlapped>>

(* Mutant: the cooldown is not looked up. *)
RecentlyDismissedNot(s, respondent) == FALSE

RecentlyDismissed(s, respondent) == s.cooldown /\ <<respondent, s.id>> \in stamps

(* The first survey of the list that passes its targeting, may be shown    *)
(* automatically and was not dismissed recently.                           *)
Candidates(v) ==
  {s \in Listed(v) : Eligible(s.rules, Context(s.id, who))
                     /\ s.auto /\ ~RecentlyDismissed(s, who)}
FirstOf(v, ids) == CHOOSE s \in ids : \A r \in ids : r # s =>
  \E i, j \in DOMAIN Versions[v] : i < j /\ Versions[v][i] = s /\ Versions[v][j] = r

(* show(), refused while a survey is active.                               *)
BeginShow(id, by, since) ==
  /\ showCount < MaxShows
  /\ showCount' = showCount + 1
  /\ shows' = shows \cup {[n |-> showCount', survey |-> id, who |-> who, by |-> by,
                          since |-> since]}
  /\ overlapped' = (overlapped \/ shows # {})

(* The tick has its list: nothing to show, or something on the screen      *)
(* already, ends it; a display delay defers it.                            *)
Chosen(t, v) ==
  LET found == Candidates(v)
      s == FirstOf(v, found)
  IN  IF ~running \/ found = {} \/ active # None
      THEN ticks' = ticks \ {t} /\ UNCHANGED <<shows, showCount, overlapped>>
      ELSE IF s.delay
      THEN /\ ticks' = (ticks \ {t}) \cup {[t EXCEPT !.at = "delay", !.survey = s.id, !.who = who]}
           /\ UNCHANGED <<shows, showCount, overlapped>>
      ELSE ticks' = ticks \ {t} /\ BeginShow(s.id, "pump", FALSE)

(* The timer fires. A fresh cache answers the tick at once, otherwise it   *)
(* requests the list; `held` is the cached version it read.                *)
TickStarts ==
  /\ pending /\ tickCount < MaxTicks
  /\ pending' = FALSE
  /\ tickCount' = tickCount + 1
  /\ LET t == [n |-> tickCount', at |-> "list", held |-> cache.version, survey |-> NoSurvey,
               who |-> who, since |-> FALSE]
     IN  IF cache.fresh
         THEN Chosen(t, cache.version)
         ELSE ticks' = ticks \cup {t} /\ UNCHANGED <<shows, showCount, overlapped>>
  /\ UNCHANGED <<page, who, listed, running, active, modals, submissions, stamps, cache,
                 version, eventCount>>

(* The list arrives, whole or unmodified (304). An error falls back on the *)
(* list the tick had read; without one, or when the server has no such     *)
(* endpoint (404), the tick ends.                                          *)
ListArrives ==
  /\ \E t \in {u \in ticks : u.at = "list"} :
       \/ /\ Chosen(t, version)
          /\ cache' = [version |-> version, fresh |-> TRUE]
       \/ /\ t.held # 0
          /\ Chosen(t, t.held)
          /\ UNCHANGED cache
       \/ /\ ticks' = ticks \ {t}
          /\ UNCHANGED <<shows, showCount, overlapped, cache>>
  /\ UNCHANGED <<page, who, listed, running, pending, active, modals, submissions, stamps,
                 version, tickCount, eventCount>>

DelayEnds ==
  /\ \E t \in {u \in ticks : u.at = "delay"} :
       /\ ticks' = ticks \ {t}
       /\ IF ~running \/ active # None
          THEN UNCHANGED <<shows, showCount, overlapped>>
          ELSE BeginShow(t.survey, "pump", t.since \/ t.who # who)
  /\ UNCHANGED <<page, who, listed, running, pending, active, modals, submissions, stamps,
                 cache, version, tickCount, eventCount>>

-----------------------------------------------------------------------------
(* The host, the dashboard, and the survey that arrives.                   *)

(* Mutant: the host's show() is not refused while a survey is active. *)
HostShowsStacked ==
  /\ Event
  /\ \E id \in Ids : BeginShow(id, "host", FALSE)
  /\ UNCHANGED <<page, who, listed, running, pending, ticks, active, modals, submissions,
                 stamps, cache, version, tickCount>>

HostShows ==
  /\ Event
  /\ active = None
  /\ \E id \in Ids, by \in {"host", "forced"} : BeginShow(id, by, FALSE)
  /\ UNCHANGED <<page, who, listed, running, pending, ticks, active, modals, submissions,
                 stamps, cache, version, tickCount>>

(* loadSurvey answers. Eligibility is decided by the rules in the answer   *)
(* and the page of now, unless the host skips it. The new renderer         *)
(* announces survey_shown, which clears the stamp, and becomes the active  *)
(* one whatever has become active meanwhile.                               *)
SurveyLoaded ==
  /\ \E s \in shows :
       /\ shows' = shows \ {s}
       /\ IF s.survey \in Surveys
             /\ \/ s.by = "forced"
                \/ Eligible(Summary(version, s.survey).rules, Context(s.survey, s.who))
          THEN /\ active' = s.n
               /\ modals' = modals \cup {[n |-> s.n, survey |-> s.survey, who |-> s.who,
                                          missed |-> s.who # who \/ ~running]}
               /\ stamps' = IF running THEN stamps \ {<<who, s.survey>>} ELSE stamps
          ELSE UNCHANGED <<active, modals, stamps>>
  /\ UNCHANGED <<page, who, listed, running, pending, ticks, submissions, cache, version,
                 counts, overlapped>>

LoadFails ==
  /\ \E s \in shows : shows' = shows \ {s}
  /\ UNCHANGED <<page, who, listed, running, pending, ticks, active, modals, submissions,
                 stamps, cache, version, counts, overlapped>>

(* The respondent closes any modal on the page; onDismiss clears `active`, *)
(* whichever modal that names.                                             *)
UserCloses ==
  /\ \E m \in modals :
       /\ modals' = modals \ {m}
       /\ Stamp({m.survey}, who)
  /\ active' = None
  /\ UNCHANGED <<page, who, listed, running, pending, submissions, cache, version, counts,
                 overlapped>>

(* The respondent submits what a modal holds.                              *)
Submits ==
  /\ \E m \in modals :
       submissions' = submissions \cup {[n |-> m.n, survey |-> m.survey]}
  /\ UNCHANGED <<page, who, listed, running, pending, ticks, shows, active, modals, stamps,
                 cache, version, counts, overlapped>>

(* The submission is accepted, whether the modal (the thanks screen) is    *)
(* still there or was dismissed meanwhile; or it fails, with no event.     *)
Completes ==
  /\ \E m \in submissions :
       /\ submissions' = submissions \ {m}
       /\ Stamp({m.survey}, who) \/ UNCHANGED <<stamps, ticks, shows>>
  /\ UNCHANGED <<page, who, listed, running, pending, active, modals, cache, version, counts,
                 overlapped>>

HostDismisses ==
  /\ Event
  /\ active # None
  /\ DismissActive(who)
  /\ UNCHANGED <<page, who, listed, running, pending, submissions, cache, version, tickCount,
                 showCount, overlapped>>

(* Mutant: the survey stays when the identity changes. *)
IdentityChangesKept ==
  /\ Event
  /\ running
  /\ who' \in {who, who + 1} \cap DOMAIN Respondents
  /\ pending' = (pending \/ listed)
  /\ modals' = {[m EXCEPT !.missed = m.missed \/ ~listed] : m \in modals}
  /\ UNCHANGED <<page, listed, running, ticks, shows, active, submissions, stamps, cache,
                 version, tickCount, showCount, overlapped>>

(* identify() keeps the anonymous id, reset() replaces it; either way the  *)
(* plugin dismisses what is active, under the new id, and ticks: if it is  *)
(* listed by then, otherwise it is not told (missed).                      *)
IdentityChanges ==
  /\ Event
  /\ running
  /\ who' \in {who, who + 1} \cap DOMAIN Respondents
  /\ \/ listed /\ DismissActive(who') /\ pending' = TRUE
     \/ /\ ~listed
        /\ modals' = {[m EXCEPT !.missed = TRUE] : m \in modals}
        /\ UNCHANGED <<active, stamps, ticks, shows, pending>>
  /\ UNCHANGED <<page, listed, running, submissions, cache, version, tickCount, showCount,
                 overlapped>>

(* The other plugins are set up as well, and the manager lists them all.   *)
IsListed ==
  /\ ~listed
  /\ listed' = TRUE
  /\ UNCHANGED <<page, who, running, pending, ticks, shows, active, modals, submissions, stamps,
                 cache, version, counts, overlapped>>

(* shutdown: the pump stops and its listeners go first, so that the        *)
(* dismissal that follows leaves no stamp.                                 *)
Shutdown ==
  /\ listed /\ running
  /\ running' = FALSE
  /\ pending' = FALSE
  /\ modals' = {m \in modals : m.n # active}
  /\ active' = None
  /\ UNCHANGED <<page, who, listed, ticks, shows, submissions, stamps, cache, version, counts,
                 overlapped>>

Publishes ==
  /\ version < Len(Versions)
  /\ version' = version + 1
  /\ UNCHANGED <<page, who, listed, running, pending, ticks, shows, active, modals, submissions,
                 stamps, cache, counts, overlapped>>

CacheExpires ==
  /\ cache.fresh
  /\ cache' = [cache EXCEPT !.fresh = FALSE]
  /\ UNCHANGED <<page, who, listed, running, pending, ticks, shows, active, modals, submissions,
                 stamps, version, counts, overlapped>>

CooldownEnds ==
  /\ \E s \in stamps : stamps' = stamps \ {s}
  /\ UNCHANGED <<page, who, listed, running, pending, ticks, shows, active, modals, submissions,
                 cache, version, counts, overlapped>>

Next ==
  \/ Navigate \/ TickStarts \/ ListArrives \/ DelayEnds
  \/ HostShows \/ SurveyLoaded \/ LoadFails \/ UserCloses \/ Submits \/ Completes
  \/ HostDismisses \/ IdentityChanges \/ IsListed \/ Shutdown
  \/ Publishes \/ CacheExpires \/ CooldownEnds

Spec == Init /\ [][Next]_vars

-----------------------------------------------------------------------------
(* Properties.                                                             *)

(* A survey is on the screen if and only if it is the active one, the one  *)
(* dismiss() reaches: unless two show() calls were in flight at once.      *)
OnlyModal ==
  overlapped \/ {m.n : m \in modals} = (IF active = None THEN {} ELSE {active})

(* What is on the screen will be submitted for the respondent of now: a    *)
(* change of identity leaves no survey of the one before, unless it was    *)
(* still loading, or the plugin was not listed yet or no more, or          *)
(* dismiss() did not reach it.                                             *)
RespondentIsCurrent == \A m \in modals : m.who = who \/ m.missed \/ overlapped

(* The pump never prompts again for a survey whose dismissal stamp is in   *)
(* its cooldown: unless the dismissal came after the tick had checked.     *)
Cooling(id) == \A v \in DOMAIN Versions : \A s \in Listed(v) : s.id = id => s.cooldown
NotReprompted ==
  [][\A s \in shows \ shows' :
       s.by = "pump" /\ s.n = active' /\ Cooling(s.survey) /\ <<who, s.survey>> \in stamps
         => s.since \/ s.who # who]_vars
=============================================================================
