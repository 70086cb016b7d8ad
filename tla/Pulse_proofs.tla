----------------------------- MODULE Pulse_proofs -----------------------------
(***************************************************************************)
(* The two machines of Pulse, for every site, dashboard, bundle, pump,     *)
(* host and respondent, however much of everything there is.               *)
(*                                                                         *)
(* PulseShow: as long as no two show() calls overlap, the survey on the    *)
(* screen is the one dismiss() reaches, and it was loaded for the          *)
(* respondent of now; and however they overlap, the pump prompts for no    *)
(* survey that its cooldown was seen to hold back.  The invariant behind   *)
(* the first two says more than either: without an overlap the plugin is   *)
(* free, with at most one show() on its way and an empty screen, or busy,  *)
(* with one modal, which `active` names, and nothing on its way.           *)
(*                                                                         *)
(* SurveySession: a showing sends one response, the server's partial is    *)
(* the last thing the respondent did, what is seen in the field is what is *)
(* recorded, and what is submitted answers every required question.        *)
(***************************************************************************)
EXTENDS PulseShow, SurveySession, WellFoundedInduction, SequenceTheorems,
        FiniteSetTheorems, TLAPS

Free ==
  /\ active = None
  /\ modals = {}
  /\ \A s, r \in shows : s = r
  /\ \A s \in shows : s.n # None /\ "n" \in DOMAIN s

Busy ==
  /\ shows = {}
  /\ active # None
  /\ \E m : modals = {m} /\ m.n = active

Attended ==
  \A m \in modals : /\ m.who = who \/ m.missed
                    /\ {"n", "who", "missed"} \subseteq DOMAIN m

Inv ==
  /\ showCount \in Nat
  /\ overlapped \/ ((Free \/ Busy) /\ Attended)

showVars == <<shows, showCount, overlapped, active, modals, who>>

LEMMA Same == ASSUME Inv, UNCHANGED showVars PROVE Inv'
  BY DEF Inv, Free, Busy, Attended, showVars

(* A show() that begins finds the plugin free and no other on its way, or  *)
(* is an overlap.                                                          *)
LEMMA Begins ==
  ASSUME Inv, active = None, UNCHANGED <<active, modals, who>>,
         NEW id, NEW by, NEW since, BeginShow(id, by, since)
  PROVE  Inv'
<1>1. showCount' \in Nat /\ showCount' # None
  BY DEF Inv, BeginShow, None
<1>2. CASE overlapped \/ shows # {}
  BY <1>1, <1>2 DEF BeginShow, Inv
<1>3. CASE ~overlapped /\ shows = {}
  <2>1. Free /\ Attended
    BY <1>3 DEF Inv, Busy
  <2>2. Attended'
    BY <2>1 DEF Attended
  <2>3. shows' = {[n |-> showCount', survey |-> id, who |-> who, by |-> by, since |-> since]}
    BY <1>3 DEF BeginShow
  <2>4. Free'
    BY <1>1, <2>1, <2>3 DEF Free
  <2> QED BY <1>1, <2>2, <2>4 DEF Inv
<1> QED BY <1>2, <1>3

(* The pump's choice of a survey: nothing, or a show() of a free plugin.   *)
LEMMA Chooses ==
  ASSUME Inv, UNCHANGED <<active, modals, who>>, NEW t, NEW v, Chosen(t, v)
  PROVE  Inv'
<1>1. CASE UNCHANGED <<shows, showCount, overlapped>>
  BY <1>1, Same DEF showVars
<1>2. CASE active = None /\ \E id : BeginShow(id, "pump", FALSE)
  BY <1>2, Begins
<1> QED BY <1>1, <1>2 DEF Chosen

(* Without an overlap a stamp marks nothing that is on its way: what is    *)
(* stamped is on the screen.                                               *)
LEMMA StampMarksNone ==
  ASSUME NEW ids, NEW respondent, Stamp(ids, respondent), shows = {} \/ ids = {}
  PROVE  shows' = shows
  BY DEF Stamp, Since

LEMMA Dismisses ==
  ASSUME Inv, NEW respondent, DismissActive(respondent),
         UNCHANGED <<showCount, overlapped>>
  PROVE  Inv'
<1>1. CASE overlapped
  BY <1>1 DEF Inv
<1>2. CASE ~overlapped /\ Free
  <2>1. modals' = {} /\ active' = None
    BY <1>2 DEF Free, DismissActive
  <2>2. Stamp({}, respondent)
    BY <1>2 DEF Free, DismissActive
  <2>3. shows' = shows
    BY <2>2, StampMarksNone
  <2> QED BY <1>2, <2>1, <2>3 DEF Inv, Free, Attended
<1>3. CASE ~overlapped /\ Busy
  <2>1. modals' = {} /\ active' = None
    BY <1>3 DEF Busy, DismissActive
  <2>2. shows' = {}
    BY <1>3, StampMarksNone DEF Busy, DismissActive
  <2> QED BY <1>3, <2>1, <2>2 DEF Inv, Free, Attended
<1> QED BY <1>1, <1>2, <1>3 DEF Inv

(* What arrives is mounted where nothing is, and for whoever it was loaded *)
(* for; that this is another respondent by now is what `missed` says.      *)
LEMMA Loads == ASSUME Inv, SurveyLoaded PROVE Inv'
<1>1. CASE overlapped
  BY <1>1 DEF Inv, SurveyLoaded, counts
<1>2. CASE ~overlapped
  <2>1. PICK s \in shows :
          /\ shows' = shows \ {s}
          /\ \/ UNCHANGED <<active, modals>>
             \/ /\ active' = s.n
                /\ modals' = modals \cup {[n |-> s.n, survey |-> s.survey, who |-> s.who,
                                           missed |-> s.who # who \/ ~running]}
    BY DEF SurveyLoaded
  <2>2. Free /\ Attended /\ showCount \in Nat
    BY <1>2 DEF Inv, Busy
  <2>3. shows' = {} /\ s.n # None /\ modals = {}
    BY <2>1, <2>2 DEF Free
  <2>4. UNCHANGED <<who, showCount, overlapped>>
    BY DEF SurveyLoaded, counts
  <2>5. CASE UNCHANGED <<active, modals>>
    BY <2>2, <2>3, <2>4, <2>5 DEF Inv, Free, Attended
  <2>6. CASE /\ active' = s.n
             /\ modals' = modals \cup {[n |-> s.n, survey |-> s.survey, who |-> s.who,
                                        missed |-> s.who # who \/ ~running]}
    <3> DEFINE m == [n |-> s.n, survey |-> s.survey, who |-> s.who,
                     missed |-> s.who # who \/ ~running]
    <3>1. modals' = {m}
      BY <2>3, <2>6
    <3>2. Busy'
      <4>1. shows' = {} /\ active' # None /\ m.n = active'
        BY <2>3, <2>6
      <4>2. \E k : modals' = {k} /\ k.n = active'
        BY <3>1, <4>1
      <4> QED BY <4>1, <4>2 DEF Busy
    <3>3. (m.who = who \/ m.missed) /\ {"n", "who", "missed"} \subseteq DOMAIN m
      OBVIOUS
    <3>4. Attended'
      BY <2>4, <3>1, <3>3 DEF Attended
    <3> QED BY <2>2, <2>4, <3>2, <3>4 DEF Inv
  <2> QED BY <2>1, <2>5, <2>6
<1> QED BY <1>1, <1>2

LEMMA Closes == ASSUME Inv, UserCloses PROVE Inv'
<1>1. CASE overlapped
  BY <1>1 DEF Inv, UserCloses, counts
<1>2. CASE ~overlapped
  <2>1. Busy /\ showCount \in Nat
    BY <1>2 DEF Inv, Free, UserCloses
  <2>2. modals' = {} /\ active' = None /\ UNCHANGED showCount
    BY <2>1 DEF Busy, UserCloses, counts
  <2>3. shows' = {}
    BY <2>1, StampMarksNone DEF Busy, UserCloses
  <2> QED BY <2>1, <2>2, <2>3 DEF Inv, Free, Attended
<1> QED BY <1>1, <1>2

(* A submission may complete, its modal dismissed, when another show() is  *)
(* on its way: that one is marked, and is still the only one.              *)
LEMMA CompletesOne == ASSUME Inv, Completes PROVE Inv'
<1>1. UNCHANGED <<active, modals, who, showCount, overlapped>>
  BY DEF Completes, counts
<1>2. CASE overlapped
  BY <1>1, <1>2 DEF Inv
<1>3. CASE UNCHANGED shows
  BY <1>1, <1>3, Same DEF showVars
<1>4. CASE ~overlapped /\ \E ids : shows' = Since(shows, ids)
  <2>1. PICK ids : shows' = {IF j.survey \in ids THEN [j EXCEPT !.since = TRUE] ELSE j : j \in shows}
    BY <1>4 DEF Since
  <2>2. CASE Busy
    <3>1. shows' = {}
      BY <2>1, <2>2 DEF Busy
    <3> QED BY <1>1, <1>4, <2>2, <3>1 DEF Inv, Busy, Attended, Free
  <2>3. CASE Free
    <3>1. \A s, r \in shows' : s = r
      BY <2>1, <2>3 DEF Free
    <3>2. ASSUME NEW s \in shows' PROVE s.n # None /\ "n" \in DOMAIN s
      <4>1. PICK j \in shows : s = IF j.survey \in ids THEN [j EXCEPT !.since = TRUE] ELSE j
        BY <2>1, <3>2
      <4>2. DOMAIN s = DOMAIN j /\ "n" \in DOMAIN j /\ s.n = j.n
        BY <2>3, <4>1 DEF Free
      <4> QED BY <2>3, <4>2 DEF Free
    <3>3. Free'
      BY <1>1, <2>3, <3>1, <3>2 DEF Free
    <3> QED BY <1>1, <1>4, <2>3, <3>3 DEF Inv, Attended, Free
  <2> QED BY <1>4, <2>2, <2>3 DEF Inv
<1> QED BY <1>2, <1>3, <1>4 DEF Completes, Stamp

LEMMA ShutsDown == ASSUME Inv, Shutdown PROVE Inv'
<1>1. CASE overlapped
  BY <1>1 DEF Inv, Shutdown, counts
<1>2. CASE ~overlapped
  <2>1. modals' = {} /\ active' = None /\ UNCHANGED <<shows, showCount>>
    BY <1>2 DEF Inv, Free, Busy, Shutdown, counts
  <2> QED BY <1>2, <2>1 DEF Inv, Free, Busy, Attended
<1> QED BY <1>1, <1>2

(* A change of identity that the plugin is not told of stays on record     *)
(* with what is on the screen.                                             *)
LEMMA Misses ==
  ASSUME Inv, modals' = {[m EXCEPT !.missed = TRUE] : m \in modals},
         UNCHANGED <<shows, showCount, overlapped, active>>
  PROVE  Inv'
<1>1. CASE overlapped
  BY <1>1 DEF Inv
<1>2. CASE ~overlapped
  <2>1. Attended
    BY <1>2 DEF Inv
  <2>2. ASSUME NEW m \in modals'
        PROVE  m.missed /\ {"n", "who", "missed"} \subseteq DOMAIN m
    <3>1. PICK k \in modals : m = [k EXCEPT !.missed = TRUE]
      BY <2>2
    <3> QED BY <2>1, <3>1 DEF Attended
  <2>3. Attended'
    BY <2>2 DEF Attended
  <2>4. CASE Free
    <3>1. modals' = {}
      BY <2>4 DEF Free
    <3> QED BY <2>3, <2>4, <3>1 DEF Inv, Free
  <2>5. CASE Busy
    <3>1. PICK k : modals = {k} /\ k.n = active
      BY <2>5 DEF Busy
    <3> DEFINE m == [k EXCEPT !.missed = TRUE]
    <3>2. m.n = active
      BY <2>1, <3>1 DEF Attended
    <3>3. modals' = {m}
      BY <3>1
    <3> HIDE DEF m
    <3>4. Busy'
      BY <2>5, <3>2, <3>3 DEF Busy
    <3> QED BY <2>3, <3>4 DEF Inv
  <2> QED BY <1>2, <2>4, <2>5 DEF Inv
<1> QED BY <1>1, <1>2

(* A plugin that is told of a change of identity dismisses first, so only  *)
(* an empty screen sees another respondent.                                *)
LEMMA NextInv == ASSUME Inv, [Next]_vars PROVE Inv'
<1>1. CASE \/ Navigate \/ Submits \/ IsListed \/ Publishes \/ CacheExpires \/ CooldownEnds
           \/ UNCHANGED vars
  BY <1>1, Same DEF Navigate, Submits, IsListed, Publishes, CacheExpires, CooldownEnds, vars,
                    counts, showVars
<1>2. CASE TickStarts
  <2>1. UNCHANGED <<active, modals, who>>
    BY <1>2 DEF TickStarts
  <2>2. CASE UNCHANGED <<shows, showCount, overlapped>>
    BY <2>1, <2>2, Same DEF showVars
  <2>3. CASE \E t : Chosen(t, cache.version)
    BY <2>1, <2>3, Chooses
  <2> QED BY <1>2, <2>2, <2>3 DEF TickStarts
<1>3. CASE ListArrives
  <2>1. UNCHANGED <<active, modals, who>>
    BY <1>3 DEF ListArrives
  <2>2. CASE UNCHANGED <<shows, showCount, overlapped>>
    BY <2>1, <2>2, Same DEF showVars
  <2>3. CASE \E t, v : Chosen(t, v)
    BY <2>1, <2>3, Chooses
  <2> QED BY <1>3, <2>2, <2>3 DEF ListArrives
<1>4. CASE DelayEnds
  <2>1. UNCHANGED <<active, modals, who>>
    BY <1>4 DEF DelayEnds
  <2>2. CASE UNCHANGED <<shows, showCount, overlapped>>
    BY <2>1, <2>2, Same DEF showVars
  <2>3. CASE active = None /\ \E id, since : BeginShow(id, "pump", since)
    BY <2>1, <2>3, Begins
  <2> QED BY <1>4, <2>2, <2>3 DEF DelayEnds
<1>5. CASE HostShows
  BY <1>5, Begins DEF HostShows
<1>6. CASE LoadFails
  <2>1. \E s \in shows : shows' = shows \ {s}
    BY <1>6 DEF LoadFails
  <2>2. UNCHANGED <<showCount, overlapped, active, modals, who>>
    BY <1>6 DEF LoadFails, counts
  <2> QED BY <2>1, <2>2 DEF Inv, Free, Busy, Attended
<1>7. CASE HostDismisses
  BY <1>7, Dismisses DEF HostDismisses
<1>8. CASE IdentityChanges
  <2>1. UNCHANGED <<showCount, overlapped>>
    BY <1>8 DEF IdentityChanges
  <2>2. CASE DismissActive(who')
    BY <2>1, <2>2, Dismisses
  <2>3. CASE modals' = {[m EXCEPT !.missed = TRUE] : m \in modals} /\ UNCHANGED <<shows, active>>
    BY <2>1, <2>3, Misses
  <2> QED BY <1>8, <2>2, <2>3 DEF IdentityChanges
<1> QED BY <1>1, <1>2, <1>3, <1>4, <1>5, <1>6, <1>7, <1>8, Loads, Closes, CompletesOne,
           ShutsDown DEF Next

LEMMA SpecInv == Spec => []Inv
<1>1. Init => Inv
  BY DEF Init, Inv, Free, Attended
<1> QED BY <1>1, NextInv, PTL DEF Spec

(* dismiss() reaches what is on the screen, and `active` is never stale    *)
(* (plugin.ts:258-333), unless two show() calls were in flight at once.    *)
THEOREM DismissReaches == Spec => []OnlyModal
<1>1. Inv => OnlyModal
  BY DEF Inv, Free, Busy, OnlyModal
<1> QED BY <1>1, SpecInv, PTL

(* What is on the screen is submitted for the respondent of now, unless it *)
(* was still loading when the identity changed, the plugin was not listed  *)
(* yet (plugins.ts:45-64), or dismiss() did not reach it                   *)
(* (plugin.ts:470-477).                                                    *)
THEOREM SubmittedForWhoIsThere == Spec => []RespondentIsCurrent
<1>1. Inv => RespondentIsCurrent
  BY DEF Inv, Attended, RespondentIsCurrent
<1> QED BY <1>1, SpecInv, PTL

-----------------------------------------------------------------------------
(* The cooldown.  What a tick or a show() of the pump carries was not      *)
(* stamped when it was chosen; a stamp that falls later marks it `since`.  *)
Tick == [n : Nat, at : {"list", "delay"}, held : {0} \cup DOMAIN Versions,
         survey : Ids \cup {NoSurvey}, who : Nat, since : BOOLEAN]
Show == [n : Nat, survey : Ids \cup {NoSurvey}, who : Nat,
         by : {"pump", "host", "forced"}, since : BOOLEAN]

Stamped(id) == Cooling(id) /\ <<who, id>> \in stamps
Warned(j) == j.who = who /\ Stamped(j.survey) => j.since

ListInv ==
  /\ version \in DOMAIN Versions
  /\ cache \in [version : {0} \cup DOMAIN Versions, fresh : BOOLEAN]
  /\ cache.fresh => cache.version # 0

JobsInv ==
  /\ who \in Nat /\ showCount \in Nat /\ tickCount \in Nat
  /\ ticks \subseteq Tick /\ shows \subseteq Show
  /\ \A j \in ticks \cup shows : j.who <= who

WarnInv ==
  /\ \A t \in ticks : t.at = "delay" => Warned(t)
  /\ \A s \in shows : s.by = "pump" => Warned(s)

PromptInv == ListInv /\ JobsInv /\ WarnInv

LEMMA Least ==
  ASSUME NEW S \in SUBSET Nat, S # {}
  PROVE  \E i \in S : \A j \in S : i <= j
<1>1. IsWellFoundedOn(OpToRel(<, Nat), Nat)
  BY NatLessThanWellFounded
<1>2. PICK i \in S : \A j \in S : ~(<<j, i>> \in OpToRel(<, Nat))
  BY <1>1, WFMin
<1>3. ASSUME NEW j \in S, j < i PROVE <<j, i>> \in OpToRel(<, Nat)
  <2>1. <<j, i>> \in Nat \X Nat /\ <<j, i>>[1] < <<j, i>>[2]
    BY <1>3
  <2> QED BY <2>1, Zenon DEF OpToRel
<1>4. ASSUME NEW j \in S PROVE ~(j < i)
  BY <1>2, <1>3, Zenon
<1>5. \A j \in S : i <= j
  BY <1>4
<1> QED BY <1>5

(* Of the surveys that qualify one comes first in the list.                *)
LEMMA FirstIsFound ==
  ASSUME NEW v \in DOMAIN Versions, NEW ids, ids \subseteq Listed(v), ids # {}
  PROVE  FirstOf(v, ids) \in ids
<1> DEFINE list == Versions[v]
           places == {i \in DOMAIN list : list[i] \in ids}
<1>1. DOMAIN list \subseteq Nat
  BY VersionsAssumption
<1>2. places \in SUBSET Nat /\ places # {}
  BY <1>1 DEF Listed, ToSet
<1>3. PICK i \in places : \A j \in places : i <= j
  BY <1>2, Least
<1>4. ASSUME NEW r \in ids, r # list[i]
      PROVE  \E k, j \in DOMAIN list : k < j /\ list[k] = list[i] /\ list[j] = r
  <2>1. PICK j \in DOMAIN list : list[j] = r
    BY <1>4 DEF Listed, ToSet
  <2>2. j \in places /\ i \in places /\ j # i
    BY <1>4, <2>1
  <2>3. i < j
    BY <1>1, <1>3, <2>2
  <2> QED BY <2>1, <2>2, <2>3
<1>5. list[i] \in ids
  OBVIOUS
<1> HIDE DEF places
<1> QED BY <1>4, <1>5 DEF FirstOf

(* What passes the pump's checks is not within a cooldown.                 *)
LEMMA CandidatesAreFree ==
  ASSUME NEW v \in DOMAIN Versions, NEW s \in Candidates(v)
  PROVE  s.id \in Ids /\ ~Stamped(s.id)
<1>1. s \in Listed(v) /\ ~RecentlyDismissed(s, who)
  BY DEF Candidates
<1>2. s.id \in Ids
  BY <1>1 DEF Ids
<1>3. Cooling(s.id) => s.cooldown
  BY <1>1 DEF Cooling
<1> QED BY <1>1, <1>2, <1>3 DEF RecentlyDismissed, Stamped

LEMMA ShowBegins ==
  ASSUME JobsInv, WarnInv, UNCHANGED <<who, stamps>>, tickCount' \in Nat,
         ticks' \subseteq ticks,
         NEW id \in Ids \cup {NoSurvey}, NEW by \in {"pump", "host", "forced"}, NEW since \in BOOLEAN,
         BeginShow(id, by, since),
         by = "pump" => since \/ ~Stamped(id)
  PROVE  JobsInv' /\ WarnInv'
<1> DEFINE s == [n |-> showCount', survey |-> id, who |-> who, by |-> by, since |-> since]
<1>1. showCount' \in Nat /\ shows' = shows \cup {s}
  BY DEF BeginShow, JobsInv
<1>2. s \in Show /\ s.who <= who
  BY <1>1 DEF Show, JobsInv
<1>3. s.survey = id /\ s.by = by /\ s.since = since
  OBVIOUS
<1> HIDE DEF s
<1>4. JobsInv'
  BY <1>1, <1>2 DEF JobsInv
<1>5. s.by = "pump" => Warned(s)
  BY <1>3 DEF Warned
<1>6. \A j : Warned(j) => Warned(j)'
  BY DEF Warned, Stamped
<1>7. WarnInv'
  BY <1>1, <1>5, <1>6 DEF WarnInv
<1> QED BY <1>4, <1>7

LEMMA ChosenIsWarned ==
  ASSUME JobsInv, WarnInv, UNCHANGED <<who, stamps>>, tickCount' \in Nat,
         NEW v \in DOMAIN Versions,
         NEW t \in Tick, t.who <= who,
         Chosen(t, v)
  PROVE  JobsInv' /\ WarnInv'
<1>1. \A j : Warned(j) => Warned(j)'
  BY DEF Warned, Stamped
<1> DEFINE found == Candidates(v)
           s == FirstOf(v, found)
           later == [t EXCEPT !.at = "delay", !.survey = s.id, !.who = who]
<1>2. CASE ticks' = ticks \ {t} /\ UNCHANGED <<shows, showCount>>
  <2>1. JobsInv'
    BY <1>2 DEF JobsInv
  <2>2. WarnInv'
    BY <1>1, <1>2 DEF WarnInv
  <2> QED BY <2>1, <2>2
<1>3. CASE found # {} /\ ticks' = (ticks \ {t}) \cup {later} /\ UNCHANGED <<shows, showCount>>
  <2>1. found \subseteq Listed(v)
    BY DEF Candidates
  <2>2. s \in found
    <3> HIDE DEF found
    <3> QED BY <1>3, <2>1, FirstIsFound
  <2>3. s.id \in Ids /\ ~Stamped(s.id)
    BY <2>2, CandidatesAreFree
  <2> HIDE DEF s, found
  <2>4. later \in Tick /\ later.who = who /\ later.survey = s.id
    BY <2>3 DEF Tick, JobsInv
  <2> HIDE DEF later
  <2>5. JobsInv'
    BY <1>3, <2>4 DEF JobsInv
  <2>6. Warned(later)
    BY <2>3, <2>4 DEF Warned
  <2>7. WarnInv'
    BY <1>1, <1>3, <2>6 DEF WarnInv
  <2> QED BY <2>5, <2>7
<1>4. CASE found # {} /\ ticks' = ticks \ {t} /\ BeginShow(s.id, "pump", FALSE)
  <2>1. found \subseteq Listed(v)
    BY DEF Candidates
  <2>2. s \in found
    <3> HIDE DEF found
    <3> QED BY <1>4, <2>1, FirstIsFound
  <2>3. s.id \in Ids /\ ~Stamped(s.id)
    BY <2>2, CandidatesAreFree
  <2> HIDE DEF s, found
  <2> QED BY <1>4, <2>3, ShowBegins
<1>5. \/ ticks' = ticks \ {t} /\ UNCHANGED <<shows, showCount>>
      \/ found # {} /\ ticks' = (ticks \ {t}) \cup {later} /\ UNCHANGED <<shows, showCount>>
      \/ found # {} /\ ticks' = ticks \ {t} /\ BeginShow(s.id, "pump", FALSE)
  BY DEF Chosen
<1> QED BY <1>2, <1>3, <1>4, <1>5

(* Nothing is stamped, and nothing new is on its way.                      *)
LEMMA Fewer ==
  ASSUME JobsInv, WarnInv, UNCHANGED <<who, showCount, tickCount>>,
         ticks' \subseteq ticks, shows' \subseteq shows, stamps' \subseteq stamps
  PROVE  JobsInv' /\ WarnInv'
<1>1. \A j : Warned(j) => Warned(j)'
  BY DEF Warned, Stamped
<1>2. JobsInv'
  BY DEF JobsInv
<1>3. WarnInv'
  BY <1>1 DEF WarnInv
<1> QED BY <1>2, <1>3

(* A stamp marks whatever is on its way for its survey. A respondent who   *)
(* is new carries nothing that is on its way.                              *)
LEMMA StampWarns ==
  ASSUME JobsInv, WarnInv, UNCHANGED <<showCount, tickCount>>,
         who' \in {who, who + 1},
         NEW ids, Stamp(ids, who')
  PROVE  JobsInv' /\ WarnInv'
<1>1. ASSUME NEW j, j.who <= who, who \in Nat, j.who \in Nat, Warned(j),
             UNCHANGED stamps \/ (j.survey \notin ids /\
                                  stamps' = stamps \cup {<<who', id>> : id \in ids})
      PROVE  Warned(j)'
  <2>1. CASE j.who # who'
    BY <2>1 DEF Warned
  <2>2. CASE j.who = who'
    <3>1. who' = who
      BY <1>1, <2>2
    <3> QED BY <1>1, <3>1 DEF Warned, Stamped
  <2> QED BY <2>1, <2>2
<1>2. CASE UNCHANGED <<stamps, ticks, shows>>
  <2>1. JobsInv'
    BY <1>2 DEF JobsInv, Tick, Show
  <2>2. \A t \in ticks : t.at = "delay" => Warned(t)'
    BY <1>1, <1>2 DEF JobsInv, WarnInv, Tick
  <2>3. \A s \in shows : s.by = "pump" => Warned(s)'
    BY <1>1, <1>2 DEF JobsInv, WarnInv, Show
  <2> QED BY <1>2, <2>1, <2>2, <2>3 DEF WarnInv
<1>3. CASE /\ stamps' = stamps \cup {<<who', id>> : id \in ids}
           /\ ticks' = Since(ticks, ids) /\ shows' = Since(shows, ids)
  <2>1. ASSUME NEW t \in ticks'
        PROVE  t \in Tick /\ t.who <= who /\ (t.at = "delay" => Warned(t)')
    <3>1. PICK j \in ticks : t = IF j.survey \in ids THEN [j EXCEPT !.since = TRUE] ELSE j
      BY <1>3, <2>1 DEF Since
    <3>2. j \in Tick /\ j.who <= who /\ who \in Nat /\ (j.at = "delay" => Warned(j))
      BY DEF JobsInv, WarnInv
    <3>3. CASE j.survey \in ids
      <4>1. t = [j EXCEPT !.since = TRUE]
        BY <3>1, <3>3
      <4>2. t \in Tick /\ t.since /\ t.who = j.who
        BY <3>2, <4>1 DEF Tick
      <4> QED BY <3>2, <4>2 DEF Warned
    <3>4. CASE j.survey \notin ids
      BY <1>1, <1>3, <3>1, <3>2, <3>4 DEF Tick
    <3> QED BY <3>3, <3>4
  <2>2. ASSUME NEW s \in shows'
        PROVE  s \in Show /\ s.who <= who /\ (s.by = "pump" => Warned(s)')
    <3>1. PICK j \in shows : s = IF j.survey \in ids THEN [j EXCEPT !.since = TRUE] ELSE j
      BY <1>3, <2>2 DEF Since
    <3>2. j \in Show /\ j.who <= who /\ who \in Nat /\ (j.by = "pump" => Warned(j))
      BY DEF JobsInv, WarnInv
    <3>3. CASE j.survey \in ids
      <4>1. s = [j EXCEPT !.since = TRUE]
        BY <3>1, <3>3
      <4>2. s \in Show /\ s.since /\ s.who = j.who
        BY <3>2, <4>1 DEF Show
      <4> QED BY <3>2, <4>2 DEF Warned
    <3>4. CASE j.survey \notin ids
      BY <1>1, <1>3, <3>1, <3>2, <3>4 DEF Show
    <3> QED BY <3>3, <3>4
  <2>3. who' \in Nat /\ who <= who' /\ who \in Nat
    BY DEF JobsInv
  <2>4. \A j \in ticks' \cup shows' : j.who <= who'
    BY <2>1, <2>2, <2>3 DEF Tick, Show
  <2>5. JobsInv'
    BY <2>1, <2>2, <2>3, <2>4 DEF JobsInv
  <2> QED BY <2>1, <2>2, <2>5 DEF WarnInv
<1> QED BY <1>2, <1>3 DEF Stamp

LEMMA InitPrompt == Init => PromptInv
<1> SUFFICES ASSUME Init PROVE PromptInv
  OBVIOUS
<1>1. 1 \in DOMAIN Versions
  BY VersionsAssumption
<1>2. ListInv
  BY <1>1 DEF Init, ListInv
<1>3. JobsInv /\ WarnInv
  BY DEF Init, JobsInv, WarnInv
<1> QED BY <1>2, <1>3 DEF PromptInv

LEMMA NextList == ASSUME ListInv, [Next]_vars PROVE ListInv'
<1>1. CASE Publishes
  <2>1. version < Len(Versions) /\ version' = version + 1 /\ UNCHANGED cache
    BY <1>1 DEF Publishes
  <2>2. version' \in DOMAIN Versions
    BY <2>1, VersionsAssumption DEF ListInv
  <2> QED BY <2>1, <2>2 DEF ListInv
<1>2. CASE CacheExpires
  <2>1. cache' = [cache EXCEPT !.fresh = FALSE] /\ UNCHANGED version
    BY <1>2 DEF CacheExpires
  <2> QED BY <2>1 DEF ListInv
<1>3. CASE ListArrives
  <2>1. UNCHANGED version /\ (UNCHANGED cache \/ cache' = [version |-> version, fresh |-> TRUE])
    BY <1>3 DEF ListArrives
  <2>2. \A v \in DOMAIN Versions : v # 0
    BY VersionsAssumption
  <2>3. CASE UNCHANGED cache
    BY <2>1, <2>3 DEF ListInv
  <2>4. CASE cache' = [version |-> version, fresh |-> TRUE]
    <3>1. cache' \in [version : {0} \cup DOMAIN Versions, fresh : BOOLEAN]
      BY <2>4 DEF ListInv
    <3>2. cache'.version # 0
      BY <2>2, <2>4 DEF ListInv
    <3> QED BY <2>1, <3>1, <3>2 DEF ListInv
  <2> QED BY <2>1, <2>3, <2>4
<1>4. CASE UNCHANGED <<version, cache>>
  BY <1>4 DEF ListInv
<1>5. \/ UNCHANGED <<version, cache>> \/ Publishes \/ CacheExpires \/ ListArrives
  BY DEF Next, Navigate, TickStarts, DelayEnds, HostShows, SurveyLoaded, LoadFails, UserCloses,
         Submits, Completes, HostDismisses, IdentityChanges, IsListed, Shutdown, CooldownEnds,
         vars
<1> QED BY <1>1, <1>2, <1>3, <1>4, <1>5

LEMMA NextWarned == ASSUME PromptInv, [Next]_vars PROVE JobsInv' /\ WarnInv'
<1> USE DEF PromptInv
<1>1. CASE TickStarts
  <2> DEFINE t == [n |-> tickCount', at |-> "list", held |-> cache.version, survey |-> NoSurvey,
                   who |-> who, since |-> FALSE]
  <2>1. /\ tickCount' = tickCount + 1 /\ UNCHANGED <<who, stamps>>
        /\ \/ cache.fresh /\ Chosen(t, cache.version)
           \/ ticks' = ticks \cup {t} /\ UNCHANGED <<shows, showCount>>
    BY <1>1 DEF TickStarts
  <2>2. t \in Tick /\ t.who <= who /\ t.at # "delay"
    BY <2>1 DEF Tick, JobsInv, ListInv
  <2> HIDE DEF t
  <2>3. tickCount' \in Nat /\ (cache.fresh => cache.version \in DOMAIN Versions)
    BY <2>1 DEF JobsInv, ListInv
  <2>4. CASE cache.fresh /\ Chosen(t, cache.version)
    BY <2>1, <2>2, <2>3, <2>4, ChosenIsWarned
  <2>5. CASE ticks' = ticks \cup {t} /\ UNCHANGED <<shows, showCount>>
    <3>1. \A j : Warned(j) => Warned(j)'
      BY <2>1 DEF Warned, Stamped
    <3>2. JobsInv'
      BY <2>1, <2>2, <2>3, <2>5 DEF JobsInv
    <3> QED BY <2>2, <2>5, <3>1, <3>2 DEF WarnInv
  <2> QED BY <2>1, <2>4, <2>5
<1>2. CASE ListArrives
  <2>1. PICK t \in ticks :
          \/ Chosen(t, version)
          \/ t.held # 0 /\ Chosen(t, t.held)
          \/ ticks' = ticks \ {t} /\ UNCHANGED <<shows, showCount>>
    BY <1>2 DEF ListArrives
  <2>2. UNCHANGED <<who, stamps, tickCount>>
    BY <1>2 DEF ListArrives
  <2>3. /\ t \in Tick /\ t.who <= who /\ tickCount' \in Nat /\ version \in DOMAIN Versions
        /\ t.held # 0 => t.held \in DOMAIN Versions
    BY <2>2 DEF JobsInv, ListInv, Tick
  <2>4. CASE ticks' = ticks \ {t} /\ UNCHANGED <<shows, showCount>>
    BY <2>2, <2>4, Fewer
  <2> QED BY <2>1, <2>2, <2>3, <2>4, ChosenIsWarned
<1>3. CASE DelayEnds
  <2>1. PICK t \in ticks :
          /\ t.at = "delay" /\ ticks' = ticks \ {t}
          /\ \/ UNCHANGED <<shows, showCount>>
             \/ BeginShow(t.survey, "pump", t.since \/ t.who # who)
    BY <1>3 DEF DelayEnds
  <2>2. UNCHANGED <<who, stamps, tickCount>>
    BY <1>3 DEF DelayEnds
  <2>3. CASE UNCHANGED <<shows, showCount>>
    BY <2>1, <2>2, <2>3, Fewer
  <2>4. CASE BeginShow(t.survey, "pump", t.since \/ t.who # who)
    <3>1. t \in Tick /\ Warned(t) /\ tickCount' \in Nat
      BY <2>1, <2>2 DEF JobsInv, WarnInv
    <3> DEFINE since == t.since \/ t.who # who
    <3>2. since \in BOOLEAN /\ (since \/ ~Stamped(t.survey))
      BY <3>1 DEF Warned
    <3>3. t.survey \in Ids \cup {NoSurvey}
      BY <3>1 DEF Tick
    <3>4. BeginShow(t.survey, "pump", since)
      BY <2>4
    <3> HIDE DEF since
    <3> QED BY <2>1, <2>2, <3>1, <3>2, <3>3, <3>4, ShowBegins
  <2> QED BY <2>1, <2>3, <2>4
<1>4. CASE HostShows
  <2>1. PICK id \in Ids, by \in {"host", "forced"} : BeginShow(id, by, FALSE)
    BY <1>4 DEF HostShows
  <2>2. UNCHANGED <<who, stamps, ticks, tickCount>>
    BY <1>4 DEF HostShows
  <2>3. tickCount' \in Nat /\ ticks' \subseteq ticks
    BY <2>2 DEF JobsInv
  <2> QED BY <2>1, <2>2, <2>3, ShowBegins
<1>5. CASE UserCloses
  <2>1. PICK m \in modals : Stamp({m.survey}, who)
    BY <1>5 DEF UserCloses
  <2>2. UNCHANGED <<who, showCount, tickCount>>
    BY <1>5 DEF UserCloses, counts
  <2> QED BY <2>1, <2>2, StampWarns
<1>6. CASE Completes
  <2>1. PICK m \in submissions : Stamp({m.survey}, who) \/ UNCHANGED <<stamps, ticks, shows>>
    BY <1>6 DEF Completes
  <2>2. UNCHANGED <<who, showCount, tickCount>>
    BY <1>6 DEF Completes, counts
  <2>3. CASE UNCHANGED <<stamps, ticks, shows>>
    BY <2>2, <2>3, Fewer
  <2> QED BY <2>1, <2>2, <2>3, StampWarns
<1>7. CASE HostDismisses \/ IdentityChanges
  <2>1. UNCHANGED <<showCount, tickCount>> /\ who' \in {who, who + 1}
    BY <1>7 DEF HostDismisses, IdentityChanges
  <2>2. (\E ids : Stamp(ids, who')) \/ UNCHANGED <<stamps, ticks, shows>>
    BY <1>7 DEF HostDismisses, IdentityChanges, DismissActive
  <2>3. Stamp({}, who') \/ ~UNCHANGED <<stamps, ticks, shows>>
    BY DEF Stamp, Since
  <2> QED BY <2>1, <2>2, <2>3, StampWarns
<1>8. CASE \/ Navigate \/ SurveyLoaded \/ LoadFails \/ Submits \/ IsListed \/ Shutdown
           \/ Publishes \/ CacheExpires \/ CooldownEnds \/ UNCHANGED vars
  <2>1. /\ UNCHANGED <<who, showCount, tickCount>>
        /\ ticks' \subseteq ticks /\ shows' \subseteq shows /\ stamps' \subseteq stamps
    BY <1>8 DEF Navigate, SurveyLoaded, LoadFails, Submits, IsListed, Shutdown, Publishes,
                CacheExpires, CooldownEnds, counts, vars
  <2> QED BY <2>1, Fewer
<1> QED BY <1>1, <1>2, <1>3, <1>4, <1>5, <1>6, <1>7, <1>8 DEF Next

(* The pump prompts again for what was dismissed within its cooldown only  *)
(* if the dismissal came after its tick had checked (plugin.ts:511-545,    *)
(* 572-582, 610-626).                                                      *)
THEOREM CooldownIsKept == Spec => NotReprompted
<1>1. Init => PromptInv
  BY InitPrompt
<1>2. PromptInv /\ [Next]_vars => PromptInv'
  BY NextList, NextWarned DEF PromptInv
<1>3. PromptInv =>
        \A s \in shows \ shows' :
          s.by = "pump" /\ s.n = active' /\ Cooling(s.survey) /\ <<who, s.survey>> \in stamps
            => s.since \/ s.who # who
  BY DEF PromptInv, WarnInv, Warned, Stamped
<1> QED BY <1>1, <1>2, <1>3, PTL DEF Spec, NotReprompted

-----------------------------------------------------------------------------
(***************************************************************************)
(* One survey in front of one respondent: SurveySession, whose renderer is *)
(* the modal that the machine above shows and takes away.                  *)
(***************************************************************************)

Sent == submits \cup responses
Patient == showing \notin ghost.impatient

(* A showing that submits for a patient respondent is over: the end was    *)
(* reached, and the thanks screen follows as soon as the answer is in.     *)
OnceInv ==
  /\ showing \in Nat
  /\ {"unseen", "impatient", "cleared", "late"} \subseteq DOMAIN ghost
  /\ \A s \in Sent : s.showing \in Nat /\ s.showing <= showing
  /\ \A r, s \in Sent : r.showing = s.showing => r = s \/ r.showing \in ghost.impatient
  /\ Patient =>
       /\ \A s \in submits : s.showing = showing => done /\ screen \in {"question", "gone"}
       /\ \A s \in responses : s.showing = showing => screen \in {"thanks", "gone"}

LEMMA InitOnce == SurveyInit => OnceInv
  BY DEF SurveyInit, OnceInv, Sent, Patient

(* A click on a question draws again or leaves all as it is, and tells of  *)
(* the respondent who did not wait.                                        *)
LEMMA PatientClick ==
  ASSUME OnceInv, screen = "question",
         UNCHANGED <<showing, responses>>,
         ghost'.impatient = ClickedWhileWaiting, DOMAIN ghost' = DOMAIN ghost,
         UNCHANGED submits
  PROVE  OnceInv'
<1>1. /\ showing' = showing /\ responses' = responses /\ submits' = submits
      /\ ghost'.impatient = IF \E s \in submits : s.showing = showing
                            THEN ghost.impatient \cup {showing} ELSE ghost.impatient
  BY DEF ClickedWhileWaiting, Waiting
<1>2. ghost.impatient \subseteq ghost'.impatient
  BY <1>1
<1>3. Sent' = Sent
  BY <1>1 DEF Sent
<1>4. /\ \A s \in Sent' : s.showing \in Nat /\ s.showing <= showing'
      /\ \A r, s \in Sent' : r.showing = s.showing => r = s \/ r.showing \in ghost'.impatient
  BY <1>1, <1>2, <1>3 DEF OnceInv
<1>5. Patient' => \A s \in Sent' : s.showing # showing'
  <2> SUFFICES ASSUME Patient', NEW s \in Sent, s.showing = showing PROVE FALSE
    BY <1>1, <1>3
  <2>1. Patient
    BY <1>1, <1>2 DEF Patient
  <2>2. s \notin responses
    BY <2>1 DEF OnceInv
  <2>3. s \in submits
    BY <2>2 DEF Sent
  <2> QED BY <1>1, <2>3 DEF Patient
<1> QED BY <1>1, <1>4, <1>5 DEF OnceInv, Sent

(* Nothing is sent or answered.                                            *)
LEMMA QuietOnce ==
  ASSUME OnceInv, UNCHANGED <<showing, responses, submits, done>>,
         screen' = screen \/ screen' = "gone",
         ghost'.impatient = ghost.impatient, DOMAIN ghost' = DOMAIN ghost
  PROVE  OnceInv'
<1>1. Sent' = Sent /\ (Patient' <=> Patient)
  BY DEF Sent, Patient
<1>2. /\ \A s \in Sent' : s.showing \in Nat /\ s.showing <= showing'
      /\ \A r, s \in Sent' : r.showing = s.showing => r = s \/ r.showing \in ghost'.impatient
  BY <1>1 DEF OnceInv
<1>3. Patient' =>
       /\ \A s \in submits' : s.showing = showing' => done' /\ screen' \in {"question", "gone"}
       /\ \A s \in responses' : s.showing = showing' => screen' \in {"thanks", "gone"}
  BY <1>1 DEF OnceInv
<1> QED BY <1>1, <1>2, <1>3 DEF OnceInv

LEMMA AdvanceOnce == ASSUME OnceInv, Advance PROVE OnceInv'
<1>1. /\ screen = "question" /\ UNCHANGED <<showing, responses>>
      /\ ghost'.impatient = ClickedWhileWaiting /\ DOMAIN ghost' = DOMAIN ghost
      /\ \/ UNCHANGED submits
         \/ /\ done' = TRUE /\ screen' = screen
            /\ \E s : s.showing = showing /\ submits' = submits \cup {s}
  BY DEF Advance, Click, server, OnceInv
<1>2. CASE UNCHANGED submits
  BY <1>1, <1>2, PatientClick
<1>3. CASE /\ done' = TRUE /\ screen' = screen
           /\ \E s : s.showing = showing /\ submits' = submits \cup {s}
  <2>1. PICK n : n.showing = showing /\ submits' = submits \cup {n}
    BY <1>3
  <2>2. /\ showing' = showing /\ responses' = responses
        /\ ghost'.impatient = IF \E s \in submits : s.showing = showing
                              THEN ghost.impatient \cup {showing} ELSE ghost.impatient
    BY <1>1 DEF ClickedWhileWaiting, Waiting
  <2>3. ghost.impatient \subseteq ghost'.impatient
    BY <2>2
  <2>4. Sent' = Sent \cup {n}
    BY <2>1, <2>2 DEF Sent
  <2>5. showing \notin ghost'.impatient => \A s \in Sent : s.showing # showing
    <3> SUFFICES ASSUME showing \notin ghost'.impatient,
                        NEW s \in Sent, s.showing = showing PROVE FALSE
      OBVIOUS
    <3>1. Patient
      BY <2>3 DEF Patient
    <3>2. s \notin responses
      BY <1>1, <3>1 DEF OnceInv
    <3>3. s \in submits
      BY <3>2 DEF Sent
    <3> QED BY <2>2, <3>3
  <2>6. \A s \in Sent' : s.showing \in Nat /\ s.showing <= showing'
    BY <2>1, <2>2, <2>4 DEF OnceInv
  <2>7. ASSUME NEW r \in Sent', NEW s \in Sent', r.showing = s.showing
        PROVE  r = s \/ r.showing \in ghost'.impatient
    BY <2>1, <2>3, <2>4, <2>5, <2>7 DEF OnceInv
  <2>8. Patient' =>
         /\ \A s \in submits' : s.showing = showing' => done' /\ screen' \in {"question", "gone"}
         /\ \A s \in responses' : s.showing = showing' => screen' \in {"thanks", "gone"}
    BY <1>1, <1>3, <2>2, <2>5 DEF Patient, Sent
  <2> QED BY <1>1, <2>2, <2>6, <2>7, <2>8 DEF OnceInv
<1> QED BY <1>1, <1>2, <1>3

(* A submission settles, with its response held or not.                    *)
LEMMA SettledOnce ==
  ASSUME OnceInv, NEW s \in submits, NEW message, Settled(s, message),
         responses' \in {responses, responses \cup {s}}
  PROVE  OnceInv'
<1>1. /\ submits' = submits \ {s} /\ showing' = showing /\ done' = done
      /\ ghost'.impatient = ghost.impatient /\ DOMAIN ghost' = DOMAIN ghost
      /\ \/ /\ s.showing = showing /\ screen # "gone"
            /\ screen' = IF done THEN "thanks" ELSE "question"
         \/ ~(s.showing = showing /\ screen # "gone") /\ screen' = screen
  BY DEF Settled, Render, OnceInv
<1>2. Sent' \subseteq Sent /\ (Patient' <=> Patient)
  BY <1>1 DEF Sent, Patient
<1>3. /\ \A r \in Sent' : r.showing \in Nat /\ r.showing <= showing'
      /\ \A r, q \in Sent' : r.showing = q.showing => r = q \/ r.showing \in ghost'.impatient
  BY <1>1, <1>2 DEF OnceInv
<1>4. ASSUME Patient, NEW r \in submits', r.showing = showing
      PROVE  done' /\ screen' \in {"question", "gone"}
  <2>1. r \in submits /\ r # s /\ r \in Sent /\ s \in Sent
    BY <1>1 DEF Sent
  <2>2. s.showing # showing
    BY <1>4, <2>1 DEF OnceInv, Patient
  <2> QED BY <1>1, <1>4, <2>1, <2>2 DEF OnceInv
<1>5. ASSUME Patient, NEW r \in responses', r.showing = showing
      PROVE  screen' \in {"thanks", "gone"}
  <2>1. CASE s.showing = showing
    <3>1. done /\ screen \in {"question", "gone"}
      BY <1>5, <2>1 DEF OnceInv
    <3> QED BY <1>1, <2>1, <3>1
  <2>2. CASE s.showing # showing
    <3>1. r \in responses
      BY <1>5, <2>2
    <3> QED BY <1>1, <1>5, <2>2, <3>1 DEF OnceInv
  <2> QED BY <2>1, <2>2
<1> QED BY <1>1, <1>2, <1>3, <1>4, <1>5 DEF OnceInv

LEMMA ReopenOnce == ASSUME OnceInv, Reopen PROVE OnceInv'
<1>1. /\ showing' = showing + 1 /\ UNCHANGED <<submits, responses>>
      /\ ghost'.impatient = ghost.impatient /\ DOMAIN ghost' = DOMAIN ghost
  BY DEF Reopen, server, OnceInv
<1>2. Sent' = Sent /\ showing \in Nat
  BY <1>1 DEF Sent, OnceInv
<1>3. \A s \in Sent' : s.showing \in Nat /\ s.showing <= showing' /\ s.showing # showing'
  BY <1>1, <1>2 DEF OnceInv
<1>4. \A r, s \in Sent' : r.showing = s.showing => r = s \/ r.showing \in ghost'.impatient
  BY <1>1, <1>2 DEF OnceInv
<1> QED BY <1>1, <1>2, <1>3, <1>4 DEF OnceInv, Sent

LEMMA StepOnce == ASSUME OnceInv, [SurveyNext]_surveyVars PROVE OnceInv'
<1>0. {"unseen", "impatient", "cleared", "late"} \subseteq DOMAIN ghost
  BY DEF OnceInv
<1>1. CASE \/ Input \/ PickFile \/ Pay \/ Close
           \/ JobSucceeds \/ UploadFails \/ PaymentFails
           \/ SaveArrives \/ SaveLost
           \/ UNCHANGED surveyVars
  <2>1. /\ UNCHANGED <<showing, responses, submits, done>>
        /\ screen' = screen \/ screen' = "gone"
        /\ ghost'.impatient = ghost.impatient /\ DOMAIN ghost' = DOMAIN ghost
    BY <1>0, <1>1 DEF Input, PickFile, Pay, Close,
       JobSucceeds, UploadFails, PaymentFails, Ended,
       SaveArrives, SaveLost, surveyVars, server
  <2> QED BY <2>1, QuietOnce
<1>2. CASE Gate \/ Back
  <2>1. /\ screen = "question" /\ UNCHANGED <<showing, responses, submits>>
        /\ ghost'.impatient = ClickedWhileWaiting /\ DOMAIN ghost' = DOMAIN ghost
    BY <1>0, <1>2 DEF Gate, Back, Click, server
  <2> QED BY <2>1, PatientClick
<1>3. CASE Advance
  BY <1>3, AdvanceOnce
<1>4. CASE Reopen
  BY <1>4, ReopenOnce
<1>5. CASE SubmitSucceeds \/ SubmitFails \/ AnswerLost
  <2>1. PICK s \in submits, message \in {error, TRUE} :
          /\ Settled(s, message)
          /\ responses' \in {responses, responses \cup {s}}
    BY <1>5 DEF SubmitSucceeds, SubmitFails, AnswerLost,
       Accepted, server
  <2> QED BY <2>1, SettledOnce
<1> QED BY <1>1, <1>2, <1>3, <1>4, <1>5 DEF SurveyNext

(* However often the host shows the survey again, uploads and payments     *)
(* answer late and submissions are lost: one showing sends two responses   *)
(* only for a respondent who clicked while the first was in flight.        *)
THEOREM OneResponsePerShowing == SurveySpec => []DuplicatesExplained
<1>1. SurveyInit => OnceInv
  BY InitOnce
<1>2. OnceInv /\ [SurveyNext]_surveyVars => OnceInv'
  BY StepOnce
<1>3. OnceInv => DuplicatesExplained
  BY DEF OnceInv, Sent, DuplicatesExplained
<1> QED BY <1>1, <1>2, <1>3, PTL DEF SurveySpec

-----------------------------------------------------------------------------
(* The partial *)

IsSeq(s) == s \in Seq({s[i] : i \in DOMAIN s})

LEMMA Widen ==
  ASSUME NEW S, NEW T, S \subseteq T, NEW s \in Seq(S) PROVE s \in Seq(T)
  OBVIOUS

LEMMA IsSeqWhen == ASSUME NEW S, NEW s \in Seq(S) PROVE IsSeq(s)
<1>1. Len(s) \in Nat /\ DOMAIN s = 1 .. Len(s)
  OBVIOUS
<1>2. s \in [1 .. Len(s) -> {s[i] : i \in DOMAIN s}]
  BY <1>1
<1> QED BY <1>1, <1>2 DEF IsSeq

LEMMA SeqAppended ==
  ASSUME NEW s, IsSeq(s), NEW e
  PROVE  /\ IsSeq(Append(s, e)) /\ Append(s, e) # <<>>
         /\ Len(s) \in Nat /\ DOMAIN s = 1 .. Len(s)
         /\ Len(Append(s, e)) = Len(s) + 1 /\ DOMAIN Append(s, e) = 1 .. Len(s) + 1
         /\ \A k \in 1 .. Len(s) : Append(s, e)[k] = s[k]
         /\ Append(s, e)[Len(s) + 1] = e
<1> DEFINE S == {s[i] : i \in DOMAIN s} \cup {e}
<1>1. s \in Seq(S)
  BY Widen DEF IsSeq
<1> HIDE DEF S
<1>2. Append(s, e) \in Seq(S)
  BY <1>1 DEF S
<1>3. IsSeq(Append(s, e))
  BY <1>2, IsSeqWhen
<1> QED BY <1>1, <1>3 DEF S

LEMMA SeqRemoved ==
  ASSUME NEW s, IsSeq(s), NEW i \in DOMAIN s
  PROVE  /\ IsSeq(RemoveAt(s, i))
         /\ Len(s) \in Nat /\ DOMAIN s = 1 .. Len(s)
         /\ Len(RemoveAt(s, i)) = Len(s) - 1 /\ DOMAIN RemoveAt(s, i) = 1 .. Len(s) - 1
         /\ \A k \in 1 .. Len(s) - 1 :
              RemoveAt(s, i)[k] = s[IF k < i THEN k ELSE k + 1]
<1> DEFINE S == {s[k] : k \in DOMAIN s}
           a == SubSeq(s, 1, i - 1)
           b == SubSeq(s, i + 1, Len(s))
<1>1. /\ s \in Seq(S) /\ Len(s) \in Nat /\ DOMAIN s = 1 .. Len(s)
      /\ i \in 1 .. Len(s) /\ \A k \in 1 .. Len(s) : s[k] \in S
  BY DEF IsSeq
<1> HIDE DEF S
<1>2. /\ a \in Seq(S) /\ Len(a) = i - 1
      /\ \A k \in 1 .. i - 1 : a[k] = s[k]
  <2>1. /\ a \in Seq(S) /\ Len(a) = (IF 1 <= i - 1 THEN i - 1 - 1 + 1 ELSE 0)
        /\ \A k \in 1 .. i - 1 - 1 + 1 : a[k] = s[1 + k - 1]
    BY <1>1, SubSeqProperties
  <2> QED BY <1>1, <2>1
<1>3. /\ b \in Seq(S) /\ Len(b) = Len(s) - i
      /\ \A k \in 1 .. Len(s) - i : b[k] = s[i + k]
  <2>1. /\ b \in Seq(S)
        /\ Len(b) = (IF i + 1 <= Len(s) THEN Len(s) - (i + 1) + 1 ELSE 0)
        /\ \A k \in 1 .. Len(s) - (i + 1) + 1 : b[k] = s[i + 1 + k - 1]
    BY <1>1, SubSeqProperties
  <2>2. Len(b) = Len(s) - i
    BY <1>1, <2>1
  <2>3. ASSUME NEW k \in 1 .. Len(s) - i PROVE b[k] = s[i + k]
    <3>1. k \in 1 .. Len(s) - (i + 1) + 1 /\ i + 1 + k - 1 = i + k
      BY <1>1
    <3> QED BY <2>1, <3>1
  <2> QED BY <2>1, <2>2, <2>3
<1> HIDE DEF a, b
<1>4. RemoveAt(s, i) = a \o b
  BY DEF RemoveAt, a, b
<1>5. /\ a \o b \in Seq(S) /\ Len(a \o b) = Len(s) - 1
      /\ \A k \in 1 .. i - 1 : (a \o b)[k] = a[k]
      /\ \A k \in i .. Len(s) - 1 : (a \o b)[k] = b[k - (i - 1)]
  <2>1. /\ a \o b \in Seq(S) /\ Len(a \o b) = Len(a) + Len(b)
        /\ \A k \in 1 .. Len(a) + Len(b) :
             (a \o b)[k] = IF k <= Len(a) THEN a[k] ELSE b[k - Len(a)]
    BY <1>2, <1>3, ConcatProperties
  <2>2. Len(a) + Len(b) = Len(s) - 1 /\ i \in Nat /\ Len(a) = i - 1
    BY <1>1, <1>2, <1>3
  <2>3. \A k \in 1 .. i - 1 : k \in 1 .. Len(s) - 1 /\ k <= i - 1
    BY <1>1
  <2>4. \A k \in i .. Len(s) - 1 : k \in 1 .. Len(s) - 1 /\ ~(k <= i - 1)
    BY <1>1
  <2> QED BY <2>1, <2>2, <2>3, <2>4
<1>6. ASSUME NEW k \in 1 .. Len(s) - 1
      PROVE  (a \o b)[k] = s[IF k < i THEN k ELSE k + 1]
  <2>1. CASE k < i
    BY <1>1, <1>2, <1>5, <2>1
  <2>2. CASE ~(k < i)
    <3>1. k \in i .. Len(s) - 1 /\ k - (i - 1) \in 1 .. Len(s) - i
          /\ i + (k - (i - 1)) = k + 1
      BY <1>1, <2>2
    <3>2. (a \o b)[k] = b[k - (i - 1)]
      BY <1>5, <3>1
    <3>3. b[k - (i - 1)] = s[i + (k - (i - 1))]
      BY <1>3, <3>1
    <3> QED BY <2>2, <3>1, <3>2, <3>3
  <2> QED BY <2>1, <2>2
<1>7. IsSeq(a \o b) /\ DOMAIN (a \o b) = 1 .. Len(s) - 1
  <2> DEFINE c == a \o b
  <2>1. c \in Seq(S) /\ Len(c) = Len(s) - 1
    BY <1>5
  <2> HIDE DEF c
  <2>2. IsSeq(c) /\ DOMAIN c = 1 .. Len(s) - 1
    BY <2>1, IsSeqWhen
  <2> QED BY <2>2 DEF c
<1> QED BY <1>1, <1>4, <1>5, <1>6, <1>7

(* The partials in flight of one showing follow those of earlier ones, and *)
(* the last thing the respondent of now did is either the last of them, or *)
(* what the server holds, with nothing of this showing in flight.          *)
Ordered ==
  \A i, j \in DOMAIN saves : i < j => saves[i].showing <= saves[j].showing

Mine == saves # <<>> /\ saves[Len(saves)].showing = showing

Drafted ==
  IF Mine THEN saves[Len(saves)].answers = answers[showing]
  ELSE /\ \A i \in DOMAIN saves : saves[i].showing # showing
       /\ IF partial = NoPartial THEN answers[showing] = <<>>
          ELSE partial.answers = answers[showing]

SavesTyped ==
  /\ IsSeq(saves)
  /\ \A i \in DOMAIN saves :
       /\ DOMAIN saves[i] = {"showing", "at", "answers"}
       /\ saves[i].showing \in 1 .. showing

DraftInv ==
  /\ showing \in 1 .. MaxShowings
  /\ answers = [g \in 1 .. MaxShowings |-> answers[g]]
  /\ {"unseen", "impatient", "cleared", "late"} \subseteq DOMAIN ghost
  /\ \A j \in jobs : {"showing", "live"} \subseteq DOMAIN j /\ j.showing \in 1 .. showing
  /\ SavesTyped
  /\ ~ghost.late => Ordered /\ (responses = {} => Drafted)

(* What a step does to the partials and to what they are about.            *)
Untouched ==
  /\ UNCHANGED <<saves, answers, showing>>
  /\ ghost'.late <=> ghost.late
  /\ UNCHANGED <<partial, responses>> \/ responses' # {}

Recording(g, ans) ==
  /\ g \in 1 .. showing /\ UNCHANGED <<showing, partial, responses>>
  /\ answers' = [answers EXCEPT ![g] = ans]
  /\ \E id : saves' = Append(saves, [showing |-> g, at |-> id, answers |-> ans])
  /\ ghost'.late <=> ghost.late \/ g # showing

JobsOf == \A j \in jobs' : /\ {"showing", "live"} \subseteq DOMAIN j
                           /\ j.showing \in 1 .. showing

LEMMA DetachedJobs ==
  ASSUME NEW js, NEW n \in Nat,
         \A j \in js : {"showing", "live"} \subseteq DOMAIN j /\ j.showing \in 1 .. n
  PROVE  \A j \in Detached(js) :
           {"showing", "live"} \subseteq DOMAIN j /\ j.showing \in 1 .. n
  BY DEF Detached

LEMMA DraftSteps ==
  ASSUME DraftInv, [SurveyNext]_surveyVars
  PROVE  /\ DOMAIN ghost' = DOMAIN ghost
         /\ JobsOf
         /\ \/ Untouched
            \/ \E g, ans : Recording(g, ans)
            \/ Reopen \/ SaveArrives \/ SaveLost
<1>0. /\ showing \in Nat /\ showing \in 1 .. showing
      /\ {"unseen", "impatient", "cleared", "late"} \subseteq DOMAIN ghost
      /\ \A j \in jobs : {"showing", "live"} \subseteq DOMAIN j /\ j.showing \in 1 .. showing
  BY DEF DraftInv
<1>1. \A j \in Detached(jobs) :
        {"showing", "live"} \subseteq DOMAIN j /\ j.showing \in 1 .. showing
  BY <1>0, DetachedJobs
<1> DEFINE Goal == /\ DOMAIN ghost' = DOMAIN ghost
                   /\ JobsOf
                   /\ \/ Untouched
                      \/ \E g, ans : Recording(g, ans)
                      \/ Reopen \/ SaveArrives \/ SaveLost
<1>2. ASSUME Input PROVE Goal
  <2>1. PICK v : Record(showing, Current, v)
    BY <1>2 DEF Input
  <2>2. Recording(showing, Recorded(answers[showing], Current, v))
    BY <1>0, <1>2, <2>1 DEF Input, Record, Recording, server
  <2> QED BY <1>0, <1>2, <2>2 DEF Input, JobsOf
<1>3. ASSUME PickFile \/ Pay PROVE Goal
  <2>1. /\ DOMAIN ghost' = DOMAIN ghost /\ Untouched
        /\ jobs' = jobs \cup {[showing |-> showing, at |-> Current, live |-> TRUE, n |-> clicks]}
    BY <1>3 DEF PickFile, Pay, StartJob, Untouched, server
  <2> QED BY <1>0, <2>1 DEF JobsOf
<1>4. ASSUME Gate \/ Back \/ Close PROVE Goal
  <2>1. DOMAIN ghost' = DOMAIN ghost /\ Untouched /\ jobs' = Detached(jobs)
    BY <1>0, <1>4 DEF Gate, Back, Close, Untouched, server
  <2> QED BY <1>1, <2>1 DEF JobsOf
<1>5. ASSUME Advance PROVE Goal
  <2>1. Record(showing, Current, field)
    BY <1>5 DEF Advance
  <2>2. /\ DOMAIN ghost' = DOMAIN ghost /\ (ghost'.late <=> ghost.late)
        /\ UNCHANGED <<showing, partial, responses>>
        /\ jobs' = jobs \/ jobs' = Detached(jobs)
    BY <1>0, <1>5 DEF Advance, server
  <2>3. Recording(showing, Recorded(answers[showing], Current, field))
    BY <1>0, <2>1, <2>2 DEF Record, Recording
  <2> QED BY <1>0, <1>1, <2>2, <2>3 DEF JobsOf
<1>6. ASSUME NEW j \in jobs, NEW v, Ended(j, v) PROVE Goal
  <2>1. Record(j.showing, j.at, v)
    BY <1>6 DEF Ended
  <2>2. /\ DOMAIN ghost' = DOMAIN ghost
        /\ (ghost'.late <=> ghost.late \/ j.showing # showing)
        /\ UNCHANGED <<showing, partial, responses>> /\ jobs' = jobs \ {j}
    BY <1>0, <1>6 DEF Ended, server
  <2>3. Recording(j.showing, Recorded(answers[j.showing], j.at, v))
    BY <1>0, <2>1, <2>2 DEF Record, Recording
  <2> QED BY <1>0, <2>2, <2>3 DEF JobsOf
<1>7. ASSUME PaymentFails PROVE Goal
  <2>1. DOMAIN ghost' = DOMAIN ghost /\ Untouched /\ jobs' \subseteq jobs
    BY <1>0, <1>7 DEF PaymentFails, Untouched, server
  <2> QED BY <1>0, <2>1 DEF JobsOf
<1>8. ASSUME NEW s \in submits, NEW message, Settled(s, message),
             UNCHANGED server \/ Accepted(s)
      PROVE  Goal
  <2>1. DOMAIN ghost' = DOMAIN ghost /\ (jobs' = jobs \/ jobs' = Detached(jobs))
    BY <1>0, <1>8 DEF Settled
  <2>2. Untouched
    BY <1>0, <1>8 DEF Settled, Accepted, server, Untouched
  <2> QED BY <1>0, <1>1, <2>1, <2>2 DEF JobsOf
<1>9. ASSUME Reopen PROVE Goal
  <2>1. DOMAIN ghost' = DOMAIN ghost /\ jobs' = Detached(jobs)
    BY <1>0, <1>9 DEF Reopen, Opened
  <2> QED BY <1>1, <1>9, <2>1 DEF JobsOf
<1>10. ASSUME SaveArrives \/ SaveLost PROVE Goal
  <2>1. DOMAIN ghost' = DOMAIN ghost /\ jobs' = jobs
    BY <1>0, <1>10 DEF SaveArrives, SaveLost
  <2> QED BY <1>0, <1>10, <2>1 DEF JobsOf
<1>11. ASSUME UNCHANGED surveyVars PROVE Goal
  <2>1. DOMAIN ghost' = DOMAIN ghost /\ jobs' = jobs /\ Untouched
    BY <1>0, <1>11 DEF surveyVars, Untouched
  <2> QED BY <1>0, <2>1 DEF JobsOf
<1> HIDE DEF Goal
<1>12. ASSUME JobSucceeds \/ UploadFails PROVE Goal
  BY <1>6, <1>12 DEF JobSucceeds, UploadFails
<1>13. ASSUME SubmitSucceeds \/ SubmitFails \/ AnswerLost PROVE Goal
  BY <1>8, <1>13 DEF SubmitSucceeds, SubmitFails, AnswerLost
<1>14. Goal
  BY <1>2, <1>3, <1>4, <1>5, <1>7, <1>9, <1>10, <1>11, <1>12, <1>13 DEF SurveyNext
<1> QED BY <1>14 DEF Goal

LEMMA InitDraft == ASSUME SurveyInit PROVE DraftInv
<1>1. showing \in 1 .. MaxShowings /\ showing = 1 /\ jobs = {} /\ saves = <<>>
  BY SurveyBoundsAssumption DEF SurveyInit
<1>2. answers = [g \in 1 .. MaxShowings |-> <<>>] /\ partial = NoPartial
  BY DEF SurveyInit
<1>3. IsSeq(<<>>) /\ DOMAIN saves = {}
  <2>1. <<>> \in Seq({})
    OBVIOUS
  <2>2. DOMAIN <<>> = {}
    OBVIOUS
  <2> QED BY <1>1, <2>1, <2>2, IsSeqWhen
<1>4. SavesTyped /\ Ordered
  BY <1>1, <1>3 DEF SavesTyped, Ordered
<1>5. Drafted
  BY <1>1, <1>2, <1>3 DEF Drafted, Mine
<1>6. {"unseen", "impatient", "cleared", "late"} \subseteq DOMAIN ghost
  BY DEF SurveyInit
<1> QED BY <1>1, <1>2, <1>4, <1>5, <1>6 DEF DraftInv

(* An answer is recorded, and its partial is the last one in flight.       *)
LEMMA RecordingDraft ==
  ASSUME DraftInv, NEW g, NEW ans, Recording(g, ans)
  PROVE  /\ answers' = [n \in 1 .. MaxShowings |-> answers'[n]]
         /\ SavesTyped'
         /\ ~ghost'.late => Ordered' /\ (responses' = {} => Drafted')
<1>1. /\ g \in 1 .. showing /\ showing' = showing /\ responses' = responses
      /\ answers' = [answers EXCEPT ![g] = ans]
      /\ showing \in 1 .. MaxShowings
      /\ answers = [n \in 1 .. MaxShowings |-> answers[n]]
      /\ ghost'.late <=> ghost.late \/ g # showing
  BY DEF Recording, DraftInv
<1>2. /\ answers'[g] = ans
      /\ answers' = [n \in 1 .. MaxShowings |-> answers'[n]]
  <2>1. g \in 1 .. MaxShowings
    BY <1>1, SurveyBoundsAssumption
  <2>2. DOMAIN answers = 1 .. MaxShowings
    BY <1>1
  <2> QED BY <1>1, <2>1, <2>2
<1>3. PICK id : saves' = Append(saves, [showing |-> g, at |-> id, answers |-> ans])
  BY DEF Recording
<1> DEFINE new == [showing |-> g, at |-> id, answers |-> ans]
           n == Len(saves)
<1>4. /\ DOMAIN new = {"showing", "at", "answers"}
      /\ new.showing = g /\ new.answers = ans
  OBVIOUS
<1> HIDE DEF new
<1>5. IsSeq(saves) /\ saves' = Append(saves, new)
  BY <1>3 DEF DraftInv, SavesTyped, new
<1>6. /\ IsSeq(saves') /\ saves' # <<>> /\ n \in Nat /\ DOMAIN saves = 1 .. n
      /\ Len(saves') = n + 1 /\ DOMAIN saves' = 1 .. n + 1
      /\ \A k \in 1 .. n : saves'[k] = saves[k]
      /\ saves'[n + 1] = new
  BY <1>5, SeqAppended
<1> HIDE DEF n
<1>7. \A k \in DOMAIN saves' : (k \in DOMAIN saves /\ saves'[k] = saves[k])
                               \/ (k = n + 1 /\ saves'[k] = new)
  BY <1>6
<1>8. SavesTyped'
  <2>1. ASSUME NEW k \in DOMAIN saves'
        PROVE  /\ DOMAIN saves'[k] = {"showing", "at", "answers"}
               /\ saves'[k].showing \in 1 .. showing'
    BY <1>1, <1>4, <1>7 DEF DraftInv, SavesTyped
  <2> QED BY <1>6, <2>1 DEF SavesTyped
<1>9. ASSUME ~ghost'.late PROVE Ordered' /\ Drafted'
  <2>1. g = showing /\ Ordered
    BY <1>1, <1>9 DEF DraftInv
  <2>2. ASSUME NEW i \in DOMAIN saves', NEW j \in DOMAIN saves', i < j
        PROVE  saves'[i].showing <= saves'[j].showing
    <3>1. i \in DOMAIN saves /\ saves'[i] = saves[i]
      BY <1>6, <1>7, <2>2
    <3>2. CASE j \in DOMAIN saves /\ saves'[j] = saves[j]
      BY <2>1, <2>2, <3>1, <3>2 DEF Ordered
    <3>3. CASE saves'[j] = new
      <4>1. saves[i].showing \in 1 .. showing
        BY <3>1 DEF DraftInv, SavesTyped
      <4> QED BY <1>1, <1>4, <2>1, <3>1, <3>3, <4>1
    <3> QED BY <1>7, <3>2, <3>3
  <2>3. Mine' /\ saves'[Len(saves')].answers = answers'[showing']
    BY <1>1, <1>2, <1>4, <1>6, <2>1 DEF Mine
  <2> QED BY <2>2, <2>3 DEF Ordered, Drafted
<1> QED BY <1>2, <1>8, <1>9

(* The next showing resumes from what the server holds.                    *)
LEMMA ReopenDraft ==
  ASSUME DraftInv, Reopen
  PROVE  /\ showing' \in 1 .. MaxShowings /\ showing' = showing + 1
         /\ answers' = [n \in 1 .. MaxShowings |-> answers'[n]]
         /\ SavesTyped'
         /\ ~ghost'.late => Ordered' /\ (responses' = {} => Drafted')
<1>1. /\ showing \in 1 .. MaxShowings /\ showing < MaxShowings
      /\ showing' = showing + 1 /\ UNCHANGED <<saves, partial, responses>>
      /\ answers = [n \in 1 .. MaxShowings |-> answers[n]]
      /\ answers' = [answers EXCEPT ![showing'] =
                       IF partial = NoPartial THEN <<>> ELSE partial.answers]
      /\ ghost'.late <=> ghost.late
  BY DEF DraftInv, Reopen, Opened, server
<1>2. showing' \in 1 .. MaxShowings /\ showing \in Nat
  BY <1>1, SurveyBoundsAssumption
<1>3. /\ answers' = [n \in 1 .. MaxShowings |-> answers'[n]]
      /\ answers'[showing'] = IF partial = NoPartial THEN <<>> ELSE partial.answers
  BY <1>1, <1>2
<1>4. ASSUME NEW i \in DOMAIN saves
      PROVE  /\ DOMAIN saves[i] = {"showing", "at", "answers"}
             /\ saves[i].showing \in 1 .. showing' /\ saves[i].showing # showing'
  <2>1. DOMAIN saves[i] = {"showing", "at", "answers"} /\ saves[i].showing \in 1 .. showing
    BY DEF DraftInv, SavesTyped
  <2> QED BY <1>1, <1>2, <2>1
<1>5. IsSeq(saves)
  BY DEF DraftInv, SavesTyped
<1>6. SavesTyped'
  BY <1>1, <1>4, <1>5 DEF SavesTyped
<1>7. ~Mine'
  <2>1. saves # <<>> => Len(saves) \in DOMAIN saves
    BY <1>5 DEF IsSeq
  <2> QED BY <1>1, <1>4, <2>1 DEF Mine
<1>8. Drafted'
  BY <1>1, <1>3, <1>4, <1>7 DEF Drafted
<1>9. ~ghost'.late => Ordered'
  BY <1>1 DEF DraftInv, Ordered
<1> QED BY <1>1, <1>2, <1>3, <1>6, <1>8, <1>9

(* A partial reaches the server.                                           *)
LEMMA ArrivesDraft ==
  ASSUME DraftInv, SaveArrives
  PROVE  /\ UNCHANGED <<showing, answers>> /\ SavesTyped'
         /\ ~ghost'.late => Ordered' /\ (responses' = {} => Drafted')
<1>1. PICK i \in DOMAIN saves :
        /\ partial' = saves[i] /\ saves' = RemoveAt(saves, i)
        /\ UNCHANGED <<showing, answers, responses>>
        /\ ghost'.late <=> ghost.late \/ i > 1 \/ saves[i].showing # showing
  BY DEF SaveArrives, DraftInv
<1> DEFINE n == Len(saves)
<1>2. /\ IsSeq(saves') /\ n \in Nat /\ DOMAIN saves = 1 .. n
      /\ Len(saves') = n - 1 /\ DOMAIN saves' = 1 .. n - 1
      /\ \A k \in 1 .. n - 1 : saves'[k] = saves[IF k < i THEN k ELSE k + 1]
  BY <1>1, SeqRemoved DEF DraftInv, SavesTyped
<1> HIDE DEF n
<1>3. ASSUME NEW k \in DOMAIN saves' PROVE \E j \in DOMAIN saves : saves'[k] = saves[j]
  <2>1. (IF k < i THEN k ELSE k + 1) \in DOMAIN saves
    BY <1>2
  <2> QED BY <1>2, <2>1
<1>4. SavesTyped'
  <2>1. ASSUME NEW k \in DOMAIN saves'
        PROVE  /\ DOMAIN saves'[k] = {"showing", "at", "answers"}
               /\ saves'[k].showing \in 1 .. showing'
    BY <1>1, <1>3 DEF DraftInv, SavesTyped
  <2> QED BY <1>2, <2>1 DEF SavesTyped
<1>5. ASSUME ~ghost'.late PROVE Ordered' /\ (responses' = {} => Drafted')
  <2>1. /\ ~ghost.late /\ i = 1 /\ saves[1].showing = showing
        /\ Ordered /\ (responses = {} => Drafted)
    BY <1>1, <1>2, <1>5 DEF DraftInv
  <2>2. \A k \in 1 .. n - 1 : saves'[k] = saves[k + 1] /\ k + 1 \in DOMAIN saves
    BY <1>2, <2>1
  <2>3. ASSUME NEW j \in DOMAIN saves', NEW k \in DOMAIN saves', j < k
        PROVE  saves'[j].showing <= saves'[k].showing
    <3>1. j + 1 < k + 1 /\ j + 1 \in DOMAIN saves /\ k + 1 \in DOMAIN saves
      BY <1>2, <2>2, <2>3
    <3>2. saves[j + 1].showing <= saves[k + 1].showing
      BY <2>1, <3>1 DEF Ordered
    <3> QED BY <1>2, <2>2, <3>2
  <2>4. ASSUME NEW k \in DOMAIN saves PROVE saves[k].showing = showing
    <3>1. saves[k].showing \in 1 .. showing /\ showing \in Nat
      BY DEF DraftInv, SavesTyped
    <3>2. k = 1 \/ (1 < k /\ 1 \in DOMAIN saves)
      BY <1>2
    <3>3. k = 1 \/ showing <= saves[k].showing
      BY <2>1, <3>2 DEF Ordered
    <3> QED BY <2>1, <3>1, <3>3
  <2>5. ASSUME responses' = {} PROVE Drafted'
    <3>1. n > 0 /\ n \in DOMAIN saves /\ saves # <<>>
      BY <1>1, <1>2
    <3>2. Mine
      BY <2>4, <3>1 DEF Mine, n
    <3>3. saves[n].answers = answers[showing]
      BY <1>1, <2>1, <2>5, <3>2 DEF Drafted, n
    <3>4. CASE n = 1
      <4>1. DOMAIN saves' = {} /\ Len(saves') = 0 /\ saves' = <<>>
        BY <1>2, <3>4 DEF IsSeq
      <4>2. partial' = saves[1] /\ DOMAIN saves[1] = {"showing", "at", "answers"}
        BY <1>1, <1>2, <2>1, <3>1 DEF DraftInv, SavesTyped
      <4>3. partial' # NoPartial
        BY <4>2 DEF NoPartial
      <4> QED BY <1>1, <3>3, <3>4, <4>1, <4>2, <4>3 DEF Drafted, Mine
    <3>5. CASE n > 1
      <4>1. n - 1 \in 1 .. n - 1 /\ (n - 1) + 1 = n
        BY <1>2, <3>5
      <4>2. saves'[n - 1] = saves[n]
        BY <2>2, <4>1
      <4>3. saves' # <<>> /\ Len(saves') = n - 1
        BY <1>2, <4>1
      <4> QED BY <1>1, <2>4, <3>1, <3>3, <4>2, <4>3 DEF Drafted, Mine
    <3> QED BY <1>2, <3>1, <3>4, <3>5
  <2> QED BY <2>3, <2>5 DEF Ordered
<1> QED BY <1>1, <1>4, <1>5

LEMMA StepDraft ==
  ASSUME DraftInv, [SurveyNext]_surveyVars PROVE DraftInv'
<1>1. /\ DOMAIN ghost' = DOMAIN ghost /\ JobsOf
      /\ \/ Untouched
         \/ \E g, ans : Recording(g, ans)
         \/ Reopen \/ SaveArrives \/ SaveLost
  BY DraftSteps
<1>2. /\ showing \in 1 .. MaxShowings /\ showing \in Nat /\ SavesTyped
      /\ answers = [n \in 1 .. MaxShowings |-> answers[n]]
      /\ {"unseen", "impatient", "cleared", "late"} \subseteq DOMAIN ghost'
      /\ ~ghost.late => Ordered /\ (responses = {} => Drafted)
  BY <1>1 DEF DraftInv
<1>3. ASSUME showing' = showing
      PROVE  /\ showing' \in 1 .. MaxShowings
             /\ \A j \in jobs' : {"showing", "live"} \subseteq DOMAIN j /\ j.showing \in 1 .. showing'
  BY <1>1, <1>2, <1>3 DEF JobsOf
<1>4. CASE Untouched
  <2>1. SavesTyped' /\ (~ghost'.late => Ordered')
    BY <1>2, <1>4 DEF Untouched, SavesTyped, Ordered
  <2>2. ~ghost'.late /\ responses' = {} => Drafted'
    BY <1>2, <1>4 DEF Untouched, Drafted, Mine
  <2> QED BY <1>2, <1>3, <1>4, <2>1, <2>2 DEF DraftInv, Untouched
<1>5. ASSUME NEW g, NEW ans, Recording(g, ans) PROVE DraftInv'
  <2>1. showing' = showing
    BY <1>5 DEF Recording
  <2> QED BY <1>2, <1>3, <1>5, <2>1, RecordingDraft DEF DraftInv
<1>6. CASE Reopen
  <2>1. \A j \in jobs' : {"showing", "live"} \subseteq DOMAIN j /\ j.showing \in 1 .. showing'
    BY <1>1, <1>2, <1>6, ReopenDraft DEF JobsOf
  <2> QED BY <1>2, <1>6, <2>1, ReopenDraft DEF DraftInv
<1>7. CASE SaveArrives
  <2>1. /\ UNCHANGED <<showing, answers>> /\ SavesTyped'
        /\ ~ghost'.late => Ordered' /\ (responses' = {} => Drafted')
    BY <1>7, ArrivesDraft
  <2> QED BY <1>2, <1>3, <2>1 DEF DraftInv
<1>8. CASE SaveLost
  <2>1. /\ UNCHANGED <<showing, answers>> /\ ghost'.late
        /\ saves' = Tail(saves) /\ saves # <<>>
    BY <1>8 DEF SaveLost, DraftInv
  <2>2. /\ IsSeq(saves') /\ \A k \in DOMAIN saves' : k + 1 \in DOMAIN saves /\ saves'[k] = saves[k + 1]
    <3> DEFINE S == {saves[i] : i \in DOMAIN saves}
    <3>1. saves \in Seq(S)
      BY <1>2 DEF SavesTyped, IsSeq
    <3> HIDE DEF S
    <3>2. /\ saves' \in Seq(S) /\ DOMAIN saves = 1 .. Len(saves) /\ Len(saves) \in Nat
          /\ Len(saves') = Len(saves) - 1 /\ DOMAIN saves' = 1 .. Len(saves) - 1
          /\ \A k \in 1 .. Len(saves) - 1 : saves'[k] = saves[k + 1]
      BY <2>1, <3>1, HeadTailProperties
    <3> QED BY <3>2, IsSeqWhen
  <2>3. SavesTyped'
    BY <1>2, <2>1, <2>2 DEF SavesTyped
  <2> QED BY <1>2, <1>3, <2>1, <2>3 DEF DraftInv
<1> QED BY <1>1, <1>4, <1>5, <1>6, <1>7, <1>8

(* Once nothing is in flight, the server's partial is the last thing the   *)
(* respondent did, whatever was clicked and however often the survey was   *)
(* shown, unless a partial was lost or overtaken, or an earlier renderer   *)
(* wrote after a later one was opened.                                     *)
THEOREM ReloadLosesNothing == SurveySpec => []DraftSaved
<1>1. SurveyInit => DraftInv
  BY InitDraft
<1>2. DraftInv /\ [SurveyNext]_surveyVars => DraftInv'
  BY StepDraft
<1>3. DraftInv => DraftSaved
  <2> SUFFICES ASSUME DraftInv, saves = <<>>, ~ghost.late, responses = {},
                      DOMAIN answers[showing] # {}
               PROVE  partial # NoPartial /\ partial.answers = answers[showing]
    BY DEF DraftSaved
  <2>1. Drafted /\ ~Mine
    BY DEF DraftInv, Mine
  <2> QED BY <2>1 DEF Drafted
<1> QED BY <1>1, <1>2, <1>3, PTL DEF SurveySpec

-----------------------------------------------------------------------------
(* The order of the questions and the lists of a ranking.                  *)

(* filter() goes through its list from the front.  The provers have no     *)
(* induction over an operator, but a least counterexample does as well.    *)
LEMMA Filtering ==
  ASSUME NEW S, NEW s \in Seq(S), NEW A
  PROVE  \E kept :
           /\ kept = [n \in 0 .. Len(s) |->
                        IF n = 0 THEN <<>>
                        ELSE IF s[n] \in A THEN Append(kept[n - 1], s[n]) ELSE kept[n - 1]]
           /\ Among(s, A) = kept[Len(s)]
<1> DEFINE Runs(kept, m) ==
             kept = [n \in 0 .. m |->
                       IF n = 0 THEN <<>>
                       ELSE IF s[n] \in A THEN Append(kept[n - 1], s[n]) ELSE kept[n - 1]]
           Bad == {m \in 0 .. Len(s) : ~(\E kept : Runs(kept, m))}
<1>1. Len(s) \in Nat
  OBVIOUS
<1>2. Runs([n \in 0 .. 0 |-> <<>>], 0)
  OBVIOUS
<1>3. ASSUME NEW m \in 1 .. Len(s), NEW g, Runs(g, m - 1)
      PROVE  \E kept : Runs(kept, m)
  <2> DEFINE next == IF s[m] \in A THEN Append(g[m - 1], s[m]) ELSE g[m - 1]
             h == [n \in 0 .. m |-> IF n = m THEN next ELSE g[n]]
  <2>1. DOMAIN h = 0 .. m /\ h[m] = next /\ \A n \in 0 .. m - 1 : h[n] = g[n]
    OBVIOUS
  <2> HIDE DEF next, h
  <2>2. ASSUME NEW n \in 0 .. m
        PROVE  h[n] = IF n = 0 THEN <<>>
                      ELSE IF s[n] \in A THEN Append(h[n - 1], s[n]) ELSE h[n - 1]
    <3>1. CASE n = m
      <4>1. n # 0 /\ h[n - 1] = g[n - 1]
        BY <2>1, <3>1
      <4> QED BY <2>1, <3>1, <4>1 DEF next
    <3>2. CASE n # m
      <4>1. n \in 0 .. m - 1 /\ (n # 0 => n - 1 \in 0 .. m - 1)
        BY <3>2
      <4>2. g[n] = IF n = 0 THEN <<>>
                   ELSE IF s[n] \in A THEN Append(g[n - 1], s[n]) ELSE g[n - 1]
        BY <1>3, <4>1
      <4> QED BY <2>1, <4>1, <4>2
    <3> QED BY <3>1, <3>2
  <2>3. h = [n \in 0 .. m |-> h[n]]
    BY DEF h
  <2>4. Runs(h, m)
    BY <2>2, <2>3
  <2> HIDE DEF Runs
  <2> QED BY <2>4
<1> HIDE DEF Runs
<1>4. Bad = {}
  <2> SUFFICES ASSUME Bad # {} PROVE FALSE
    OBVIOUS
  <2>0. Bad \in SUBSET Nat
    BY <1>1
  <2>1. PICK m \in Bad : \A k \in Bad : m <= k
    <3> HIDE DEF Bad
    <3> QED BY <2>0, Least
  <2>2. m # 0
    BY <1>2
  <2>3. m \in 1 .. Len(s) /\ m - 1 \in 0 .. Len(s) /\ m - 1 \notin Bad
    BY <1>1, <2>1, <2>2
  <2>4. PICK g : Runs(g, m - 1)
    BY <2>3
  <2> QED BY <1>3, <2>1, <2>3, <2>4
<1>5. \E kept : Runs(kept, Len(s))
  BY <1>1, <1>4
<1>6. Among(s, A) = (CHOOSE kept : Runs(kept, Len(s)))[Len(s)]
  BY DEF Among, Runs
<1>7. Runs(CHOOSE kept : Runs(kept, Len(s)), Len(s))
  BY <1>5
<1> QED BY <1>6, <1>7 DEF Runs

(* What it returns: the elements that pass, in a list that repeats none    *)
(* that was not repeated; a list that passes as a whole is as it was.      *)
LEMMA AmongFacts ==
  ASSUME NEW S, NEW s \in Seq(S), NEW A
  PROVE  /\ Among(s, A) \in Seq(S)
         /\ ToSet(Among(s, A)) = ToSet(s) \cap A
         /\ IsInjective(s) => IsInjective(Among(s, A))
         /\ ToSet(s) \subseteq A => Among(s, A) = s
         /\ ToSet(s) \cap A = {} => Among(s, A) = <<>>
<1>1. PICK kept :
        /\ kept = [n \in 0 .. Len(s) |->
                     IF n = 0 THEN <<>>
                     ELSE IF s[n] \in A THEN Append(kept[n - 1], s[n]) ELSE kept[n - 1]]
        /\ Among(s, A) = kept[Len(s)]
  BY Filtering
<1>2. /\ kept[0] = <<>> /\ Len(s) \in Nat /\ DOMAIN s = 1 .. Len(s)
      /\ \A n \in 1 .. Len(s) :
           kept[n] = IF s[n] \in A THEN Append(kept[n - 1], s[n]) ELSE kept[n - 1]
  <2>1. Len(s) \in Nat /\ DOMAIN s = 1 .. Len(s)
    OBVIOUS
  <2>2. ASSUME NEW n \in 0 .. Len(s)
        PROVE  kept[n] = IF n = 0 THEN <<>>
                         ELSE IF s[n] \in A THEN Append(kept[n - 1], s[n]) ELSE kept[n - 1]
    BY <1>1, Zenon
  <2>3. 0 \in 0 .. Len(s) /\ \A n \in 1 .. Len(s) : n \in 0 .. Len(s) /\ n # 0
    BY <2>1
  <2> QED BY <2>1, <2>2, <2>3
<1> DEFINE Seen(n) == {s[i] : i \in 1 .. n}
           Good(n) ==
             /\ kept[n] \in Seq(S)
             /\ ToSet(kept[n]) = Seen(n) \cap A
             /\ IsInjective(s) => IsInjective(kept[n])
             /\ Seen(n) \subseteq A =>
                  Len(kept[n]) = n /\ \A i \in 1 .. n : kept[n][i] = s[i]
             /\ Seen(n) \cap A = {} => kept[n] = <<>>
           Bad == {n \in 0 .. Len(s) : ~Good(n)}
<1>3. Good(0)
  <2>1. kept[0] \in Seq(S) /\ DOMAIN kept[0] = {} /\ Len(kept[0]) = 0
    BY <1>2
  <2> QED BY <1>2, <2>1 DEF ToSet, IsInjective
<1>4. ASSUME NEW n \in 1 .. Len(s), Good(n - 1) PROVE Good(n)
  <2> DEFINE k == kept[n - 1]
             e == s[n]
  <2>1. /\ k \in Seq(S) /\ e \in S /\ Len(k) \in Nat /\ DOMAIN k = 1 .. Len(k)
        /\ kept[n] = IF e \in A THEN Append(k, e) ELSE k
    BY <1>2, <1>4
  <2>2. Seen(n) = Seen(n - 1) \cup {e}
    <3>1. 1 .. n = (1 .. n - 1) \cup {n}
      OBVIOUS
    <3> QED BY <3>1
  <2>3. /\ ToSet(k) = Seen(n - 1) \cap A
        /\ IsInjective(s) => IsInjective(k)
        /\ Seen(n - 1) \subseteq A =>
             Len(k) = n - 1 /\ \A i \in 1 .. n - 1 : k[i] = s[i]
        /\ Seen(n - 1) \cap A = {} => k = <<>>
    BY <1>4
  <2>4. ASSUME IsInjective(s) PROVE e \notin Seen(n - 1)
    BY <1>2, <2>4 DEF IsInjective
  <2> HIDE DEF k, e, Seen
  <2>5. CASE e \in A
    <3> DEFINE l == Append(k, e)
    <3>1. /\ l \in Seq(S) /\ Len(l) = Len(k) + 1 /\ DOMAIN l = 1 .. Len(k) + 1
          /\ \A i \in 1 .. Len(k) : l[i] = k[i]
          /\ l[Len(k) + 1] = e
      BY <2>1
    <3>2. kept[n] = l
      BY <2>1, <2>5
    <3> HIDE DEF l
    <3>3. ToSet(l) = ToSet(k) \cup {e}
      <4>1. \A i \in DOMAIN l : i \in DOMAIN k \/ i = Len(k) + 1
        BY <2>1, <3>1
      <4>2. \A i \in DOMAIN k : i \in DOMAIN l /\ l[i] = k[i]
        BY <2>1, <3>1
      <4>3. Len(k) + 1 \in DOMAIN l
        BY <2>1, <3>1
      <4>4. \A x \in ToSet(l) : x \in ToSet(k) \cup {e}
        BY <2>1, <3>1, <4>1 DEF ToSet
      <4>5. \A x \in ToSet(k) : x \in ToSet(l)
        BY <4>2 DEF ToSet
      <4>6. e \in ToSet(l)
        BY <3>1, <4>3 DEF ToSet
      <4> QED BY <4>4, <4>5, <4>6
    <3>4. ToSet(l) = Seen(n) \cap A
      BY <2>2, <2>3, <2>5, <3>3
    <3>5. ASSUME IsInjective(s), NEW i \in DOMAIN l, NEW j \in DOMAIN l, l[i] = l[j]
          PROVE  i = j
      <4>1. e \notin ToSet(k) /\ IsInjective(k)
        BY <2>3, <2>4, <3>5
      <4>2. \A m \in DOMAIN l : (m \in DOMAIN k /\ l[m] = k[m] /\ k[m] # e)
                                \/ (m = Len(k) + 1 /\ l[m] = e)
        BY <2>1, <3>1, <4>1 DEF ToSet
      <4> QED BY <3>5, <4>1, <4>2 DEF IsInjective
    <3>6. Seen(n) \subseteq A => Len(l) = n /\ \A i \in 1 .. n : l[i] = s[i]
      <4> SUFFICES ASSUME Seen(n) \subseteq A
                   PROVE  Len(l) = n /\ \A i \in 1 .. n : l[i] = s[i]
        OBVIOUS
      <4>1. Len(k) = n - 1 /\ \A i \in 1 .. n - 1 : k[i] = s[i]
        BY <2>2, <2>3
      <4>2. Len(l) = n /\ l[n] = s[n]
        BY <3>1, <4>1 DEF e
      <4>3. ASSUME NEW i \in 1 .. n - 1 PROVE l[i] = s[i]
        BY <3>1, <4>1
      <4>4. \A i \in 1 .. n : i \in 1 .. n - 1 \/ i = n
        OBVIOUS
      <4> QED BY <4>2, <4>3, <4>4
    <3>7. Seen(n) \cap A # {}
      BY <2>2, <2>5
    <3> QED BY <3>1, <3>2, <3>4, <3>5, <3>6, <3>7 DEF IsInjective
  <2>6. CASE e \notin A
    <3>1. kept[n] = k
      BY <2>1, <2>6
    <3>2. ~(Seen(n) \subseteq A) /\ Seen(n) \cap A = Seen(n - 1) \cap A
      BY <2>2, <2>6
    <3> QED BY <2>1, <2>3, <3>1, <3>2
  <2> QED BY <2>5, <2>6
<1> HIDE DEF Good
<1>5. Bad = {}
  <2> SUFFICES ASSUME Bad # {} PROVE FALSE
    OBVIOUS
  <2>0. Bad \in SUBSET Nat
    BY <1>2
  <2>1. PICK m \in Bad : \A n \in Bad : m <= n
    <3> HIDE DEF Bad
    <3> QED BY <2>0, Least
  <2>2. m \in 1 .. Len(s) /\ m - 1 \in 0 .. Len(s) /\ m - 1 \notin Bad
    BY <1>2, <1>3, <2>1
  <2> QED BY <1>4, <2>1, <2>2
<1>6. Good(Len(s)) /\ Seen(Len(s)) = ToSet(s)
  BY <1>2, <1>5 DEF ToSet
<1>7. ToSet(s) \subseteq A => Among(s, A) = s
  <2> SUFFICES ASSUME ToSet(s) \subseteq A PROVE Among(s, A) = s
    OBVIOUS
  <2> DEFINE t == Among(s, A)
  <2>1. t \in Seq(S) /\ Len(t) = Len(s) /\ \A i \in 1 .. Len(s) : t[i] = s[i]
    BY <1>1, <1>6 DEF Good
  <2> HIDE DEF t
  <2>2. t = s
    BY <2>1
  <2> QED BY <2>2 DEF t
<1> QED BY <1>1, <1>6, <1>7 DEF Good

(* The constructor's sort puts every question at a place of its own.       *)
LEMMA SortedFacts ==
  ASSUME NEW qs, qs \in Seq(ToSet(qs)), \A q \in ToSet(qs) : q.order \in Int
  PROVE  \E p \in [DOMAIN qs -> DOMAIN qs] :
           /\ Sorted(qs) = [n \in DOMAIN qs |-> qs[p[n]]]
           /\ \A m, n \in DOMAIN qs : p[m] = p[n] => m = n
           /\ \A j \in DOMAIN qs : \E n \in DOMAIN qs : p[n] = j
<1> DEFINE D == DOMAIN qs
           Upto(j) == {i \in D : qs[i].order < qs[j].order
                                 \/ (qs[i].order = qs[j].order /\ i <= j)}
           place == [j \in D |-> Place(qs, j)]
           p == [n \in D |-> CHOOSE j \in D : place[j] = n]
<1>1. /\ Len(qs) \in Nat /\ D = 1 .. Len(qs)
      /\ \A j \in D : qs[j].order \in Int /\ j \in Nat
  BY DEF ToSet
<1>2. \A j \in D : place[j] = Cardinality(Upto(j))
  BY DEF Place
<1> HIDE DEF place
<1>3. IsFiniteSet(D) /\ Cardinality(D) = Len(qs)
  <2>1. /\ IsFiniteSet(1 .. Len(qs))
        /\ Cardinality(1 .. Len(qs)) = IF 1 > Len(qs) THEN 0 ELSE Len(qs) - 1 + 1
    BY <1>1, FS_Interval
  <2> QED BY <1>1, <2>1
<1>4. ASSUME NEW j \in D
      PROVE  IsFiniteSet(Upto(j)) /\ place[j] \in D
  <2>1. Upto(j) \in SUBSET D /\ j \in Upto(j)
    BY <1>1
  <2> HIDE DEF Upto, D
  <2>2. /\ IsFiniteSet(Upto(j)) /\ Cardinality(Upto(j)) <= Len(qs)
        /\ Cardinality(Upto(j)) \in Nat
    BY <1>3, <2>1, FS_Subset, FS_CardinalityType
  <2>3. Cardinality(Upto(j)) # 0
    BY <2>1, <2>2, FS_EmptySet
  <2> QED BY <1>1, <1>2, <2>2, <2>3
<1>5. ASSUME NEW i \in D, NEW j \in D, i # j, i \in Upto(j)
      PROVE  place[i] < place[j]
  <2>1. Upto(i) \in SUBSET Upto(j) /\ j \in Upto(j) /\ j \notin Upto(i)
    BY <1>1, <1>5
  <2> HIDE DEF Upto, D
  <2>2. /\ Cardinality(Upto(i)) <= Cardinality(Upto(j))
        /\ Cardinality(Upto(i)) # Cardinality(Upto(j))
    BY <1>4, <2>1, FS_Subset
  <2>3. Cardinality(Upto(i)) \in Nat /\ Cardinality(Upto(j)) \in Nat
    BY <1>4, FS_CardinalityType
  <2> QED BY <1>2, <2>2, <2>3
<1>6. ASSUME NEW i \in D, NEW j \in D, place[i] = place[j] PROVE i = j
  <2>1. i \in Upto(j) \/ j \in Upto(i)
    BY <1>1
  <2>2. place[i] \in Nat /\ place[j] \in Nat
    BY <1>1, <1>4
  <2> HIDE DEF Upto, D
  <2> QED BY <1>5, <1>6, <2>1, <2>2
<1> HIDE DEF Upto
<1>7. \A n \in D : \E j \in D : place[j] = n
  <2>1. place \in Injection(D, D)
    <3>1. place \in [D -> D]
      BY <1>4 DEF place
    <3> QED BY <1>6, <3>1 DEF Injection, IsInjective
  <2> HIDE DEF D
  <2>2. place \in Surjection(D, D)
    BY <1>3, <2>1, FS_Injection
  <2> QED BY <2>2 DEF Surjection
<1>8. \A n \in D : p[n] \in D /\ place[p[n]] = n
  BY <1>7
<1>9. p \in [D -> D]
  BY <1>8
<1>10. Sorted(qs) = [n \in D |-> qs[p[n]]]
  <2>1. \A j \in D : place[j] = Place(qs, j)
    BY DEF place
  <2>2. ASSUME NEW n \in D
        PROVE  (CHOOSE j \in D : place[j] = n) = (CHOOSE j \in D : Place(qs, j) = n)
    BY <2>1
  <2>3. \A n \in D : p[n] = CHOOSE j \in D : Place(qs, j) = n
    BY <2>2
  <2> HIDE DEF p
  <2>4. \A n \in D : qs[CHOOSE j \in D : Place(qs, j) = n] = qs[p[n]]
    BY <2>3
  <2>5. Sorted(qs) = [n \in D |-> qs[CHOOSE j \in D : Place(qs, j) = n]]
    BY DEF Sorted
  <2> HIDE DEF D
  <2> QED BY <2>4, <2>5, Zenon
<1> HIDE DEF p
<1>11. \A m, n \in D : p[m] = p[n] => m = n
  BY <1>8
<1>12. ASSUME NEW j \in D PROVE \E n \in D : p[n] = j
  BY <1>4, <1>6, <1>8
<1> QED BY <1>9, <1>10, <1>11, <1>12

Pos(id) == CHOOSE i \in DOMAIN Order : Order[i].id = id

LEMMA OrderFacts ==
  ASSUME survey \in Bundles
  PROVE  /\ \E n \in Nat \ {0} : DOMAIN Order = 1 .. n
         /\ \A i \in DOMAIN Order : /\ Order[i] \in ToSet(survey.questions)
                                    /\ Order[i].id \in QuestionIds
                                    /\ Question(Order[i].id) = Order[i]
                                    /\ Pos(Order[i].id) = i
         /\ \A id \in QuestionIds : /\ Question(id) \in ToSet(survey.questions)
                                    /\ Question(id).id = id
                                    /\ Pos(id) \in DOMAIN Order
                                    /\ Order[Pos(id)].id = id
<1> DEFINE qs == survey.questions
           D == DOMAIN qs
<1>1. /\ qs \in Seq(ToSet(qs)) /\ qs # <<>>
      /\ \A i, j \in D : qs[i].id = qs[j].id => i = j
      /\ \A q \in ToSet(qs) : q.order \in Int
  BY BundlesAssumption
<1> HIDE DEF qs
<1>2. PICK p \in [D -> D] :
        /\ Sorted(qs) = [n \in D |-> qs[p[n]]]
        /\ \A m, n \in D : p[m] = p[n] => m = n
        /\ \A j \in D : \E n \in D : p[n] = j
  BY <1>1, SortedFacts
<1>3. Order = [n \in D |-> qs[p[n]]]
  BY <1>2 DEF Order, qs
<1>4. QuestionIds = {q.id : q \in ToSet(qs)}
  BY DEF QuestionIds, qs
<1>5. \A id : Question(id) = CHOOSE q \in ToSet(qs) : q.id = id
  BY DEF Question, qs
<1>6. \E n \in Nat \ {0} : D = 1 .. n
  <2>1. Len(qs) \in Nat /\ Len(qs) # 0 /\ D = 1 .. Len(qs)
    BY <1>1
  <2> QED BY <2>1
<1>7. \A q, r \in ToSet(qs) : q.id = r.id => q = r
  BY <1>1 DEF ToSet
<1>8. \A i \in D : Order[i] = qs[p[i]] /\ p[i] \in D
  BY <1>2, <1>3
<1>9. DOMAIN Order = D
  BY <1>3
<1> HIDE DEF D
<1>10. ASSUME NEW i \in D, NEW j \in D, Order[i].id = Order[j].id PROVE i = j
  <2>1. qs[p[i]].id = qs[p[j]].id
    BY <1>8, <1>10
  <2>2. p[i] = p[j]
    BY <1>1, <1>8, <2>1 DEF D
  <2> QED BY <1>2, <2>2
<1>11. ASSUME NEW i \in D
       PROVE  /\ Order[i] \in ToSet(qs) /\ Order[i].id \in QuestionIds
              /\ Question(Order[i].id) = Order[i] /\ Pos(Order[i].id) = i
  <2>1. Order[i] \in ToSet(qs)
    BY <1>8 DEF ToSet, D
  <2>2. Order[i].id \in QuestionIds
    BY <1>4, <2>1
  <2>3. Question(Order[i].id) = Order[i]
    BY <1>5, <1>7, <2>1
  <2>4. Pos(Order[i].id) = i
    BY <1>9, <1>10 DEF Pos
  <2> QED BY <2>1, <2>2, <2>3, <2>4
<1>12. ASSUME NEW id \in QuestionIds
       PROVE  /\ Question(id) \in ToSet(qs) /\ Question(id).id = id
              /\ Pos(id) \in D /\ Order[Pos(id)].id = id
  <2>1. PICK q \in ToSet(qs) : q.id = id
    BY <1>4
  <2>2. Question(id) \in ToSet(qs) /\ Question(id).id = id
    BY <1>5, <2>1
  <2>3. PICK j \in D : qs[j] = q
    BY <2>1 DEF ToSet, D
  <2>4. PICK n \in D : p[n] = j
    BY <1>2, <2>3
  <2>5. Order[n].id = id
    BY <1>8, <2>1, <2>3, <2>4
  <2>6. Pos(id) \in D /\ Order[Pos(id)].id = id
    BY <1>9, <2>5 DEF Pos
  <2> QED BY <2>2, <2>6
<1>13. ToSet(qs) = ToSet(survey.questions)
  BY DEF qs
<1> QED BY <1>6, <1>9, <1>11, <1>12, <1>13

(* The first rule that applies is one of the rules.                        *)
LEMMA Jumps ==
  ASSUME survey \in Bundles, NEW id, NEW ans,
         ResolveNext(survey.rules, id, ans) \notin {FallThrough, EndOfSurvey}
  PROVE  \E k \in DOMAIN survey.rules :
           /\ survey.rules[k].from = id /\ survey.rules[k].action = "skip_to"
           /\ survey.rules[k].to = ResolveNext(survey.rules, id, ans)
<1> DEFINE rs == survey.rules
           matching == {i \in DOMAIN rs : rs[i].from = id
                                          /\ rs[i].action \in {"skip_to", "end_survey"}
                                          /\ EvaluateCondition(rs[i].when, ans)}
<1>1. matching # {}
  BY DEF ResolveNext
<1>2. matching \in SUBSET Nat
  <2>1. rs \in Seq(ToSet(rs))
    BY BundlesAssumption
  <2> QED BY <2>1
<1>3. ResolveNext(rs, id, ans) =
        IF rs[Min(matching)].action = "skip_to" THEN rs[Min(matching)].to ELSE EndOfSurvey
  BY <1>1 DEF ResolveNext
<1> HIDE DEF matching
<1>4. Min(matching) \in matching
  <2>1. \E x \in matching : \A y \in matching : x <= y
    BY <1>1, <1>2, Least
  <2> QED BY <2>1 DEF Min
<1>5. Min(matching) \in DOMAIN rs /\ rs[Min(matching)].from = id
  BY <1>4 DEF matching
<1>6. rs[Min(matching)].action = "skip_to"
  BY <1>3
<1> QED BY <1>3, <1>5, <1>6

(* Branching stays within the survey, and goes forward where no rule leads *)
(* back.                                                                   *)
LEMMA NextFacts ==
  ASSUME survey \in Bundles, NEW id \in QuestionIds, NEW ans,
         NEW next \in NextQuestion(id, ans)
  PROVE  next \in QuestionIds /\ (Forward => Pos(id) < Pos(next))
<1> DEFINE target == ResolveNext(survey.rules, id, ans)
           index == Pos(id)
<1>1. /\ index \in DOMAIN Order /\ Order[index].id = id
      /\ index \in Nat
  BY OrderFacts
<1>2. NextQuestion(id, ans) =
        IF target # FallThrough THEN (({target} \cap QuestionIds) \ {EndOfSurvey})
        ELSE {Order[i].id : i \in {index + 1} \cap DOMAIN Order}
  BY DEF NextQuestion, Pos
<1> HIDE DEF target, index
<1>3. CASE target # FallThrough
  <2>1. next = target /\ next \in QuestionIds /\ target # EndOfSurvey
    BY <1>2, <1>3
  <2>2. PICK k \in DOMAIN survey.rules :
          /\ survey.rules[k].from = id /\ survey.rules[k].action = "skip_to"
          /\ survey.rules[k].to = next
    BY <1>3, <2>1, Jumps DEF target
  <2>3. Pos(next) \in DOMAIN Order /\ Order[Pos(next)].id = next
    BY <2>1, OrderFacts
  <2>4. Forward => index < Pos(next)
    BY <1>1, <2>2, <2>3 DEF Forward
  <2> QED BY <2>1, <2>4 DEF index
<1>4. CASE target = FallThrough
  <2>1. index + 1 \in DOMAIN Order /\ next = Order[index + 1].id
    BY <1>2, <1>4
  <2>2. next \in QuestionIds /\ Pos(next) = index + 1
    BY <2>1, OrderFacts
  <2> QED BY <1>1, <2>2 DEF index
<1> QED BY <1>3, <1>4
-----------------------------------------------------------------------------
(* What is drawn and what is typed.                                        *)

(* A ranking that names every option once, and a pick of the best and the  *)
(* worst option that tells them apart.                                     *)
FullRanking(q, v) ==
  /\ q.options # <<>>
  /\ v = List(v.list) /\ v.list \in Seq(Keys(q))
  /\ ToSet(v.list) = Keys(q) /\ IsInjective(v.list)

Contrasted(v) ==
  {"best", "worst"} \subseteq DOMAIN v.map => v.map["best"] # v.map["worst"]

Proper(q, v) ==
  /\ q.kind = "ranking" => FullRanking(q, v)
  /\ q.kind = "maxdiff" => Contrasted(v)

(* A field that drawing its question again would leave as it is.           *)
Drawn(q, v) == Seeded(q, v) = v /\ (v = Undefined \/ Proper(q, v))

Optioned(q) == q.options \in Seq(ToSet(q.options)) /\ IsInjective(q.options)

LEMMA SeededIs ==
  ASSUME NEW q, NEW v
  PROVE  /\ q.kind = "multi" => Seeded(q, v) = MultiSeed(q, v)
         /\ q.kind = "slider" => Seeded(q, v) = SliderSeed(q, v)
         /\ q.kind = "ranking" => Seeded(q, v) = RankingSeed(q, v)
         /\ q.kind = "matrix" => Seeded(q, v) = MatrixSeed(q, v)
         /\ q.kind = "maxdiff" => Seeded(q, v) = MaxDiffSeed(q, v)
         /\ q.kind = "statement" => Seeded(q, v) = Undefined
         /\ q.kind \notin {"multi", "slider", "ranking", "matrix", "maxdiff", "statement"} =>
              Seeded(q, v) = v
  BY DEF Seeded

LEMMA Kinds ==
  ASSUME NEW s, NEW n, NEW f
  PROVE  /\ IsList(List(s)) /\ List(s).list = s /\ List(s) # Undefined
         /\ IsNum(Num(n)) /\ Num(n) # Undefined
         /\ IsMap(Map(f)) /\ Map(f).map = f /\ Map(f) # Undefined
         /\ ~IsList(Undefined) /\ ~IsNum(Undefined) /\ ~IsMap(Undefined)
  BY DEF IsList, List, IsNum, Num, IsMap, Map, Undefined

(* A ranking is drawn with every option once: as it was answered, or as    *)
(* the options are listed.                                                 *)
LEMMA RankingDrawn ==
  ASSUME NEW q, Optioned(q), q.options # <<>>
  PROVE  /\ FullRanking(q, RankingSeed(q, Undefined))
         /\ \A v : FullRanking(q, v) => RankingSeed(q, v) = v
<1>1. Keys(q) = ToSet(q.options) /\ q.options \in Seq(Keys(q)) /\ IsInjective(q.options)
  BY DEF Keys, Optioned
<1> DEFINE o == q.options
           K == Keys(q)
<1>2. RankingSeed(q, Undefined) = List(o)
  <2>1. /\ Among(<<>>, K) = <<>> /\ Among(o, K \ ToSet(<<>>)) = o
    <3>1. <<>> \in Seq(K) /\ ToSet(<<>>) = {}
      BY DEF ToSet
    <3>2. ToSet(o) \subseteq K \ ToSet(<<>>)
      BY <1>1, <3>1
    <3> HIDE DEF K, o
    <3>3. o \in Seq(K)
      BY <1>1 DEF o, K
    <3> QED BY <3>1, <3>2, <3>3, AmongFacts
  <2>2. RankingSeed(q, Undefined) = List(Among(<<>>, K) \o Among(o, K \ ToSet(<<>>)))
    BY Kinds DEF RankingSeed
  <2>3. <<>> \o o = o
    BY <1>1
  <2> QED BY <2>1, <2>2, <2>3
<1>3. FullRanking(q, List(o))
  BY <1>1, Kinds DEF FullRanking
<1>4. ASSUME NEW v, FullRanking(q, v) PROVE RankingSeed(q, v) = v
  <2>1. v = List(v.list) /\ v.list \in Seq(K) /\ ToSet(v.list) = K /\ IsList(v)
    BY <1>4, Kinds DEF FullRanking
  <2> DEFINE l == v.list
  <2>2. Among(l, K) = l /\ Among(o, K \ ToSet(l)) = <<>>
    <3>1. ToSet(o) \cap (K \ ToSet(l)) = {} /\ ToSet(l) \subseteq K
      BY <1>1, <2>1
    <3>2. o \in Seq(K) /\ l \in Seq(K)
      BY <1>1, <2>1
    <3> HIDE DEF K, o, l
    <3> QED BY <3>1, <3>2, AmongFacts
  <2>3. RankingSeed(q, v) = List(Among(l, K) \o Among(o, K \ ToSet(l)))
    BY <2>1 DEF RankingSeed
  <2>4. l \o <<>> = l
    BY <2>1
  <2> QED BY <2>1, <2>2, <2>3, <2>4
<1> QED BY <1>2, <1>3, <1>4

LEMMA SeedDrawn ==
  ASSUME NEW q, Optioned(q), NEW v, v = Undefined \/ Proper(q, v)
  PROVE  Drawn(q, Seeded(q, v))
<1>1. CASE q.kind = "ranking"
  <2>1. Seeded(q, v) = RankingSeed(q, v)
        /\ Seeded(q, RankingSeed(q, v)) = RankingSeed(q, RankingSeed(q, v))
    BY <1>1, SeededIs
  <2>2. CASE q.options = <<>>
    <3>1. v = Undefined /\ RankingSeed(q, v) = v
      BY <1>1, <2>2 DEF Proper, FullRanking, RankingSeed
    <3> QED BY <2>1, <3>1 DEF Drawn
  <2>3. CASE q.options # <<>>
    <3>1. FullRanking(q, RankingSeed(q, v))
      BY <1>1, <2>3, RankingDrawn DEF Proper
    <3>2. RankingSeed(q, RankingSeed(q, v)) = RankingSeed(q, v)
      BY <2>3, <3>1, RankingDrawn
    <3> QED BY <1>1, <2>1, <3>1, <3>2 DEF Drawn, Proper
  <2> QED BY <2>2, <2>3
<1>2. CASE q.kind = "maxdiff"
  <2>1. Contrasted(Map(<<>>))
    <3>1. Map(<<>>).map = <<>> /\ DOMAIN <<>> = {}
      BY Kinds
    <3> QED BY <3>1 DEF Contrasted
  <2>2. MaxDiffSeed(q, v) = v \/ (MaxDiffSeed(q, v) = Map(<<>>) /\ ~(Len(q.options) < 2))
    BY DEF MaxDiffSeed
  <2>3. MaxDiffSeed(q, v) = v => MaxDiffSeed(q, MaxDiffSeed(q, v)) = MaxDiffSeed(q, v)
    OBVIOUS
  <2>4. MaxDiffSeed(q, Map(<<>>)) = Map(<<>>)
    BY Kinds DEF MaxDiffSeed
  <2>5. Seeded(q, v) = MaxDiffSeed(q, v)
        /\ Seeded(q, MaxDiffSeed(q, v)) = MaxDiffSeed(q, MaxDiffSeed(q, v))
    BY <1>2, SeededIs
  <2> QED BY <1>2, <2>1, <2>2, <2>3, <2>4, <2>5 DEF Drawn, Proper
<1>3. CASE q.kind \notin {"ranking", "maxdiff"}
  <2>1. \A w : Proper(q, w)
    BY <1>3 DEF Proper
  <2>2. Seeded(q, Seeded(q, v)) = Seeded(q, v)
    <3>1. CASE q.kind = "multi"
      BY <3>1, SeededIs, Kinds DEF MultiSeed
    <3>2. CASE q.kind = "slider"
      BY <3>2, SeededIs, Kinds DEF SliderSeed
    <3>3. CASE q.kind = "matrix"
      BY <3>3, SeededIs, Kinds DEF MatrixSeed
    <3>4. CASE q.kind = "statement"
      BY <3>4, SeededIs
    <3>5. CASE q.kind \notin {"multi", "slider", "matrix", "statement"}
      BY <1>3, <3>5, SeededIs
    <3> QED BY <3>1, <3>2, <3>3, <3>4, <3>5
  <2> QED BY <2>1, <2>2 DEF Drawn
<1> QED BY <1>1, <1>2, <1>3

(* Two neighbours of a list change places: it names what it named.         *)
LEMMA Swapped ==
  ASSUME NEW S, NEW l \in Seq(S), NEW i \in 1 .. Len(l) - 1
  PROVE  LET m == [l EXCEPT ![i] = l[i + 1], ![i + 1] = l[i]]
         IN  /\ m \in Seq(S) /\ ToSet(m) = ToSet(l)
             /\ IsInjective(l) => IsInjective(m)
<1> DEFINE n == Len(l)
           m == [l EXCEPT ![i] = l[i + 1], ![i + 1] = l[i]]
           to == [k \in 1 .. n |-> IF k = i THEN i + 1 ELSE IF k = i + 1 THEN i ELSE k]
<1>1. n \in Nat /\ DOMAIN l = 1 .. n /\ i \in 1 .. n /\ i + 1 \in 1 .. n /\ i \in Nat
      /\ \A k \in 1 .. n : l[k] \in S
  OBVIOUS
<1>2. DOMAIN m = 1 .. n /\ \A k \in 1 .. n : to[k] \in 1 .. n /\ m[k] = l[to[k]] /\ to[to[k]] = k
  <2>1. DOMAIN m = 1 .. n
    BY <1>1
  <2>2. ASSUME NEW k \in 1 .. n PROVE m[k] = l[to[k]] /\ to[k] \in 1 .. n /\ to[to[k]] = k
    <3>1. i # i + 1
      BY <1>1
    <3> QED BY <1>1, <3>1
  <2> QED BY <2>1, <2>2
<1>3. m \in Seq(S)
  <2>1. m = [k \in 1 .. n |-> m[k]]
    BY <1>1
  <2>2. m \in [1 .. n -> S]
    <3> HIDE DEF m, to, n
    <3> QED BY <1>1, <1>2, <2>1
  <2> QED BY <1>1, <2>2
<1> HIDE DEF m, to, n
<1>4. ToSet(m) = ToSet(l)
  <2>1. \A x \in ToSet(m) : x \in ToSet(l)
    BY <1>1, <1>2 DEF ToSet
  <2>2. ASSUME NEW k \in 1 .. n PROVE l[k] = m[to[k]] /\ to[k] \in DOMAIN m
    BY <1>2
  <2>3. \A x \in ToSet(l) : x \in ToSet(m)
    BY <1>1, <2>2 DEF ToSet
  <2> QED BY <2>1, <2>3
<1>5. ASSUME IsInjective(l) PROVE IsInjective(m)
  <2>1. ASSUME NEW j \in 1 .. n, NEW k \in 1 .. n, m[j] = m[k] PROVE j = k
    <3>1. to[j] = to[k]
      BY <1>1, <1>2, <1>5, <2>1 DEF IsInjective
    <3> QED BY <1>2, <3>1
  <2> QED BY <1>2, <2>1 DEF IsInjective
<1> QED BY <1>3, <1>4, <1>5 DEF m

LEMMA InputDrawn ==
  ASSUME NEW q, Optioned(q), NEW v, Drawn(q, v), NEW w \in Inputs(q, v)
  PROVE  Drawn(q, w)
<1>1. CASE q.kind = "ranking"
  <2>1. Inputs(q, v) = RankingInputs(q, v) /\ Seeded(q, v) = RankingSeed(q, v)
        /\ Seeded(q, w) = RankingSeed(q, w)
    BY <1>1, SeededIs DEF Inputs
  <2>2. q.options # <<>>
    BY <2>1 DEF RankingInputs
  <2>3. FullRanking(q, v)
    <3>1. RankingSeed(q, v) # Undefined
      BY <2>2, Kinds DEF RankingSeed
    <3> QED BY <1>1, <2>1, <3>1 DEF Drawn, Proper
  <2>4. PICK i \in 1 .. Len(v.list) - 1 :
          w = List([v.list EXCEPT ![i] = v.list[i + 1], ![i + 1] = v.list[i]])
    BY <2>1, <2>2 DEF RankingInputs
  <2> DEFINE l == v.list
             m == [l EXCEPT ![i] = l[i + 1], ![i + 1] = l[i]]
  <2>5. l \in Seq(Keys(q)) /\ ToSet(l) = Keys(q) /\ IsInjective(l)
    BY <2>3 DEF FullRanking
  <2>6. m \in Seq(Keys(q)) /\ ToSet(m) = ToSet(l) /\ IsInjective(m)
    BY <2>5, Swapped
  <2> HIDE DEF l
  <2>7. w = List(m)
    BY <2>4 DEF l
  <2> HIDE DEF m
  <2>8. FullRanking(q, w)
    BY <2>2, <2>5, <2>6, <2>7, Kinds DEF FullRanking
  <2>9. RankingSeed(q, w) = w
    BY <2>2, <2>8, RankingDrawn
  <2> QED BY <1>1, <2>1, <2>8, <2>9 DEF Drawn, Proper
<1>2. CASE q.kind = "maxdiff"
  <2> DEFINE Other(c) == IF c = "best" THEN "worst" ELSE "best"
  <2>1. Inputs(q, v) = MaxDiffInputs(q, v) /\ Seeded(q, w) = MaxDiffSeed(q, w)
    BY <1>2, SeededIs DEF Inputs
  <2>2. PICK c, k :
          /\ c \in {"best", "worst"}
          /\ w = Map(Put(Without(v.map, k, Other(c)), c, k))
    BY <2>1 DEF MaxDiffInputs
  <2> DEFINE rest == Without(v.map, k, Other(c))
             f == Put(rest, c, k)
  <2>3. \A d \in DOMAIN rest : rest[d] = v.map[d] /\ ~(d = Other(c) /\ v.map[d] = k)
    BY DEF Without
  <2> HIDE DEF rest
  <2>4. /\ DOMAIN f = DOMAIN rest \cup {c} /\ f[c] = k
        /\ \A d \in DOMAIN rest : d # c => f[d] = rest[d]
    BY DEF Put
  <2> HIDE DEF f
  <2>5. w = Map(f)
    BY <2>2 DEF f, rest
  <2>6. {"best", "worst"} \subseteq DOMAIN f => f[Other(c)] # f[c]
    BY <2>2, <2>3, <2>4
  <2>7. {"best", "worst"} \subseteq DOMAIN f => f["best"] # f["worst"]
    BY <2>2, <2>6
  <2>8. w.map = f /\ MaxDiffSeed(q, w) = w
    BY <2>5, Kinds DEF MaxDiffSeed
  <2> QED BY <1>2, <2>1, <2>7, <2>8 DEF Drawn, Proper, Contrasted
<1>3. CASE q.kind \notin {"ranking", "maxdiff"}
  <2>1. Proper(q, w)
    BY <1>3 DEF Proper
  <2>2. Seeded(q, w) = w
    <3>1. CASE q.kind = "multi"
      <4>1. \E l : w = List(l)
        BY <3>1 DEF Inputs, MultiInputs
      <4> QED BY <3>1, <4>1, SeededIs, Kinds DEF MultiSeed
    <3>2. CASE q.kind = "slider"
      <4>1. \E n : w = Num(n)
        BY <3>2 DEF Inputs, SliderInputs
      <4> QED BY <3>2, <4>1, SeededIs, Kinds DEF SliderSeed
    <3>3. CASE q.kind = "matrix"
      <4>1. \E f : w = Map(f)
        BY <3>3 DEF Inputs, MatrixInputs
      <4> QED BY <3>3, <4>1, SeededIs, Kinds DEF MatrixSeed
    <3>4. CASE q.kind = "statement"
      BY <3>4 DEF Inputs
    <3>5. CASE q.kind \notin {"multi", "slider", "matrix", "statement"}
      BY <1>3, <3>5, SeededIs
    <3> QED BY <3>1, <3>2, <3>3, <3>4, <3>5
  <2> QED BY <2>1, <2>2 DEF Drawn
<1> QED BY <1>1, <1>2, <1>3
-----------------------------------------------------------------------------
(* What is on the screen and what is held.                                 *)

Shown == Question(Current)

AllProper(ans) == \A id \in DOMAIN ans : Proper(Question(id), ans[id])

(* Every set of answers there is: recorded, in flight, or with the server. *)
Held ==
  {answers[g] : g \in 1 .. MaxShowings} \cup {saves[i].answers : i \in DOMAIN saves}
    \cup {p.answers : p \in {partial} \ {NoPartial}} \cup {s.answers : s \in Sent}

KeptInv == \A ans \in Held : AllProper(ans)

(* The screen: uploads and payments are only started by their questions,   *)
(* and one that is live was started by the drawing of now.                 *)
ScreenInv ==
  /\ survey \in Bundles
  /\ visited \in Seq(QuestionIds) /\ visited # <<>>
  /\ \A j \in jobs : /\ {"showing", "at", "live"} \subseteq DOMAIN j
                     /\ j.at \in QuestionIds /\ Question(j.at).kind \in {"file", "payment"}
                     /\ j.live => screen = "question" /\ j.showing = showing /\ j.at = Current
  /\ payable => Shown.kind = "payment"
  /\ screen = "question" => Drawn(Shown, field)

Seen ==
  screen = "question" /\ ~ghost.unseen =>
    field = Seeded(Shown, Answer(answers[showing], Current))

LEMMA SameSurvey ==
  ASSUME survey' = survey
  PROVE  /\ QuestionIds' = QuestionIds
         /\ \A id : Question(id)' = Question(id)
         /\ \A ans : AllProper(ans)' <=> AllProper(ans)
         /\ Shown' = Question(Current')
         /\ visited' = visited => Current' = Current /\ Shown' = Shown
<1>1. QuestionIds' = QuestionIds
  BY DEF QuestionIds
<1>2. \A id : Question(id)' = Question(id)
  BY DEF Question
<1>3. \A ans : AllProper(ans)' <=> AllProper(ans)
  BY <1>2 DEF AllProper
<1>4. Shown' = Question(Current')
  BY DEF Shown, Question, Current
<1>5. visited' = visited => Current' = Current
  BY DEF Current
<1> QED BY <1>1, <1>2, <1>3, <1>4, <1>5 DEF Shown

LEMMA LastIsIn ==
  ASSUME NEW S, NEW s \in Seq(S), s # <<>>
  PROVE  Last(s) \in S
  BY DEF Last

LEMMA ShownFacts ==
  ASSUME survey \in Bundles, NEW id \in QuestionIds
  PROVE  Optioned(Question(id)) /\ Question(id).id = id
<1>1. Question(id) \in ToSet(survey.questions) /\ Question(id).id = id
  BY OrderFacts
<1> QED BY <1>1, BundlesAssumption DEF Optioned

LEMMA RecordedFacts ==
  ASSUME NEW ans, NEW id, NEW v
  PROVE  /\ \A x \in DOMAIN Recorded(ans, id, v) :
              \/ x = id /\ v # Undefined /\ Recorded(ans, id, v)[x] = v
              \/ x # id /\ x \in DOMAIN ans /\ Recorded(ans, id, v)[x] = ans[x]
         /\ Answer(Recorded(ans, id, v), id) = v
         /\ \A x : x # id => Answer(Recorded(ans, id, v), x) = Answer(ans, x)
<1> DEFINE r == Recorded(ans, id, v)
<1>1. CASE v = Undefined
  <2>1. DOMAIN r = DOMAIN ans \ {id} /\ \A x \in DOMAIN r : r[x] = ans[x]
    BY <1>1 DEF Recorded
  <2> HIDE DEF r
  <2>2. Answer(r, id) = v /\ \A x : x # id => Answer(r, x) = Answer(ans, x)
    BY <1>1, <2>1 DEF Answer
  <2> QED BY <2>1, <2>2 DEF r
<1>2. CASE v # Undefined
  <2>1. /\ DOMAIN r = DOMAIN ans \cup {id} /\ r[id] = v
        /\ \A x \in DOMAIN r : x # id => r[x] = ans[x]
    BY <1>2 DEF Recorded, Put
  <2> HIDE DEF r
  <2>2. Answer(r, id) = v /\ \A x : x # id => Answer(r, x) = Answer(ans, x)
    BY <2>1 DEF Answer
  <2> QED BY <1>2, <2>1, <2>2 DEF r
<1> QED BY <1>1, <1>2

LEMMA RecordProper ==
  ASSUME NEW ans, AllProper(ans), NEW id, NEW v, v = Undefined \/ Proper(Question(id), v)
  PROVE  AllProper(Recorded(ans, id, v))
  BY RecordedFacts DEF AllProper

(* What an answer that is recorded adds to what is held.                   *)
LEMMA RecordHeld ==
  ASSUME DraftInv, NEW g \in 1 .. showing, NEW id, NEW v, Record(g, id, v),
         UNCHANGED <<partial, responses>>,
         \A s \in submits' : s \in submits \/ s.answers = Recorded(answers[g], id, v)
  PROVE  /\ answers'[g] = Recorded(answers[g], id, v)
         /\ \A h \in 1 .. MaxShowings : h # g => answers'[h] = answers[h]
         /\ g \in 1 .. MaxShowings
         /\ \A a \in Held' : a \in Held \/ a = Recorded(answers[g], id, v)
<1> DEFINE r == Recorded(answers[g], id, v)
<1>1. /\ answers' = [answers EXCEPT ![g] = r]
      /\ saves' = Append(saves, [showing |-> g, at |-> id, answers |-> r])
  BY DEF Record
<1>2. g \in 1 .. MaxShowings /\ IsSeq(saves) /\ DOMAIN answers = 1 .. MaxShowings
  <2>1. showing \in 1 .. MaxShowings /\ MaxShowings \in Nat
    BY SurveyBoundsAssumption DEF DraftInv
  <2>2. DOMAIN answers = 1 .. MaxShowings
    BY DEF DraftInv
  <2> QED BY <2>1, <2>2 DEF DraftInv, SavesTyped
<1> DEFINE e == [showing |-> g, at |-> id, answers |-> r]
<1>3. e.answers = r
  OBVIOUS
<1> HIDE DEF e, r
<1>4. answers'[g] = r /\ \A h \in 1 .. MaxShowings : h # g => answers'[h] = answers[h]
  BY <1>1, <1>2
<1>5. \A i \in DOMAIN saves' : (i \in DOMAIN saves /\ saves'[i] = saves[i]) \/ saves'[i] = e
  <2>1. saves' = Append(saves, e)
    BY <1>1 DEF e
  <2>2. /\ Len(saves) \in Nat /\ DOMAIN saves = 1 .. Len(saves)
        /\ DOMAIN saves' = 1 .. Len(saves) + 1
        /\ \A k \in 1 .. Len(saves) : saves'[k] = saves[k]
        /\ saves'[Len(saves) + 1] = e
    BY <1>2, <2>1, SeqAppended
  <2> QED BY <2>2
<1>6. ASSUME NEW a \in Held' PROVE a \in Held \/ a = r
  <2>1. ASSUME NEW h \in 1 .. MaxShowings, a = answers'[h] PROVE a \in Held \/ a = r
    BY <1>4, <2>1 DEF Held
  <2>2. ASSUME NEW i \in DOMAIN saves', a = saves'[i].answers PROVE a \in Held \/ a = r
    BY <1>3, <1>5, <2>2 DEF Held
  <2>3. ASSUME NEW p \in {partial'} \ {NoPartial}, a = p.answers PROVE a \in Held \/ a = r
    BY <2>3 DEF Held
  <2>4. ASSUME NEW s \in Sent', a = s.answers PROVE a \in Held \/ a = r
    BY <2>4 DEF Held, Sent, r
  <2> QED BY <2>1, <2>2, <2>3, <2>4 DEF Held
<1> QED BY <1>2, <1>4, <1>6 DEF r
LEMMA CurrentFacts ==
  ASSUME ScreenInv
  PROVE  /\ Current \in QuestionIds /\ Optioned(Shown) /\ Shown.id = Current
         /\ Shown = Question(Current)
<1>1. Current \in QuestionIds
  BY LastIsIn DEF ScreenInv, Current
<1> QED BY <1>1, ShownFacts DEF ScreenInv, Shown

LEMMA InputTypes ==
  ASSUME ScreenInv, Input
  PROVE  /\ screen = "question"
         /\ \E v : Record(showing, Current, v) /\ field' = v /\ Drawn(Shown, v)
<1>1. /\ screen = "question"
      /\ \E v \in Inputs(Shown, field) : Record(showing, Current, v) /\ field' = v
  BY DEF Input, Click, Shown
<1>2. Drawn(Shown, field) /\ Optioned(Shown)
  BY <1>1, CurrentFacts DEF ScreenInv
<1> QED BY <1>1, <1>2, InputDrawn

(* Any answer of an upload or a payment is one its question may hold.      *)
LEMMA JobDrawn ==
  ASSUME NEW q, q.kind \in {"file", "payment"}, NEW v PROVE Drawn(q, v)
  BY SeededIs DEF Drawn, Proper

LEMMA HeldSame ==
  ASSUME KeptInv, survey' = survey, answers' = answers,
         \A i \in DOMAIN saves' : \E k \in DOMAIN saves : saves'[i] = saves[k],
         partial' \in {partial, NoPartial} \/ \E k \in DOMAIN saves : partial' = saves[k],
         Sent' \subseteq Sent
  PROVE  KeptInv'
<1>1. ASSUME NEW a \in Held' PROVE a \in Held
  <2>1. ASSUME NEW h \in 1 .. MaxShowings, a = answers'[h] PROVE a \in Held
    BY <2>1 DEF Held
  <2>2. ASSUME NEW i \in DOMAIN saves', a = saves'[i].answers PROVE a \in Held
    <3>1. PICK k \in DOMAIN saves : saves'[i] = saves[k]
      OBVIOUS
    <3> QED BY <2>2, <3>1 DEF Held
  <2>3. ASSUME NEW p \in {partial'} \ {NoPartial}, a = p.answers PROVE a \in Held
    BY <2>3 DEF Held
  <2>4. ASSUME NEW s \in Sent', a = s.answers PROVE a \in Held
    BY <2>4 DEF Held
  <2> QED BY <2>1, <2>2, <2>3, <2>4 DEF Held
<1> QED BY <1>1, SameSurvey DEF KeptInv

LEMMA ShrinkingSaves ==
  ASSUME DraftInv
  PROVE  /\ \A i \in DOMAIN saves : \A n \in DOMAIN RemoveAt(saves, i) :
              \E k \in DOMAIN saves : RemoveAt(saves, i)[n] = saves[k]
         /\ saves # <<>> => \A n \in DOMAIN Tail(saves) :
              \E k \in DOMAIN saves : Tail(saves)[n] = saves[k]
<1>1. IsSeq(saves)
  BY DEF DraftInv, SavesTyped
<1>2. ASSUME NEW i \in DOMAIN saves, NEW n \in DOMAIN RemoveAt(saves, i)
      PROVE  \E k \in DOMAIN saves : RemoveAt(saves, i)[n] = saves[k]
  <2>1. /\ Len(saves) \in Nat /\ DOMAIN saves = 1 .. Len(saves)
        /\ DOMAIN RemoveAt(saves, i) = 1 .. Len(saves) - 1
        /\ \A k \in 1 .. Len(saves) - 1 :
             RemoveAt(saves, i)[k] = saves[IF k < i THEN k ELSE k + 1]
    BY <1>1, SeqRemoved
  <2>2. (IF n < i THEN n ELSE n + 1) \in DOMAIN saves
    BY <2>1
  <2> QED BY <2>1, <2>2
<1>3. ASSUME saves # <<>>, NEW n \in DOMAIN Tail(saves)
      PROVE  \E k \in DOMAIN saves : Tail(saves)[n] = saves[k]
  <2> DEFINE S == {saves[i] : i \in DOMAIN saves}
  <2>1. saves \in Seq(S)
    BY <1>1 DEF IsSeq
  <2> HIDE DEF S
  <2>2. /\ DOMAIN saves = 1 .. Len(saves) /\ Len(saves) \in Nat
        /\ DOMAIN Tail(saves) = 1 .. Len(saves) - 1
        /\ \A k \in 1 .. Len(saves) - 1 : Tail(saves)[k] = saves[k + 1]
    BY <1>3, <2>1, HeadTailProperties
  <2> QED BY <1>3, <2>2
<1> QED BY <1>2, <1>3

(* What is recorded is what was drawn, typed, uploaded or paid.            *)
LEMMA RecordKept ==
  ASSUME DraftInv, KeptInv, survey' = survey,
         NEW g \in 1 .. showing, NEW id, NEW v, Record(g, id, v), Drawn(Question(id), v),
         UNCHANGED <<partial, responses>>,
         \A s \in submits' : s \in submits \/ s.answers = Recorded(answers[g], id, v)
  PROVE  KeptInv'
<1>1. /\ g \in 1 .. MaxShowings
      /\ \A a \in Held' : a \in Held \/ a = Recorded(answers[g], id, v)
  BY RecordHeld
<1>2. AllProper(answers[g])
  BY <1>1 DEF KeptInv, Held
<1>3. AllProper(Recorded(answers[g], id, v))
  BY <1>2, RecordProper DEF Drawn
<1> QED BY <1>1, <1>3, SameSurvey DEF KeptInv

LEMMA ReopenFacts ==
  ASSUME DraftInv, ScreenInv, KeptInv, Reopen
  PROVE  /\ showing' = showing + 1 /\ UNCHANGED <<survey, submits, saves, partial, responses>>
         /\ \E ans :
              /\ AllProper(ans) /\ answers'[showing'] = ans
              /\ \A h \in 1 .. MaxShowings : h # showing' => answers'[h] = answers[h]
         /\ \E path \in Seq(QuestionIds) :
              /\ Len(path) = 1 /\ visited' = path /\ jobs' = Detached(jobs)
              /\ Render(path, FALSE, answers'[showing'], FALSE)
<1> DEFINE ans == IF partial = NoPartial THEN <<>> ELSE partial.answers
           path == IF partial # NoPartial /\ partial.at \in QuestionIds
                   THEN <<partial.at>> ELSE <<Order[1].id>>
<1>1. /\ showing < MaxShowings /\ showing' = showing + 1
      /\ UNCHANGED <<survey, submits, saves, partial, responses>>
      /\ visited' = path /\ jobs' = Detached(jobs)
      /\ answers' = [answers EXCEPT ![showing'] = ans]
      /\ Render(path, FALSE, ans, FALSE)
  BY DEF Reopen, Opened, server
<1>2. showing' \in 1 .. MaxShowings /\ DOMAIN answers = 1 .. MaxShowings
  <2>1. showing \in 1 .. MaxShowings /\ MaxShowings \in Nat
    BY SurveyBoundsAssumption DEF DraftInv
  <2>2. DOMAIN answers = 1 .. MaxShowings
    BY DEF DraftInv
  <2> QED BY <1>1, <2>1, <2>2
<1>3. AllProper(ans)
  <2>1. CASE partial = NoPartial
    <3>1. ans = <<>> /\ DOMAIN <<>> = {}
      BY <2>1
    <3> QED BY <3>1 DEF AllProper
  <2>2. CASE partial # NoPartial
    BY <2>2 DEF KeptInv, Held
  <2> QED BY <2>1, <2>2
<1>4. path \in Seq(QuestionIds) /\ Len(path) = 1
  <2>1. Order[1].id \in QuestionIds
    <3>1. 1 \in DOMAIN Order
      BY OrderFacts DEF ScreenInv
    <3> QED BY <3>1, OrderFacts DEF ScreenInv
  <2> QED BY <2>1
<1> HIDE DEF ans, path
<1>5. /\ answers'[showing'] = ans
      /\ \A h \in 1 .. MaxShowings : h # showing' => answers'[h] = answers[h]
  BY <1>1, <1>2
<1> QED BY <1>1, <1>3, <1>4, <1>5

LEMMA ReopenKept ==
  ASSUME DraftInv, ScreenInv, KeptInv, Reopen PROVE KeptInv'
<1>1. UNCHANGED <<survey, submits, saves, partial, responses>>
  BY ReopenFacts
<1>2. PICK ans : /\ AllProper(ans) /\ answers'[showing'] = ans
                 /\ \A h \in 1 .. MaxShowings : h # showing' => answers'[h] = answers[h]
  BY ReopenFacts
<1>3. ASSUME NEW a \in Held' PROVE a \in Held \/ a = ans
  <2>1. ASSUME NEW h \in 1 .. MaxShowings, a = answers'[h] PROVE a \in Held \/ a = ans
    BY <1>2, <2>1 DEF Held
  <2>2. ASSUME NEW i \in DOMAIN saves', a = saves'[i].answers PROVE a \in Held
    BY <1>1, <2>2 DEF Held
  <2>3. ASSUME NEW p \in {partial'} \ {NoPartial}, a = p.answers PROVE a \in Held
    BY <1>1, <2>3 DEF Held
  <2>4. ASSUME NEW s \in Sent', a = s.answers PROVE a \in Held
    BY <1>1, <2>4 DEF Held, Sent
  <2> QED BY <2>1, <2>2, <2>3, <2>4 DEF Held
<1> QED BY <1>1, <1>2, <1>3, SameSurvey DEF KeptInv

LEMMA StepKept ==
  ASSUME DraftInv, ScreenInv, KeptInv, [SurveyNext]_surveyVars
  PROVE  survey' = survey /\ KeptInv'
<1>0. showing \in Nat /\ showing \in 1 .. showing
  BY DEF DraftInv
<1>1. CASE Input
  <2>1. UNCHANGED <<survey, submits, partial, responses>>
    BY <1>1 DEF Input, server
  <2>2. PICK v : Record(showing, Current, v) /\ Drawn(Question(Current), v)
    BY <1>1, InputTypes DEF Shown
  <2> QED BY <1>0, <2>1, <2>2, RecordKept
<1>2. CASE Advance
  <2>1. /\ screen = "question" /\ UNCHANGED <<survey, partial, responses>>
        /\ Record(showing, Current, field)
    BY <1>2 DEF Advance, Click, server
  <2>4. \/ submits' = submits
        \/ submits' = submits \cup {[showing |-> showing, path |-> visited,
                                     answers |-> answers'[showing], n |-> clicks]}
    BY <1>2 DEF Advance
  <2>5. \A s \in submits' : s \in submits \/ s.answers = answers'[showing]
    BY <2>4
  <2>2. answers'[showing] = Recorded(answers[showing], Current, field)
    BY <2>1 DEF Record, DraftInv
  <2>3. Drawn(Question(Current), field)
    BY <2>1 DEF ScreenInv, Shown
  <2> QED BY <1>0, <2>1, <2>2, <2>3, <2>5, RecordKept
<1>3. CASE JobSucceeds \/ UploadFails
  <2>1. PICK j, v : j \in jobs /\ Ended(j, v)
    BY <1>3 DEF JobSucceeds, UploadFails
  <2>2. UNCHANGED <<survey, submits, partial, responses>> /\ Record(j.showing, j.at, v)
    BY <2>1 DEF Ended, server
  <2>3. Drawn(Question(j.at), v)
    BY <2>1, JobDrawn DEF ScreenInv
  <2>4. j.showing \in 1 .. showing
    BY <2>1 DEF DraftInv
  <2> QED BY <2>2, <2>3, <2>4, RecordKept
<1>4. CASE PickFile \/ Pay \/ Gate \/ Back \/ Close \/ PaymentFails \/ UNCHANGED surveyVars
  <2>1. UNCHANGED <<survey, answers, saves, partial, submits, responses>>
    BY <1>4 DEF PickFile, Pay, Gate, Back, Close, PaymentFails, surveyVars, server
  <2> QED BY <2>1, HeldSame DEF Sent
<1>5. CASE SubmitSucceeds \/ SubmitFails \/ AnswerLost
  <2>1. PICK s, message :
          s \in submits /\ Settled(s, message) /\ (UNCHANGED server \/ Accepted(s))
    BY <1>5 DEF SubmitSucceeds, SubmitFails, AnswerLost
  <2>2. UNCHANGED <<survey, answers, saves>> /\ Sent' \subseteq Sent
        /\ partial' \in {partial, NoPartial}
    BY <2>1 DEF Settled, Accepted, server, Sent
  <2> QED BY <2>2, HeldSame
<1>6. CASE SaveArrives
  <2>1. PICK i \in DOMAIN saves : partial' = saves[i] /\ saves' = RemoveAt(saves, i)
    BY <1>6 DEF SaveArrives
  <2>2. UNCHANGED <<survey, answers>> /\ Sent' = Sent
    BY <1>6 DEF SaveArrives, Sent
  <2>3. \A n \in DOMAIN saves' : \E k \in DOMAIN saves : saves'[n] = saves[k]
    BY <2>1, ShrinkingSaves
  <2> QED BY <2>1, <2>2, <2>3, HeldSame
<1>7. CASE SaveLost
  <2>1. /\ UNCHANGED <<survey, answers, partial>> /\ Sent' = Sent
        /\ saves # <<>> /\ saves' = Tail(saves)
    BY <1>7 DEF SaveLost, Sent, server
  <2>2. \A n \in DOMAIN saves' : \E k \in DOMAIN saves : saves'[n] = saves[k]
    BY <2>1, ShrinkingSaves
  <2> QED BY <2>1, <2>2, HeldSame
<1>8. CASE Reopen
  BY <1>8, ReopenFacts, ReopenKept
<1> QED BY <1>1, <1>2, <1>3, <1>4, <1>5, <1>6, <1>7, <1>8 DEF SurveyNext
(* Drawn again, the field is the seed of what is recorded.                 *)
LEMMA RedrawnScreen ==
  ASSUME ScreenInv, KeptInv', survey' = survey, showing' \in 1 .. MaxShowings,
         NEW path \in Seq(QuestionIds), path # <<>>,
         visited' = path, jobs' = Detached(jobs),
         NEW end, NEW message, Render(path, end, answers'[showing'], message)
  PROVE  ScreenInv' /\ Seen'
<1> DEFINE q == Question(Last(path))
           ans == answers'[showing']
<1>1. /\ Current' = Last(path) /\ Last(path) \in QuestionIds
      /\ Shown' = q /\ Optioned(q) /\ q.id = Last(path)
  <2>1. Current' = Last(path)
    BY DEF Current
  <2> QED BY <2>1, LastIsIn, SameSurvey, ShownFacts DEF ScreenInv
<1>2. AllProper(ans)
  <2>1. ans \in Held'
    BY DEF Held
  <2>2. \A a \in Held' : AllProper(a)
    BY SameSurvey DEF KeptInv
  <2> QED BY <2>1, <2>2
<1> HIDE DEF ans
<1>3. Answer(ans, Last(path)) = Undefined \/ Proper(q, Answer(ans, Last(path)))
  BY <1>2 DEF Answer, AllProper
<1>4. Drawn(q, Seeded(q, Answer(ans, Last(path))))
  BY <1>1, <1>3, SeedDrawn
<1>5. /\ screen' = "question" => field' = Seeded(q, Answer(ans, Last(path)))
      /\ payable' => q.kind = "payment"
  BY <1>1 DEF Render, ans
<1> HIDE DEF q
<1>6. ASSUME NEW j \in jobs'
      PROVE  /\ {"showing", "at", "live"} \subseteq DOMAIN j
             /\ j.at \in QuestionIds /\ Question(j.at).kind \in {"file", "payment"}
             /\ ~j.live
  BY DEF ScreenInv, Detached
<1>7. ScreenInv'
  <2>1. survey' \in Bundles
    BY DEF ScreenInv
  <2>2. visited' \in Seq(QuestionIds') /\ visited' # <<>>
    BY SameSurvey
  <2>3. \A j \in jobs' : /\ {"showing", "at", "live"} \subseteq DOMAIN j
                         /\ j.at \in QuestionIds' /\ Question(j.at)'.kind \in {"file", "payment"}
                         /\ ~j.live
    BY <1>6, SameSurvey
  <2>4. payable' => Shown'.kind = "payment"
    BY <1>1, <1>5
  <2>5. screen' = "question" => Drawn(Shown', field')
    BY <1>1, <1>4, <1>5
  <2> QED BY <2>1, <2>2, <2>3, <2>4, <2>5 DEF ScreenInv
<1>8. Seen'
  BY <1>1, <1>5 DEF Seen, ans
<1> QED BY <1>7, <1>8

(* Nothing is drawn, and nothing recorded.                                 *)
LEMMA StillScreen ==
  ASSUME ScreenInv, Seen, UNCHANGED <<survey, visited, showing, answers, field>>,
         ghost'.unseen <=> ghost.unseen,
         payable' => payable \/ Shown.kind = "payment",
         \/ /\ screen' = screen
            /\ \A j \in jobs' :
                 \/ j \in jobs
                 \/ /\ screen = "question" /\ Shown.kind \in {"file", "payment"}
                    /\ j = [showing |-> showing, at |-> Current, live |-> TRUE, n |-> clicks]
         \/ screen' = "gone" /\ jobs' = Detached(jobs)
  PROVE  ScreenInv' /\ Seen'
<1>1. /\ Current' = Current /\ Shown' = Shown /\ QuestionIds' = QuestionIds
      /\ \A id : Question(id)' = Question(id)
  BY SameSurvey
<1>2. \A j \in jobs' : /\ {"showing", "at", "live"} \subseteq DOMAIN j
                       /\ j.at \in QuestionIds /\ Question(j.at).kind \in {"file", "payment"}
                       /\ j.live => screen' = "question" /\ j.showing = showing /\ j.at = Current
  <2>1. CASE screen' = screen
    <3> SUFFICES ASSUME NEW j \in jobs'
                 PROVE  /\ {"showing", "at", "live"} \subseteq DOMAIN j
                        /\ j.at \in QuestionIds /\ Question(j.at).kind \in {"file", "payment"}
                        /\ j.live => screen' = "question" /\ j.showing = showing /\ j.at = Current
      OBVIOUS
    <3>1. CASE j \in jobs
      BY <2>1, <3>1 DEF ScreenInv
    <3>2. CASE screen' = "gone" /\ jobs' = Detached(jobs)
      BY <3>2 DEF ScreenInv, Detached
    <3>3. CASE /\ screen = "question" /\ Shown.kind \in {"file", "payment"}
               /\ j = [showing |-> showing, at |-> Current, live |-> TRUE, n |-> clicks]
      BY <2>1, <3>3, CurrentFacts
    <3> QED BY <3>1, <3>2, <3>3
  <2>2. CASE screen' = "gone" /\ jobs' = Detached(jobs)
    BY <2>2 DEF ScreenInv, Detached
  <2> QED BY <2>1, <2>2
<1>3. ScreenInv'
  <2>1. \A j \in jobs' : /\ {"showing", "at", "live"} \subseteq DOMAIN j
                         /\ j.at \in QuestionIds' /\ Question(j.at)'.kind \in {"file", "payment"}
                         /\ j.live => screen' = "question" /\ j.showing = showing' /\ j.at = Current'
    BY <1>1, <1>2
  <2>2. survey' \in Bundles /\ visited' \in Seq(QuestionIds') /\ visited' # <<>>
    BY <1>1 DEF ScreenInv
  <2>3. payable' => Shown'.kind = "payment"
    BY <1>1 DEF ScreenInv
  <2>4. screen' = "question" => Drawn(Shown', field')
    BY <1>1 DEF ScreenInv
  <2> QED BY <2>1, <2>2, <2>3, <2>4 DEF ScreenInv
<1>4. Seen'
  BY <1>1 DEF Seen
<1> QED BY <1>3, <1>4

LEMMA TypedScreen ==
  ASSUME DraftInv, ScreenInv, UNCHANGED <<survey, visited, showing, screen, payable, jobs>>,
         NEW v, Record(showing, Current, v), field' = v, Drawn(Shown, v)
  PROVE  ScreenInv' /\ Seen'
<1>1. /\ Current' = Current /\ Shown' = Shown /\ QuestionIds' = QuestionIds
      /\ \A id : Question(id)' = Question(id)
  BY SameSurvey
<1>2. answers'[showing'] = Recorded(answers[showing], Current, v)
  <2>1. answers' = [answers EXCEPT ![showing] = Recorded(answers[showing], Current, v)]
    BY DEF Record
  <2>2. showing \in DOMAIN answers
    BY DEF DraftInv
  <2> QED BY <2>1, <2>2
<1>3. ScreenInv'
  <2>1. \A j \in jobs' : /\ {"showing", "at", "live"} \subseteq DOMAIN j
                         /\ j.at \in QuestionIds' /\ Question(j.at)'.kind \in {"file", "payment"}
                         /\ j.live => screen' = "question" /\ j.showing = showing' /\ j.at = Current'
    BY <1>1 DEF ScreenInv
  <2>2. survey' \in Bundles /\ visited' \in Seq(QuestionIds') /\ visited' # <<>>
    BY <1>1 DEF ScreenInv
  <2>3. payable' => Shown'.kind = "payment"
    BY <1>1 DEF ScreenInv
  <2>4. Drawn(Shown', field')
    BY <1>1
  <2> QED BY <2>1, <2>2, <2>3, <2>4 DEF ScreenInv
<1>4. Answer(answers'[showing'], Current') = v
  BY <1>1, <1>2, RecordedFacts
<1>5. Seen'
  BY <1>1, <1>4 DEF Seen, Drawn
<1> QED BY <1>3, <1>5

(* An upload or a payment that is live fills the field on the screen.      *)
LEMMA EndedScreen ==
  ASSUME DraftInv, ScreenInv, Seen, NEW j \in jobs, NEW v, Ended(j, v), payable' = payable
  PROVE  ScreenInv' /\ Seen'
<1>0. UNCHANGED <<survey, visited, showing, screen>>
  BY DEF Ended
<1>1. /\ Current' = Current /\ Shown' = Shown /\ QuestionIds' = QuestionIds
      /\ \A id : Question(id)' = Question(id)
  BY <1>0, SameSurvey
<1>2. /\ field' = IF j.live THEN v ELSE field
      /\ jobs' = jobs \ {j}
      /\ answers' = [answers EXCEPT ![j.showing] = Recorded(answers[j.showing], j.at, v)]
  BY DEF Ended, Record
<1>3. ghost'.unseen <=> \/ ghost.unseen
                        \/ ~j.live /\ j.showing = showing /\ screen = "question" /\ j.at = Current
  BY DEF Ended, DraftInv
<1>4. /\ j.live => screen = "question" /\ j.showing = showing /\ j.at = Current
      /\ Question(j.at).kind \in {"file", "payment"}
  BY DEF ScreenInv
<1>5. j.live => Drawn(Shown, v) /\ Shown = Question(j.at)
  BY <1>4, JobDrawn DEF Shown
<1>6. ScreenInv'
  <2>1. \A i \in jobs' : /\ {"showing", "at", "live"} \subseteq DOMAIN i
                         /\ i.at \in QuestionIds' /\ Question(i.at)'.kind \in {"file", "payment"}
                         /\ i.live => screen' = "question" /\ i.showing = showing' /\ i.at = Current'
    BY <1>0, <1>1, <1>2 DEF ScreenInv
  <2>2. survey' \in Bundles /\ visited' \in Seq(QuestionIds') /\ visited' # <<>>
    BY <1>0, <1>1 DEF ScreenInv
  <2>3. payable' => Shown'.kind = "payment"
    BY <1>1 DEF ScreenInv
  <2>4. screen' = "question" => Drawn(Shown', field')
    BY <1>0, <1>1, <1>2, <1>5 DEF ScreenInv
  <2> QED BY <2>1, <2>2, <2>3, <2>4 DEF ScreenInv
<1>7. j.showing \in DOMAIN answers /\ showing \in DOMAIN answers
  <2>1. j.showing \in 1 .. showing /\ showing \in 1 .. MaxShowings /\ MaxShowings \in Nat
    BY SurveyBoundsAssumption DEF DraftInv
  <2>2. DOMAIN answers = 1 .. MaxShowings
    BY DEF DraftInv
  <2> QED BY <2>1, <2>2
<1>8. /\ j.showing = showing => answers'[showing] = Recorded(answers[showing], j.at, v)
      /\ j.showing # showing => answers'[showing] = answers[showing]
  BY <1>2, <1>7
<1>9. ASSUME screen = "question", ~ghost'.unseen
      PROVE  field' = Seeded(Shown, Answer(answers'[showing], Current))
  <2>1. CASE j.live
    <3>1. Answer(answers'[showing], Current) = v
      BY <1>4, <1>8, <2>1, RecordedFacts
    <3> QED BY <1>2, <1>5, <2>1, <3>1 DEF Drawn
  <2>2. CASE ~j.live
    <3>1. Answer(answers'[showing], Current) = Answer(answers[showing], Current)
      <4>1. CASE j.showing # showing
        BY <1>8, <4>1
      <4>2. CASE j.showing = showing
        <5>1. Current # j.at
          BY <1>3, <1>9, <2>2, <4>2
        <5> QED BY <1>8, <4>2, <5>1, RecordedFacts
      <4> QED BY <4>1, <4>2
    <3>2. field = Seeded(Shown, Answer(answers[showing], Current))
      BY <1>3, <1>9 DEF Seen
    <3> QED BY <1>2, <2>2, <3>1, <3>2
  <2> QED BY <2>1, <2>2
<1>10. Seen'
  BY <1>0, <1>1, <1>9 DEF Seen
<1> QED BY <1>6, <1>10
LEMMA FrontFacts ==
  ASSUME NEW S, NEW s \in Seq(S), Len(s) > 1
  PROVE  /\ Front(s) \in Seq(S) /\ Front(s) # <<>> /\ Len(Front(s)) = Len(s) - 1
         /\ \A k \in 1 .. Len(s) - 1 : Front(s)[k] = s[k]
<1>1. Len(s) \in Nat /\ Front(s) = SubSeq(s, 1, Len(s) - 1)
  BY DEF Front
<1>2. /\ Front(s) \in Seq(S) /\ Len(Front(s)) = Len(s) - 1
      /\ \A k \in 1 .. Len(s) - 1 : Front(s)[k] = s[k]
  <2>1. \A k \in 1 .. Len(s) : s[k] \in S
    OBVIOUS
  <2>2. /\ SubSeq(s, 1, Len(s) - 1) \in Seq(S)
        /\ Len(SubSeq(s, 1, Len(s) - 1)) =
             (IF 1 <= Len(s) - 1 THEN Len(s) - 1 - 1 + 1 ELSE 0)
        /\ \A k \in 1 .. Len(s) - 1 - 1 + 1 : SubSeq(s, 1, Len(s) - 1)[k] = s[1 + k - 1]
    BY <1>1, <2>1, SubSeqProperties
  <2> QED BY <1>1, <2>2
<1>3. Front(s) # <<>>
  <2>1. Len(<<>>) = 0 /\ Len(s) - 1 # 0
    BY <1>1
  <2> QED BY <1>2, <2>1, Zenon
<1> QED BY <1>2, <1>3

(* Next either leads to another question or is the end.                    *)
LEMMA AdvanceFacts ==
  ASSUME DraftInv, ScreenInv, Advance
  PROVE  /\ UNCHANGED <<survey, showing, partial, responses>> /\ screen = "question"
         /\ Record(showing, Current, field) /\ Drawn(Shown, field) /\ Passable
         /\ answers'[showing] = Recorded(answers[showing], Current, field)
         /\ ghost'.cleared = ghost.cleared
         /\ \/ /\ UNCHANGED <<visited, screen, field, payable, jobs>>
               /\ submits' = submits \cup {[showing |-> showing, path |-> visited,
                                            answers |-> answers'[showing], n |-> clicks]}
            \/ /\ submits' = submits /\ jobs' = Detached(jobs)
               /\ \E id \in NextQuestion(Current, answers'[showing]) :
                    /\ visited' = Append(visited, id)
                    /\ Render(Append(visited, id), FALSE, answers'[showing], FALSE)
<1>1. /\ UNCHANGED <<survey, showing, partial, responses>> /\ screen = "question"
      /\ Record(showing, Current, field) /\ Passable
  BY DEF Advance, Click, server
<1>2. Drawn(Shown, field)
  BY <1>1 DEF ScreenInv
<1>3. answers'[showing] = Recorded(answers[showing], Current, field)
  BY <1>1 DEF Record, DraftInv
<1>4. ghost'.cleared = ghost.cleared
  BY DEF Advance, DraftInv
<1>5. \/ /\ UNCHANGED <<visited, screen, field, payable, jobs>>
         /\ submits' = submits \cup {[showing |-> showing, path |-> visited,
                                      answers |-> answers'[showing], n |-> clicks]}
      \/ /\ submits' = submits /\ jobs' = Detached(jobs)
         /\ \E id \in NextQuestion(Current, answers'[showing]) :
              /\ visited' = Append(visited, id)
              /\ Render(Append(visited, id), FALSE, answers'[showing], FALSE)
  BY DEF Advance
<1> QED BY <1>1, <1>2, <1>3, <1>4, <1>5

LEMMA SettledFacts ==
  ASSUME DraftInv, NEW s, NEW message, Settled(s, message)
  PROVE  /\ UNCHANGED <<survey, showing, visited, answers, saves>> /\ submits' = submits \ {s}
         /\ ghost'.cleared = ghost.cleared
         /\ \/ jobs' = Detached(jobs) /\ Render(visited, done, answers[showing], message)
            \/ UNCHANGED <<screen, field, payable, jobs, ghost>>
  BY DEF Settled, DraftInv

SurveyInv == DraftInv /\ KeptInv /\ ScreenInv /\ Seen

LEMMA StepScreen ==
  ASSUME SurveyInv, [SurveyNext]_surveyVars PROVE SurveyInv'
<1>0. /\ DraftInv' /\ KeptInv' /\ survey' = survey /\ showing' \in 1 .. MaxShowings
      /\ DraftInv /\ ScreenInv /\ Seen /\ KeptInv
  <2>1. DraftInv'
    BY StepDraft DEF SurveyInv
  <2> QED BY <2>1, StepKept DEF SurveyInv, DraftInv
<1>1. ASSUME Input PROVE ScreenInv' /\ Seen'
  <2>1. UNCHANGED <<survey, visited, showing, screen, payable, jobs>>
    BY <1>1 DEF Input
  <2> QED BY <1>0, <1>1, <2>1, InputTypes, TypedScreen
<1>2. ASSUME PickFile \/ Pay PROVE ScreenInv' /\ Seen'
  <2>1. /\ UNCHANGED <<survey, visited, showing, answers, field, ghost, screen>>
        /\ screen = "question" /\ (payable' => payable)
        /\ Shown.kind = "file" \/ payable
        /\ jobs' = jobs \cup {[showing |-> showing, at |-> Current, live |-> TRUE, n |-> clicks]}
    BY <1>2 DEF PickFile, Pay, StartJob, Click, Shown
  <2>2. Shown.kind \in {"file", "payment"}
    BY <1>0, <2>1 DEF ScreenInv
  <2> QED BY <1>0, <2>1, <2>2, StillScreen
<1>3. ASSUME Gate PROVE ScreenInv' /\ Seen'
  <2>1. /\ visited' = visited /\ jobs' = Detached(jobs) /\ UNCHANGED <<answers, showing>>
        /\ Render(visited, done, answers[showing], TRUE)
    BY <1>3 DEF Gate
  <2>2. visited \in Seq(QuestionIds) /\ visited # <<>>
    BY <1>0 DEF ScreenInv
  <2>3. Render(visited, done, answers'[showing'], TRUE)
    BY <2>1
  <2> QED BY <1>0, <2>1, <2>2, <2>3, RedrawnScreen
<1>4. ASSUME Advance PROVE ScreenInv' /\ Seen'
  <2>1. CASE UNCHANGED <<visited, screen, field, payable, jobs>>
    BY <1>0, <1>4, <2>1, AdvanceFacts, TypedScreen
  <2>2. ASSUME jobs' = Detached(jobs),
               NEW id \in NextQuestion(Current, answers'[showing]),
               visited' = Append(visited, id),
               Render(Append(visited, id), FALSE, answers'[showing], FALSE)
        PROVE  ScreenInv' /\ Seen'
    <3>1. id \in QuestionIds
      BY <1>0, CurrentFacts, NextFacts DEF ScreenInv
    <3>2. Append(visited, id) \in Seq(QuestionIds) /\ Append(visited, id) # <<>>
      BY <1>0, <3>1 DEF ScreenInv
    <3>3. Render(Append(visited, id), FALSE, answers'[showing'], FALSE)
      BY <1>0, <1>4, <2>2, AdvanceFacts
    <3> QED BY <1>0, <2>2, <3>2, <3>3, RedrawnScreen
  <2> QED BY <1>0, <1>4, <2>1, <2>2, AdvanceFacts
<1>5. ASSUME Back PROVE ScreenInv' /\ Seen'
  <2>1. /\ visited' = Front(visited) /\ jobs' = Detached(jobs) /\ UNCHANGED <<answers, showing>>
        /\ Render(Front(visited), FALSE, answers[showing], FALSE) /\ Len(visited) > 1
    BY <1>5 DEF Back
  <2>2. Front(visited) \in Seq(QuestionIds) /\ Front(visited) # <<>>
    BY <1>0, <2>1, FrontFacts DEF ScreenInv
  <2>3. Render(Front(visited), FALSE, answers'[showing'], FALSE)
    BY <2>1
  <2> QED BY <1>0, <2>1, <2>2, <2>3, RedrawnScreen
<1>6. ASSUME Close PROVE ScreenInv' /\ Seen'
  <2>1. /\ UNCHANGED <<survey, visited, showing, answers, field, ghost, payable>>
        /\ screen' = "gone" /\ jobs' = Detached(jobs)
    BY <1>6 DEF Close
  <2> QED BY <1>0, <2>1, StillScreen
<1>7. ASSUME Reopen PROVE ScreenInv' /\ Seen'
  <2>1. PICK path \in Seq(QuestionIds) :
          /\ Len(path) = 1 /\ visited' = path /\ jobs' = Detached(jobs)
          /\ Render(path, FALSE, answers'[showing'], FALSE)
    BY <1>0, <1>7, ReopenFacts
  <2>2. path # <<>>
    BY <2>1
  <2> QED BY <1>0, <2>1, <2>2, RedrawnScreen
<1>8. ASSUME JobSucceeds \/ UploadFails PROVE ScreenInv' /\ Seen'
  <2>1. PICK j, v : j \in jobs /\ Ended(j, v) /\ payable' = payable
    BY <1>8 DEF JobSucceeds, UploadFails
  <2> QED BY <1>0, <2>1, EndedScreen
<1>9. ASSUME PaymentFails PROVE ScreenInv' /\ Seen'
  <2>1. PICK j \in jobs : jobs' = jobs \ {j} /\ payable' = (payable \/ j.live)
                          /\ Question(j.at).kind = "payment"
    BY <1>9 DEF PaymentFails
  <2>2. UNCHANGED <<survey, visited, showing, answers, field, ghost, screen>>
    BY <1>9 DEF PaymentFails
  <2>3. j.live => j.at = Current
    BY <1>0 DEF ScreenInv
  <2>4. payable' => payable \/ Shown.kind = "payment"
    BY <2>1, <2>3 DEF Shown
  <2> QED BY <1>0, <2>1, <2>2, <2>4, StillScreen
<1>10. ASSUME SubmitSucceeds \/ SubmitFails \/ AnswerLost PROVE ScreenInv' /\ Seen'
  <2>1. PICK s, message : Settled(s, message)
    BY <1>10 DEF SubmitSucceeds, SubmitFails, AnswerLost
  <2>2. UNCHANGED <<survey, showing, visited, answers>>
    BY <1>0, <2>1, SettledFacts
  <2>3. CASE jobs' = Detached(jobs) /\ Render(visited, done, answers[showing], message)
    <3>1. visited \in Seq(QuestionIds) /\ visited # <<>>
      BY <1>0 DEF ScreenInv
    <3>2. Render(visited, done, answers'[showing'], message)
      BY <2>2, <2>3
    <3> QED BY <1>0, <2>2, <2>3, <3>1, <3>2, RedrawnScreen
  <2>4. CASE UNCHANGED <<screen, field, payable, jobs, ghost>>
    BY <1>0, <2>2, <2>4, StillScreen
  <2> QED BY <1>0, <2>1, <2>3, <2>4, SettledFacts
<1>11. ASSUME SaveArrives \/ SaveLost \/ UNCHANGED surveyVars PROVE ScreenInv' /\ Seen'
  <2>1. /\ UNCHANGED <<survey, visited, showing, answers, field, payable, screen, jobs>>
        /\ ghost'.unseen <=> ghost.unseen
    BY <1>0, <1>11 DEF SaveArrives, SaveLost, surveyVars, server, DraftInv
  <2> QED BY <1>0, <2>1, StillScreen
<1>12. ScreenInv' /\ Seen'
  BY <1>1, <1>2, <1>3, <1>4, <1>5, <1>6, <1>7, <1>8, <1>9, <1>10, <1>11 DEF SurveyNext
<1> QED BY <1>0, <1>12 DEF SurveyInv

LEMMA InitScreen == ASSUME SurveyInit PROVE SurveyInv
<1>1. DraftInv
  BY InitDraft
<1>2. /\ survey \in Bundles /\ visited = <<Order[1].id>> /\ screen = "question"
      /\ field = Seeded(Order[1], Undefined) /\ payable = (Order[1].kind = "payment")
      /\ jobs = {} /\ submits = {} /\ saves = <<>> /\ partial = NoPartial /\ responses = {}
      /\ showing = 1 /\ answers = [g \in 1 .. MaxShowings |-> <<>>]
  BY DEF SurveyInit
<1>3. /\ Order[1].id \in QuestionIds /\ Question(Order[1].id) = Order[1]
      /\ Optioned(Order[1])
  <2>1. 1 \in DOMAIN Order
    BY <1>2, OrderFacts
  <2>2. Order[1].id \in QuestionIds /\ Question(Order[1].id) = Order[1]
    BY <1>2, <2>1, OrderFacts
  <2> QED BY <1>2, <2>2, ShownFacts
<1>4. visited \in Seq(QuestionIds) /\ visited # <<>> /\ Current = Order[1].id /\ Shown = Order[1]
  <2>1. visited \in Seq(QuestionIds) /\ Len(visited) = 1 /\ visited[1] = Order[1].id
    BY <1>2, <1>3
  <2> QED BY <1>3, <2>1 DEF Current, Shown, Last
<1>5. Drawn(Shown, field)
  BY <1>2, <1>3, <1>4, SeedDrawn
<1>6. ScreenInv
  BY <1>2, <1>4, <1>5 DEF ScreenInv
<1>7. Held = {<<>>}
  <2>1. DOMAIN saves = {} /\ Sent = {} /\ {partial} \ {NoPartial} = {}
    BY <1>2 DEF Sent
  <2>2. 1 \in 1 .. MaxShowings /\ \A g \in 1 .. MaxShowings : answers[g] = <<>>
    BY <1>2, SurveyBoundsAssumption
  <2>3. {answers[g] : g \in 1 .. MaxShowings} = {<<>>}
    BY <2>2
  <2> QED BY <2>1, <2>3 DEF Held
<1>8. AllProper(<<>>)
  <2>1. DOMAIN <<>> = {}
    OBVIOUS
  <2> QED BY <2>1 DEF AllProper
<1>9. KeptInv
  BY <1>7, <1>8 DEF KeptInv
<1>10. Seen
  <2>1. Answer(answers[showing], Current) = Undefined
    <3>1. answers[showing] = <<>> /\ DOMAIN <<>> = {}
      BY <1>2, SurveyBoundsAssumption
    <3> QED BY <3>1 DEF Answer
  <2> QED BY <1>2, <1>4, <2>1 DEF Seen
<1> QED BY <1>1, <1>6, <1>9, <1>10 DEF SurveyInv

(* Whatever the bundle asks and however its rules branch, what the         *)
(* respondent sees in the field is what is recorded for the question on    *)
(* the screen, up to the seed of its kind, unless an upload or a payment   *)
(* answered after its drawing was gone (state.ts:95-136, renderer.ts:728). *)
THEOREM WhatIsSeenIsRecorded == SurveySpec => []SeenIsRecorded
<1>1. SurveyInit => SurveyInv
  BY InitScreen
<1>2. SurveyInv /\ [SurveyNext]_surveyVars => SurveyInv'
  BY StepScreen
<1>3. SurveyInv => SeenIsRecorded
  BY DEF SurveyInv, Seen, Shown, SeenIsRecorded
<1> QED BY <1>1, <1>2, <1>3, PTL DEF SurveySpec
-----------------------------------------------------------------------------
(* The way through the survey.                                             *)

Given(ans, n, id, lost) ==
  Question(id).required => ~IsEmpty(Answer(ans, id)) \/ <<n, id>> \in lost

Earlier == {visited[a] : a \in 1 .. Len(visited) - 1}

Increasing ==
  \A a, b \in DOMAIN visited : \A x, y \in QuestionIds :
    a < b /\ x = visited[a] /\ y = visited[b] => Pos(x) < Pos(y)

(* Where no rule leads back the respondent meets no question twice, so the *)
(* field on the screen answers none that was passed before, and whoever    *)
(* submits has passed them all.                                            *)
PathInv ==
  Forward =>
    /\ Increasing
    /\ \A id \in Earlier : Given(answers[showing], showing, id, ghost.cleared)
    /\ \A s \in Sent : \A id \in ToSet(s.path) : Given(s.answers, s.showing, id, ghost.cleared)

LEMMA GivenGrows ==
  ASSUME NEW ans, NEW n, NEW id, NEW lost, NEW more, lost \subseteq more,
         Given(ans, n, id, lost)
  PROVE  Given(ans, n, id, more)
  BY DEF Given

LEMMA GivenRecorded ==
  ASSUME NEW ans, NEW n, NEW x, NEW lost, NEW more, lost \subseteq more,
         NEW id, NEW v,
         \/ x # id /\ Given(ans, n, x, lost)
         \/ ~IsEmpty(v) /\ Given(ans, n, x, lost)
         \/ <<n, id>> \in more /\ Given(ans, n, x, lost)
         \/ x = id /\ ~(Question(x).required /\ IsEmpty(v))
  PROVE  Given(Recorded(ans, id, v), n, x, more)
<1>1. CASE x = id
  <2>1. Answer(Recorded(ans, id, v), x) = v
    BY <1>1, RecordedFacts
  <2> QED BY <1>1, <2>1 DEF Given
<1>2. CASE x # id
  <2>1. Answer(Recorded(ans, id, v), x) = Answer(ans, x)
    BY <1>2, RecordedFacts
  <2> QED BY <1>2, <2>1 DEF Given
<1> QED BY <1>1, <1>2

LEMMA PathMoves ==
  ASSUME PathInv, survey' = survey, ghost.cleared \subseteq ghost'.cleared,
         Forward =>
           /\ \A a, b \in DOMAIN visited' : \A x, y \in QuestionIds :
                a < b /\ x = visited'[a] /\ y = visited'[b] => Pos(x) < Pos(y)
           /\ \A id \in Earlier' : Given(answers'[showing'], showing', id, ghost'.cleared)
           /\ \A s \in Sent' :
                s \in Sent \/ \A id \in ToSet(s.path) : Given(s.answers, s.showing, id, ghost'.cleared)
  PROVE  PathInv'
<1>1. /\ QuestionIds' = QuestionIds
      /\ \A id : Question(id)' = Question(id)
      /\ \A id : Pos(id)' = Pos(id)
      /\ Forward' <=> Forward
  <2>1. Order' = Order
    BY DEF Order
  <2>2. \A id : Pos(id)' = Pos(id)
    BY <2>1 DEF Pos
  <2>3. Forward' <=> Forward
    BY <2>1 DEF Forward
  <2> QED BY <2>2, <2>3, SameSurvey
<1>2. CASE ~Forward
  BY <1>1, <1>2 DEF PathInv
<1>3. CASE Forward
  <2>1. Increasing'
    BY <1>1, <1>3 DEF Increasing
  <2>2. \A id \in Earlier' : Question(id)'.required =>
          ~IsEmpty(Answer(answers'[showing'], id)) \/ <<showing', id>> \in ghost'.cleared
    BY <1>1, <1>3 DEF Given
  <2>3. \A s \in Sent' : \A id \in ToSet(s.path) :
          Given(s.answers, s.showing, id, ghost'.cleared)
    BY <1>3, GivenGrows DEF PathInv
  <2>4. \A s \in Sent' : \A id \in ToSet(s.path) :
          Question(id)'.required =>
            ~IsEmpty(Answer(s.answers, id)) \/ <<s.showing, id>> \in ghost'.cleared
    BY <1>1, <2>3 DEF Given
  <2> QED BY <2>1, <2>2, <2>4 DEF PathInv, Given
<1> QED BY <1>2, <1>3

(* The respondent stays where he is, and an answer that changes is the one *)
(* on the screen, or not empty, or marked as taken away.                   *)
LEMMA PathStays ==
  ASSUME SurveyInv, PathInv, UNCHANGED <<survey, showing, visited>>,
         ghost.cleared \subseteq ghost'.cleared,
         Sent' \subseteq Sent,
         \/ answers'[showing] = answers[showing]
         \/ \E id, v : /\ answers'[showing] = Recorded(answers[showing], id, v)
                       /\ id = Current \/ ~IsEmpty(v) \/ <<showing, id>> \in ghost'.cleared
  PROVE  PathInv'
<1>1. visited \in Seq(QuestionIds) /\ visited # <<>> /\ Earlier' = Earlier
  BY DEF SurveyInv, ScreenInv, Earlier
<1>2. ASSUME Forward, NEW x \in Earlier PROVE x # Current
  <2>1. PICK a \in 1 .. Len(visited) - 1 : x = visited[a]
    BY <1>2 DEF Earlier
  <2>2. /\ Len(visited) \in Nat /\ DOMAIN visited = 1 .. Len(visited)
        /\ Len(visited) # 0
    BY <1>1
  <2>3. a \in DOMAIN visited /\ Len(visited) \in DOMAIN visited /\ a < Len(visited)
    BY <2>2
  <2>4. Current = visited[Len(visited)]
    BY DEF Current, Last
  <2>5. x \in QuestionIds /\ Current \in QuestionIds
    BY <1>1, <2>1, <2>3, <2>4
  <2>6. Pos(x) < Pos(Current)
    BY <1>2, <2>1, <2>3, <2>4, <2>5 DEF PathInv, Increasing
  <2>7. Pos(x) \in Nat
    BY <2>5, OrderFacts DEF SurveyInv, ScreenInv
  <2> QED BY <2>6, <2>7
<1>3. ASSUME Forward, NEW x \in Earlier
      PROVE  Given(answers'[showing'], showing', x, ghost'.cleared)
  <2>1. Given(answers[showing], showing, x, ghost.cleared)
    BY <1>3 DEF PathInv
  <2>2. CASE answers'[showing] = answers[showing]
    BY <2>1, <2>2, GivenGrows
  <2>3. ASSUME NEW id, NEW v, answers'[showing] = Recorded(answers[showing], id, v),
               id = Current \/ ~IsEmpty(v) \/ <<showing, id>> \in ghost'.cleared
        PROVE  Given(answers'[showing'], showing', x, ghost'.cleared)
    <3>1. x # id \/ ~IsEmpty(v) \/ <<showing, id>> \in ghost'.cleared
      BY <1>2, <1>3, <2>3
    <3>2. Given(Recorded(answers[showing], id, v), showing, x, ghost'.cleared)
      BY <2>1, <3>1, GivenRecorded
    <3> QED BY <2>3, <3>2
  <2> QED BY <2>2, <2>3
<1>4. Forward => \A a, b \in DOMAIN visited' : \A x, y \in QuestionIds :
                   a < b /\ x = visited'[a] /\ y = visited'[b] => Pos(x) < Pos(y)
  BY DEF PathInv, Increasing
<1> QED BY <1>1, <1>3, <1>4, PathMoves

(* Next: the gate lets no required question pass without an answer.        *)
LEMMA PathAdvances ==
  ASSUME SurveyInv, PathInv, Advance PROVE PathInv'
<1> DEFINE ans == answers'[showing]
           n == Len(visited)
<1>1. /\ DraftInv /\ ScreenInv /\ visited \in Seq(QuestionIds) /\ visited # <<>>
      /\ Current \in QuestionIds /\ survey \in Bundles
  BY CurrentFacts DEF SurveyInv, ScreenInv
<1>2. /\ UNCHANGED <<survey, showing, partial, responses>>
      /\ Passable /\ ans = Recorded(answers[showing], Current, field)
      /\ ghost'.cleared = ghost.cleared
  BY <1>1, AdvanceFacts
<1>3. n \in Nat /\ n # 0 /\ DOMAIN visited = 1 .. n /\ Current = visited[n]
  BY <1>1 DEF Current, Last
<1> HIDE DEF ans, n
<1>4. ASSUME Forward, NEW x \in ToSet(visited)
      PROVE  Given(ans, showing, x, ghost'.cleared)
  <2>1. x = Current \/ x \in Earlier
    <3>1. PICK a \in 1 .. n : x = visited[a]
      BY <1>3, <1>4 DEF ToSet
    <3>2. a = n \/ a \in 1 .. n - 1
      BY <1>3
    <3> QED BY <1>3, <3>1, <3>2 DEF Earlier, n
  <2>2. CASE x = Current
    <3>1. ~(Question(x).required /\ IsEmpty(field))
      BY <1>2, <2>2 DEF Passable
    <3>2. Given(Recorded(answers[showing], Current, field), showing, x, ghost'.cleared)
      BY <1>2, <2>2, <3>1, GivenRecorded
    <3> QED BY <1>2, <3>2
  <2>3. CASE x # Current
    <3>1. Given(answers[showing], showing, x, ghost.cleared)
      BY <1>4, <2>1, <2>3 DEF PathInv
    <3>2. Given(Recorded(answers[showing], Current, field), showing, x, ghost'.cleared)
      BY <1>2, <2>3, <3>1, GivenRecorded
    <3> QED BY <1>2, <3>2
  <2> QED BY <2>2, <2>3
<1>5. CASE /\ visited' = visited
           /\ submits' = submits \cup {[showing |-> showing, path |-> visited,
                                        answers |-> ans, n |-> clicks]}
  <2> DEFINE new == [showing |-> showing, path |-> visited, answers |-> ans, n |-> clicks]
  <2>1. new.path = visited /\ new.answers = ans /\ new.showing = showing
    OBVIOUS
  <2> HIDE DEF new
  <2>2. \A s \in Sent' : s \in Sent \/ s = new
    BY <1>2, <1>5 DEF Sent, new
  <2>3. Forward => \A s \in Sent' :
          s \in Sent \/ \A id \in ToSet(s.path) : Given(s.answers, s.showing, id, ghost'.cleared)
    BY <1>4, <2>1, <2>2
  <2>4. Forward => \A id \in Earlier' : Given(answers'[showing'], showing', id, ghost'.cleared)
    <3>1. Earlier' \subseteq ToSet(visited)
      BY <1>3, <1>5 DEF Earlier, ToSet, n
    <3> QED BY <1>2, <1>4, <3>1 DEF ans
  <2>5. Forward => \A a, b \in DOMAIN visited' : \A x, y \in QuestionIds :
                     a < b /\ x = visited'[a] /\ y = visited'[b] => Pos(x) < Pos(y)
    BY <1>5 DEF PathInv, Increasing
  <2> QED BY <1>2, <2>3, <2>4, <2>5, PathMoves
<1>6. ASSUME submits' = submits, NEW id \in NextQuestion(Current, ans),
             visited' = Append(visited, id)
      PROVE  PathInv'
  <2>1. id \in QuestionIds /\ (Forward => Pos(Current) < Pos(id))
    BY <1>1, NextFacts
  <2>2. /\ visited' \in Seq(QuestionIds) /\ Len(visited') = n + 1 /\ DOMAIN visited' = 1 .. n + 1
        /\ \A a \in 1 .. n : visited'[a] = visited[a]
        /\ visited'[n + 1] = id
    BY <1>1, <1>6, <2>1 DEF n
  <2>3. Sent' = Sent
    BY <1>2, <1>6 DEF Sent
  <2>4. Earlier' = ToSet(visited)
    <3>1. Earlier' = {visited'[a] : a \in 1 .. n}
      BY <1>3, <2>2 DEF Earlier
    <3> QED BY <1>3, <2>2, <3>1 DEF ToSet
  <2>5. Forward => \A x \in Earlier' : Given(answers'[showing'], showing', x, ghost'.cleared)
    BY <1>2, <1>4, <2>4 DEF ans
  <2>6. ASSUME Forward, NEW a \in DOMAIN visited', NEW b \in DOMAIN visited',
               NEW x \in QuestionIds, NEW y \in QuestionIds,
               a < b, x = visited'[a], y = visited'[b]
        PROVE  Pos(x) < Pos(y)
    <3>1. a \in 1 .. n /\ x = visited[a]
      BY <1>3, <2>2, <2>6
    <3>2. CASE b \in 1 .. n
      BY <1>3, <2>2, <2>6, <3>1, <3>2 DEF PathInv, Increasing
    <3>3. CASE b = n + 1
      <4>1. y = id /\ Pos(Current) < Pos(y)
        BY <2>1, <2>2, <2>6, <3>3
      <4>2. CASE a = n
        BY <1>3, <3>1, <4>1, <4>2
      <4>3. CASE a # n
        <5>1. Pos(x) < Pos(Current)
          <6>1. a < n /\ n \in DOMAIN visited /\ a \in DOMAIN visited
            BY <1>3, <3>1, <4>3
          <6> QED BY <1>1, <1>3, <2>6, <3>1, <6>1 DEF PathInv, Increasing
        <5>2. Pos(x) \in Nat /\ Pos(y) \in Nat /\ Pos(Current) \in Nat
          BY <1>1, OrderFacts
        <5> QED BY <4>1, <5>1, <5>2
      <4> QED BY <4>2, <4>3
    <3> QED BY <1>3, <2>2, <2>6, <3>2, <3>3
  <2> QED BY <1>2, <2>3, <2>5, <2>6, PathMoves
<1> QED BY <1>1, <1>5, <1>6, AdvanceFacts DEF ans

LEMMA PathGoesBack ==
  ASSUME SurveyInv, PathInv, UNCHANGED <<survey, showing, answers>>,
         Len(visited) > 1, visited' = Front(visited),
         ghost'.cleared = ghost.cleared, Sent' = Sent
  PROVE  PathInv'
<1>1. /\ visited \in Seq(QuestionIds) /\ Len(visited) \in Nat
      /\ DOMAIN visited = 1 .. Len(visited)
  BY DEF SurveyInv, ScreenInv
<1>2. /\ visited' \in Seq(QuestionIds) /\ Len(visited') = Len(visited) - 1
      /\ \A k \in 1 .. Len(visited) - 1 : visited'[k] = visited[k]
  BY <1>1, FrontFacts
<1>3. DOMAIN visited' = 1 .. Len(visited) - 1
  BY <1>1, <1>2
<1>4. Earlier' \subseteq Earlier
  <2>1. \A a \in 1 .. Len(visited') - 1 :
          a \in 1 .. Len(visited) - 1 /\ visited'[a] = visited[a]
    BY <1>1, <1>2
  <2> QED BY <2>1 DEF Earlier
<1>5. Forward => \A a, b \in DOMAIN visited' : \A x, y \in QuestionIds :
                   a < b /\ x = visited'[a] /\ y = visited'[b] => Pos(x) < Pos(y)
  <2>1. \A a \in DOMAIN visited' : a \in DOMAIN visited /\ visited'[a] = visited[a]
    BY <1>1, <1>2, <1>3
  <2> QED BY <2>1 DEF PathInv, Increasing
<1>6. Forward => \A id \in Earlier' : Given(answers'[showing'], showing', id, ghost'.cleared)
  BY <1>4 DEF PathInv
<1> QED BY <1>5, <1>6, PathMoves

LEMMA PathReopens ==
  ASSUME SurveyInv, PathInv, Reopen PROVE PathInv'
<1>1. /\ UNCHANGED <<survey, submits, responses>>
      /\ \E path \in Seq(QuestionIds) : Len(path) = 1 /\ visited' = path
  BY ReopenFacts DEF SurveyInv
<1>2. ghost'.cleared = ghost.cleared
  BY DEF Reopen, SurveyInv, DraftInv
<1>3. Sent' = Sent
  BY <1>1 DEF Sent
<1>4. Earlier' = {} /\ DOMAIN visited' = {1}
  BY <1>1 DEF Earlier
<1> QED BY <1>1, <1>2, <1>3, <1>4, PathMoves

LEMMA NotEmpty == ASSUME NEW f PROVE ~IsEmpty(Map(f))
<1>1. "map" \in DOMAIN Map(f)
  BY DEF Map
<1>2. "map" \notin DOMAIN Undefined /\ "map" \notin DOMAIN Text("") /\ "map" \notin DOMAIN List(<<>>)
  BY DEF Undefined, Text, List
<1> QED BY <1>1, <1>2, Zenon DEF IsEmpty

LEMMA StepPath ==
  ASSUME SurveyInv, PathInv, [SurveyNext]_surveyVars PROVE PathInv'
<1>0. /\ DraftInv /\ KeptInv /\ ScreenInv
      /\ {"unseen", "impatient", "cleared", "late"} \subseteq DOMAIN ghost
      /\ showing \in DOMAIN answers
  <2>1. DraftInv /\ KeptInv /\ ScreenInv
    BY DEF SurveyInv
  <2> QED BY <2>1 DEF DraftInv
<1>1. ASSUME Input PROVE PathInv'
  <2>1. /\ UNCHANGED <<survey, showing, visited, submits, responses>>
        /\ ghost'.cleared = ghost.cleared
    BY <1>0, <1>1 DEF Input, server
  <2>2. PICK v : Record(showing, Current, v)
    BY <1>1 DEF Input
  <2>3. answers'[showing] = Recorded(answers[showing], Current, v)
    BY <1>0, <2>2 DEF Record
  <2>4. Sent' = Sent
    BY <2>1 DEF Sent
  <2> QED BY <2>1, <2>3, <2>4, PathStays
<1>2. ASSUME \/ PickFile \/ Pay \/ Gate \/ Close \/ PaymentFails \/ SaveArrives \/ SaveLost
             \/ UNCHANGED surveyVars
      PROVE  PathInv'
  <2>1. /\ UNCHANGED <<survey, showing, visited, answers, submits, responses>>
        /\ ghost'.cleared = ghost.cleared
    BY <1>0, <1>2 DEF PickFile, Pay, Gate, Close, PaymentFails, SaveArrives, SaveLost,
       surveyVars, server
  <2>2. Sent' = Sent
    BY <2>1 DEF Sent
  <2> QED BY <2>1, <2>2, PathStays
<1>3. ASSUME Back PROVE PathInv'
  <2>1. /\ UNCHANGED <<survey, showing, answers, submits, responses>>
        /\ Len(visited) > 1 /\ visited' = Front(visited) /\ ghost'.cleared = ghost.cleared
    BY <1>0, <1>3 DEF Back, server
  <2>2. Sent' = Sent
    BY <2>1 DEF Sent
  <2> QED BY <2>1, <2>2, PathGoesBack
<1>4. ASSUME NEW j \in jobs, NEW v, Ended(j, v), ~IsEmpty(v) \/ v = Undefined PROVE PathInv'
  <2>1. /\ UNCHANGED <<survey, showing, visited, submits, responses>>
        /\ answers' = [answers EXCEPT ![j.showing] = Recorded(answers[j.showing], j.at, v)]
        /\ ghost'.cleared = IF v = Undefined /\ ~j.live
                            THEN ghost.cleared \cup {<<j.showing, j.at>>} ELSE ghost.cleared
    BY <1>0, <1>4 DEF Ended, Record, server
  <2>2. Sent' = Sent
    BY <2>1 DEF Sent
  <2>3. CASE j.showing # showing
    <3>1. answers'[showing] = answers[showing]
      BY <1>0, <2>1, <2>3
    <3> QED BY <2>1, <2>2, <3>1, PathStays
  <2>4. CASE j.showing = showing
    <3>1. answers'[showing] = Recorded(answers[showing], j.at, v)
      BY <1>0, <2>1, <2>4
    <3>2. j.live => j.at = Current
      BY <1>0 DEF ScreenInv
    <3>3. j.at = Current \/ ~IsEmpty(v) \/ <<showing, j.at>> \in ghost'.cleared
      BY <1>4, <2>1, <2>4, <3>2
    <3> QED BY <2>1, <2>2, <3>1, <3>3, PathStays
  <2> QED BY <2>3, <2>4
<1>5. ASSUME JobSucceeds \/ UploadFails PROVE PathInv'
  <2>1. \E j, v : j \in jobs /\ Ended(j, v) /\ (~IsEmpty(v) \/ v = Undefined)
    BY <1>5, NotEmpty DEF JobSucceeds, UploadFails
  <2> QED BY <1>4, <2>1
<1>6. ASSUME SubmitSucceeds \/ SubmitFails \/ AnswerLost PROVE PathInv'
  <2>1. PICK s, message :
          s \in submits /\ Settled(s, message) /\ (UNCHANGED server \/ Accepted(s))
    BY <1>6 DEF SubmitSucceeds, SubmitFails, AnswerLost
  <2>2. /\ UNCHANGED <<survey, showing, visited, answers>> /\ submits' = submits \ {s}
        /\ ghost'.cleared = ghost.cleared
    BY <1>0, <2>1, SettledFacts
  <2>3. Sent' \subseteq Sent
    BY <2>1, <2>2 DEF Sent, Accepted, server
  <2> QED BY <2>2, <2>3, PathStays
<1> QED BY <1>1, <1>2, <1>3, <1>5, <1>6, PathAdvances, PathReopens DEF SurveyNext

LEMMA InitPath == ASSUME SurveyInit PROVE PathInv
<1>1. visited = <<Order[1].id>> /\ Sent = {}
  BY DEF SurveyInit, Sent
<1>2. Len(visited) = 1 /\ DOMAIN visited = {1} /\ Earlier = {}
  BY <1>1 DEF Earlier
<1> QED BY <1>1, <1>2 DEF PathInv, Increasing

(* Whatever the bundle asks: where no rule leads back, every submission    *)
(* holds an answer to every required question on its path, however often   *)
(* the respondent went back and cleared a field, unless an upload that     *)
(* failed late took it away; a ranking in it names every option once, and  *)
(* its best option is not its worst (renderer.ts:728-764).                *)
THEOREM SubmissionsAreValid == SurveySpec => []SubmissionsValid
<1>1. SurveyInit => SurveyInv /\ PathInv
  BY InitScreen, InitPath
<1>2. SurveyInv /\ PathInv /\ [SurveyNext]_surveyVars => (SurveyInv /\ PathInv)'
  BY StepScreen, StepPath
<1>3. SurveyInv /\ PathInv => SubmissionsValid
  <2> SUFFICES ASSUME SurveyInv, PathInv, Forward, NEW s \in Sent
               PROVE  /\ \A id \in ToSet(s.path) :
                           Question(id).required =>
                             ~IsEmpty(Answer(s.answers, id)) \/ <<s.showing, id>> \in ghost.cleared
                      /\ \A id \in DOMAIN s.answers :
                           LET q == Question(id) v == s.answers[id]
                           IN  /\ q.kind = "ranking" => ToSet(v.list) = Keys(q) /\ IsInjective(v.list)
                               /\ q.kind = "maxdiff" /\ {"best", "worst"} \subseteq DOMAIN v.map =>
                                    v.map["best"] # v.map["worst"]
    BY DEF SubmissionsValid, Sent
  <2>1. \A id \in ToSet(s.path) : Given(s.answers, s.showing, id, ghost.cleared)
    BY DEF PathInv
  <2>2. \A id \in DOMAIN s.answers : Proper(Question(id), s.answers[id])
    BY DEF SurveyInv, KeptInv, Held, AllProper
  <2> QED BY <2>1, <2>2 DEF Given, Proper, FullRanking, Contrasted
<1> QED BY <1>1, <1>2, <1>3, PTL DEF SurveySpec
=============================================================================
