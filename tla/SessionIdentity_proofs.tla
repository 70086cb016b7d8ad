----------------------- MODULE SessionIdentity_proofs -----------------------
(***************************************************************************)
(* For any number of tabs and users, however long they run: the plugins of *)
(* a tab follow its session and identity, whoever identifies is linked to  *)
(* the anonymous id of before, a session has one owner, and one that lay   *)
(* in the background too long is not resumed.                              *)
(***************************************************************************)
EXTENDS SessionIdentity, TLAPS

Session == [id : Nat, bg : Nat]
Identity == [anon : Nat, distinct : Users \cup Nat]
Stages == {"down", "boot", "setup", "ready"}

TypeInv ==
  /\ now \in Nat
  /\ stage \in [Tabs -> Stages]
  /\ session \in [Tabs -> Session]
  /\ identity \in [Tabs -> Identity]
  /\ known \in [Tabs -> [sid : Nat, distinct : Users \cup Nat]]
  /\ stored \in [session : Session, identity : Identity]
  /\ sessions \in Nat /\ anons \in Nat
  /\ owner \in [1 .. MaxSessions -> Nat]
  /\ \A c \in calls : c.tab \in Tabs /\ (c.call = "notify" => c.sid \in Nat)

LEMMA InitType == Init => TypeInv
  BY BoundsAssumption DEF Init, TypeInv, Session, Identity, Stages, NoSession, NoIdentity

LEMMA RefreshedType == ASSUME TypeInv, NEW t \in Tabs PROVE Refreshed(t) \in Session
  BY DEF TypeInv, Refreshed, Read, Fresh, Session

LEMMA DrawnType ==
  ASSUME TypeInv, NEW anon \in Nat, Drawn(anon) \/ UNCHANGED <<sessions, owner>>
  PROVE  sessions' \in Nat /\ owner' \in [1 .. MaxSessions -> Nat]
  BY DEF TypeInv, Drawn

(* refresh() writes one session, to the tab and to localStorage.           *)
LEMMA RefreshType ==
  ASSUME TypeInv, NEW t \in Tabs, Refresh(t)
  PROVE  /\ session' = [session EXCEPT ![t] = Refreshed(t)]
         /\ stored' = [session |-> Refreshed(t), identity |-> stored.identity]
         /\ session' \in [Tabs -> Session]
         /\ stored' \in [session : Session, identity : Identity]
         /\ sessions' \in Nat /\ owner' \in [1 .. MaxSessions -> Nat]
<1>1. session' = [session EXCEPT ![t] = Refreshed(t)] /\ Refreshed(t) \in Session
  BY RefreshedType DEF Refresh, Saved
<1>2. stored' = [session |-> Refreshed(t), identity |-> stored.identity]
  BY DEF Refresh, TypeInv
<1>3. identity[t].anon \in Nat
  BY DEF TypeInv, Identity
<1>4. Drawn(identity[t].anon) \/ UNCHANGED <<sessions, owner>>
  BY DEF Refresh
<1> QED BY <1>1, <1>2, <1>3, <1>4, DrawnType DEF TypeInv

LEMMA BootFacts ==
  ASSUME TypeInv, NEW t \in Tabs, Boot(t)
  PROVE  /\ Constructed \in Identity /\ Refreshed(t) \in Session
         /\ stage' = [stage EXCEPT ![t] = "boot"]
         /\ identity' = [identity EXCEPT ![t] = Constructed]
         /\ session' = [session EXCEPT ![t] = Refreshed(t)]
         /\ stored' = [session |-> Refreshed(t), identity |-> Constructed]
         /\ UNCHANGED <<now, known, calls, links, silent, raced, cleared, crossReset>>
         /\ anons' \in Nat
         /\ sessions' \in Nat /\ owner' \in [1 .. MaxSessions -> Nat]
<1>1. Constructed \in Identity /\ Refreshed(t) \in Session
  BY RefreshedType DEF Constructed, Anonymous, TypeInv, Identity
<1>2. Drawn(Constructed.anon) \/ UNCHANGED <<sessions, owner>>
  BY DEF Boot
<1>3. Constructed.anon \in Nat
  BY <1>1 DEF Identity
<1>4. sessions' \in Nat /\ owner' \in [1 .. MaxSessions -> Nat]
  BY <1>2, <1>3, DrawnType
<1> QED BY <1>1, <1>4 DEF Boot, Saved, TypeInv

LEMMA ResetFacts ==
  ASSUME TypeInv, ResetDraws
  PROVE  \E c \in calls :
           /\ c.tab \in Tabs /\ c.call = "reset"
           /\ calls' = (calls \ {c}) \cup {[call |-> "notify", tab |-> c.tab, alias |-> << >>,
                                            sid |-> Fresh.id]}
           /\ anons' = anons + 1
           /\ identity' = [identity EXCEPT ![c.tab] = Anonymous(anons')]
           /\ Drawn(anons')
           /\ session' = [session EXCEPT ![c.tab] = Fresh]
           /\ stored' = [session |-> Fresh, identity |-> Anonymous(anons')]
           /\ known' = IF Listening(c.tab) THEN [known EXCEPT ![c.tab].distinct = anons'] ELSE known
           /\ crossReset' = (crossReset \/ \E t \in Tabs \ {c.tab} : Up(t))
           /\ silent \ silent' \subseteq {c.tab}
           /\ stage[c.tab] = "setup" => c.tab \in silent'
           /\ raced' = IF Telling(c.tab) THEN raced \cup {c.tab} ELSE raced \ {c.tab}
           /\ UNCHANGED <<now, stage, hidden, links, unseen, cleared>>
           /\ Seen(c.tab, Fresh.id)
           /\ Fresh \in Session /\ Anonymous(anons') \in Identity
           /\ sessions' \in Nat /\ owner' \in [1 .. MaxSessions -> Nat]
<1>1. PICK c \in calls :
        /\ c.call = "reset"
        /\ calls' = (calls \ {c}) \cup {[call |-> "notify", tab |-> c.tab, alias |-> << >>,
                                         sid |-> Fresh.id]}
        /\ anons' = anons + 1
        /\ identity' = [identity EXCEPT ![c.tab] = Anonymous(anons')]
        /\ Drawn(anons')
        /\ Saved(c.tab, Fresh)
        /\ stored' = [session |-> Fresh, identity |-> Anonymous(anons')]
        /\ known' = IF Listening(c.tab) THEN [known EXCEPT ![c.tab].distinct = anons'] ELSE known
        /\ Seen(c.tab, Fresh.id)
        /\ crossReset' = (crossReset \/ \E t \in Tabs \ {c.tab} : Up(t))
        /\ silent' = CASE stage[c.tab] = "setup" -> silent \cup {c.tab}
                       [] Listening(c.tab) -> silent \ {c.tab}
                       [] OTHER -> silent
        /\ raced' = IF Telling(c.tab) THEN raced \cup {c.tab} ELSE raced \ {c.tab}
  BY DEF ResetDraws
<1>2. c.tab \in Tabs /\ anons' \in Nat
  BY <1>1 DEF TypeInv
<1>3. Fresh \in Session /\ Anonymous(anons') \in Identity
  BY <1>2 DEF TypeInv, Fresh, Anonymous, Session, Identity
<1>4. sessions' \in Nat /\ owner' \in [1 .. MaxSessions -> Nat]
  BY <1>1, <1>2, DrawnType
<1>5. silent \ silent' \subseteq {c.tab} /\ (stage[c.tab] = "setup" => c.tab \in silent')
  BY <1>1 DEF Listening
<1>6. UNCHANGED <<now, stage, hidden, links, unseen, cleared>>
  BY DEF ResetDraws
<1>7. session' = [session EXCEPT ![c.tab] = Fresh]
  BY <1>1 DEF Saved
<1> QED BY <1>1, <1>2, <1>3, <1>4, <1>5, <1>6, <1>7

(* The end of a reset() touches what the plugins know, and nothing else.   *)
LEMMA EndFacts ==
  ASSUME TypeInv, ResetEnds
  PROVE  /\ \E c \in calls :
              /\ c.tab \in Tabs /\ c.call = "notify" /\ c.sid \in Nat /\ calls' = calls \ {c}
              /\ known' = IF Listening(c.tab) THEN [known EXCEPT ![c.tab].sid = c.sid] ELSE known
         /\ UNCHANGED <<now, stage, hidden, session, identity, stored, sessions, anons, callCount,
                        owner, links, visibleAt, silent, raced, unseen, cleared, crossReset>>
  BY DEF ResetEnds, TypeInv, history

LEMMA IdentifyFacts ==
  ASSUME TypeInv, NEW t \in Tabs, NEW u \in Users, Identify(t, u)
  PROVE  /\ [identity[t] EXCEPT !.distinct = u] = [anon |-> identity[t].anon, distinct |-> u]
         /\ identity' = [identity EXCEPT ![t] = [anon |-> identity[t].anon, distinct |-> u]]
         /\ stored' = [session |-> stored.session,
                       identity |-> [anon |-> identity[t].anon, distinct |-> u]]
         /\ known' = IF Listening(t) THEN [known EXCEPT ![t].distinct = u] ELSE known
         /\ silent' = IF stage[t] = "setup" THEN silent \cup {t} ELSE silent
         /\ calls' = IF identity[t].distinct = identity[t].anon
                     THEN calls \cup {[call |-> "identify", tab |-> t,
                                       alias |-> <<identity[t].anon, u>>]}
                     ELSE calls
         /\ UNCHANGED <<now, stage, session, sessions, anons, owner, links, raced, cleared,
                        crossReset>>
<1>1. [identity[t] EXCEPT !.distinct = u] = [anon |-> identity[t].anon, distinct |-> u]
  BY DEF TypeInv, Identity
<1> QED BY <1>1 DEF Identify, TypeInv

LEMMA NextType == ASSUME TypeInv, [Next]_vars PROVE TypeInv'
<1>1. ASSUME NEW t \in Tabs, Boot(t) PROVE TypeInv'
  <2>1. stage' = [stage EXCEPT ![t] = "boot"] /\ "boot" \in Stages
    BY <1>1, BootFacts DEF Stages
  <2>2. /\ identity' = [identity EXCEPT ![t] = Constructed] /\ Constructed \in Identity
        /\ session' = [session EXCEPT ![t] = Refreshed(t)] /\ Refreshed(t) \in Session
        /\ stored' = [session |-> Refreshed(t), identity |-> Constructed]
    BY <1>1, BootFacts
  <2>3. /\ UNCHANGED <<now, known, calls>>
        /\ anons' \in Nat /\ sessions' \in Nat /\ owner' \in [1 .. MaxSessions -> Nat]
    BY <1>1, BootFacts
  <2>4. stage' \in [Tabs -> Stages]
    BY <2>1 DEF TypeInv
  <2>5. session' \in [Tabs -> Session] /\ identity' \in [Tabs -> Identity]
    BY <2>2 DEF TypeInv
  <2>6. stored' \in [session : Session, identity : Identity]
    BY <2>2
  <2> QED BY <2>3, <2>4, <2>5, <2>6 DEF TypeInv
<1>2. ASSUME NEW t \in Tabs, SetUp(t) PROVE TypeInv'
  BY <1>2 DEF SetUp, TypeInv, Session, Identity, Stages, history
<1>3. ASSUME NEW t \in Tabs, Ready(t) PROVE TypeInv'
  BY <1>3, RefreshType DEF Ready, TypeInv, Stages
<1>4. ASSUME NEW t \in Tabs, Hide(t) PROVE TypeInv'
  <2>1. [session[t] EXCEPT !.bg = now] \in Session
    BY DEF TypeInv, Session
  <2> QED BY <1>4, <2>1 DEF Hide, Saved, TypeInv
<1>5. ASSUME NEW t \in Tabs, Show(t) PROVE TypeInv'
  <2>1. UNCHANGED <<now, stage, identity, known, calls, anons>>
    BY <1>5 DEF Show
  <2>2. CASE Listening(t)
    BY <1>5, <2>1, <2>2, RefreshType DEF Show, TypeInv
  <2>3. CASE ~Listening(t)
    BY <1>5, <2>1, <2>3 DEF Show, TypeInv
  <2> QED BY <2>2, <2>3
<1>6. ASSUME NEW t \in Tabs, Leave(t) PROVE TypeInv'
  <2>1. NoSession \in Session /\ NoIdentity \in Identity
    BY DEF Session, Identity, NoSession, NoIdentity
  <2>2. session' \in [Tabs -> Session] /\ identity' \in [Tabs -> Identity]
    BY <1>6, <2>1 DEF Leave, TypeInv
  <2>3. known' \in [Tabs -> [sid : Nat, distinct : Users \cup Nat]]
    BY <1>6 DEF Leave, TypeInv
  <2>4. stage' \in [Tabs -> Stages]
    BY <1>6 DEF Leave, TypeInv, Stages
  <2>5. UNCHANGED <<now, stored, sessions, anons, owner>> /\ calls' \subseteq calls
    BY <1>6 DEF Leave
  <2> QED BY <2>2, <2>3, <2>4, <2>5 DEF TypeInv
<1>7. ASSUME NEW t \in Tabs, Touch(t) PROVE TypeInv'
  <2>1. session'[t].id \in Nat
    BY <1>7, RefreshType DEF Touch, Session
  <2>2. known' \in [Tabs -> [sid : Nat, distinct : Users \cup Nat]]
    BY <1>7, <2>1 DEF Touch, TypeInv
  <2> QED BY <1>7, <2>2, RefreshType DEF Touch, TypeInv
<1>8. ASSUME NEW t \in Tabs, NEW u \in Users, Identify(t, u) PROVE TypeInv'
  <2>1. [anon |-> identity[t].anon, distinct |-> u] \in Identity
    BY DEF TypeInv, Identity
  <2>2. [known[t] EXCEPT !.distinct = u] \in [sid : Nat, distinct : Users \cup Nat]
    BY DEF TypeInv
  <2>3. /\ identity' = [identity EXCEPT ![t] = [anon |-> identity[t].anon, distinct |-> u]]
        /\ stored' = [session |-> stored.session,
                      identity |-> [anon |-> identity[t].anon, distinct |-> u]]
        /\ known' = IF Listening(t) THEN [known EXCEPT ![t].distinct = u] ELSE known
        /\ calls' = IF identity[t].distinct = identity[t].anon
                    THEN calls \cup {[call |-> "identify", tab |-> t,
                                      alias |-> <<identity[t].anon, u>>]}
                    ELSE calls
        /\ UNCHANGED <<now, stage, session, sessions, anons, owner>>
    BY <1>8, IdentifyFacts
  <2>4. \A c \in calls' : c.tab \in Tabs
    BY <2>3 DEF TypeInv
  <2>5. stored' \in [session : Session, identity : Identity]
    BY <2>1, <2>3 DEF TypeInv
  <2>6. identity' \in [Tabs -> Identity]
    BY <2>1, <2>3 DEF TypeInv
  <2>7. known' \in [Tabs -> [sid : Nat, distinct : Users \cup Nat]]
    BY <2>2, <2>3 DEF TypeInv
  <2> QED BY <2>3, <2>4, <2>5, <2>6, <2>7 DEF TypeInv
<1>9. ASSUME NEW t \in Tabs, Reset(t) PROVE TypeInv'
  BY <1>9 DEF Reset, TypeInv, tabState, history
<1>10. CASE AliasQueued
  BY <1>10 DEF AliasQueued, TypeInv, tabState
<1>11. CASE ResetDraws
  <2>1. PICK c \in calls :
           /\ c.tab \in Tabs
           /\ calls' = (calls \ {c}) \cup {[call |-> "notify", tab |-> c.tab, alias |-> << >>,
                                            sid |-> Fresh.id]}
           /\ anons' = anons + 1
           /\ identity' = [identity EXCEPT ![c.tab] = Anonymous(anons')]
           /\ session' = [session EXCEPT ![c.tab] = Fresh]
           /\ stored' = [session |-> Fresh, identity |-> Anonymous(anons')]
           /\ known' = IF Listening(c.tab) THEN [known EXCEPT ![c.tab].distinct = anons'] ELSE known
           /\ UNCHANGED <<now, stage>>
           /\ Fresh \in Session /\ Anonymous(anons') \in Identity
           /\ sessions' \in Nat /\ owner' \in [1 .. MaxSessions -> Nat]
    BY <1>11, ResetFacts
  <2>2. anons' \in Nat
    BY <2>1 DEF TypeInv
  <2>3. known' \in [Tabs -> [sid : Nat, distinct : Users \cup Nat]]
    BY <2>1, <2>2 DEF TypeInv
  <2>4. \A d \in calls' : d.tab \in Tabs /\ (d.call = "notify" => d.sid \in Nat)
    BY <2>1 DEF TypeInv, Session
  <2>5. session' \in [Tabs -> Session] /\ identity' \in [Tabs -> Identity]
    BY <2>1 DEF TypeInv
  <2>6. stored' \in [session : Session, identity : Identity]
    BY <2>1
  <2> QED BY <2>1, <2>2, <2>3, <2>4, <2>5, <2>6 DEF TypeInv
<1>11a. CASE ResetEnds
  <2>1. PICK c \in calls :
           /\ c.tab \in Tabs /\ c.sid \in Nat /\ calls' = calls \ {c}
           /\ known' = IF Listening(c.tab) THEN [known EXCEPT ![c.tab].sid = c.sid] ELSE known
    BY <1>11a, EndFacts
  <2>2. UNCHANGED <<now, stage, session, identity, stored, sessions, anons, owner>>
    BY <1>11a, EndFacts
  <2>3. known' \in [Tabs -> [sid : Nat, distinct : Users \cup Nat]]
    BY <2>1 DEF TypeInv
  <2>4. \A d \in calls' : d.tab \in Tabs /\ (d.call = "notify" => d.sid \in Nat)
    BY <2>1 DEF TypeInv
  <2> QED BY <2>2, <2>3, <2>4 DEF TypeInv
<1>12. CASE Tick
  BY <1>12 DEF Tick, TypeInv, tabState
<1>13. CASE Clear
  BY <1>13 DEF Clear, TypeInv, tabState, Session, Identity, NoSession, NoIdentity
<1>14. CASE UNCHANGED vars
  BY <1>14 DEF vars, tabState, history, TypeInv
<1> QED BY <1>1, <1>2, <1>3, <1>4, <1>5, <1>6, <1>7, <1>8, <1>9, <1>10, <1>11, <1>11a, <1>12,
           <1>13, <1>14 DEF Next

-----------------------------------------------------------------------------
(* What the plugins know. Between SetUp and Ready nobody tells them, so    *)
(* the invariant starts where they take their snapshot. A reset() that has *)
(* yet to tell of a session will tell of the one the tab has, unless that  *)
(* changed meanwhile.                                                      *)

InStep(t) == known[t].sid = session[t].id /\ known[t].distinct = identity[t].distinct
NearlyInStep(t) ==
  /\ known[t].distinct = identity[t].distinct
  /\ known[t].sid = session[t].id \/ t \in raced \/ Telling(t)

Follows(t) ==
  /\ stage[t] = "setup" => t \in silent \/ InStep(t)
  /\ stage[t] = "ready" => t \in silent \/ NearlyInStep(t)
Current(c) ==
  /\ Up(c.tab)
  /\ c.call = "notify" => c.tab \in raced \/ c.sid = session[c.tab].id

FollowInv == (\A t \in Tabs : Follows(t)) /\ \A c \in calls : Current(c)

(* A tab whose snapshot, state, stage and calls stay, and that is not      *)
(* forgotten as silent or raced, stays in step.                            *)
LEMMA OthersFollow ==
  ASSUME FollowInv, NEW s \in Tabs,
         known'[s] = known[s], session'[s].id = session[s].id,
         identity'[s].distinct = identity[s].distinct, stage'[s] = stage[s],
         s \in silent => s \in silent', s \in raced => s \in raced',
         \A c \in calls : c.call = "notify" /\ c.tab = s => c \in calls'
  PROVE  Follows(s)'
  BY DEF FollowInv, Follows, InStep, NearlyInStep, Telling

(* What is to be told stays current while no session changes.              *)
LEMMA SameSessions ==
  ASSUME FollowInv, TypeInv, raced \subseteq raced',
         \A s \in Tabs : session'[s].id = session[s].id /\ (Up(s) => stage'[s] # "down"),
         \A c \in calls' : c \in calls \/ (c.call # "notify" /\ c.tab \in Tabs /\ Up(c.tab))
  PROVE  \A c \in calls' : Current(c)'
<1> SUFFICES ASSUME NEW c \in calls' PROVE Current(c)'
  OBVIOUS
<1>1. CASE c \in calls
  <2>1. Current(c) /\ c.tab \in Tabs
    BY <1>1 DEF FollowInv, TypeInv
  <2> QED BY <2>1 DEF Current, Up
<1>2. CASE c.call # "notify" /\ c.tab \in Tabs /\ Up(c.tab)
  BY <1>2 DEF Current, Up
<1> QED BY <1>1, <1>2

(* Nor when one does and Races() takes note.                               *)
LEMMA RacesCurrent ==
  ASSUME FollowInv, TypeInv, NEW t \in Tabs, Races(t), NEW new,
         session' = [session EXCEPT ![t] = new], calls' = calls,
         \A s \in Tabs : Up(s) => stage'[s] # "down"
  PROVE  (\A c \in calls' : Current(c)') /\ raced \subseteq raced'
<1>1. raced \subseteq raced'
  BY DEF Races
<1>2. ASSUME NEW c \in calls' PROVE Current(c)'
  <2>1. Current(c) /\ c.tab \in Tabs /\ c \in calls
    BY <1>2 DEF FollowInv, TypeInv
  <2>2. CASE c.tab # t
    BY <1>1, <2>1, <2>2 DEF Current, Up, TypeInv
  <2>3. CASE c.tab = t
    <3>1. c.call = "notify" => Telling(t)
      BY <2>1, <2>3 DEF Telling
    <3>2. c.call = "notify" /\ session'[t].id # session[t].id => t \in raced'
      BY <3>1 DEF Races
    <3> QED BY <1>1, <2>1, <2>3, <3>2 DEF Current, Up
  <2> QED BY <2>2, <2>3
<1> QED BY <1>1, <1>2

LEMMA NextFollow == ASSUME TypeInv, FollowInv, [Next]_vars PROVE FollowInv'
<1> USE DEF TypeInv
<1>1. ASSUME NEW t \in Tabs, Boot(t) PROVE FollowInv'
  <2>0. /\ stage' = [stage EXCEPT ![t] = "boot"]
        /\ identity' = [identity EXCEPT ![t] = Constructed]
        /\ session' = [session EXCEPT ![t] = Refreshed(t)]
        /\ UNCHANGED <<known, calls, silent, raced>>
        /\ ~Up(t)
    BY <1>1, BootFacts DEF Boot
  <2>1. ASSUME NEW s \in Tabs, s # t PROVE Follows(s)'
    BY <2>0, <2>1, OthersFollow
  <2>2. Follows(t)'
    BY <2>0 DEF Follows
  <2>3. ASSUME NEW c \in calls' PROVE Current(c)'
    <3>1. Current(c) /\ c.tab \in Tabs /\ c.tab # t
      BY <2>0, <2>3 DEF FollowInv, Current
    <3> QED BY <2>0, <3>1 DEF Current, Up
  <2> QED BY <2>1, <2>2, <2>3 DEF FollowInv
<1>2. ASSUME NEW t \in Tabs, SetUp(t) PROVE FollowInv'
  <2>0. /\ stage[t] = "boot" /\ stage' = [stage EXCEPT ![t] = "setup"]
        /\ known' = [known EXCEPT ![t] = [sid |-> session[t].id, distinct |-> identity[t].distinct]]
        /\ UNCHANGED <<session, identity, calls, silent, raced>>
    BY <1>2 DEF SetUp, history
  <2>1. ASSUME NEW s \in Tabs, s # t PROVE Follows(s)'
    BY <2>0, <2>1, OthersFollow
  <2>2. Follows(t)'
    BY <2>0 DEF Follows, InStep
  <2>3. \A c \in calls' : Current(c)'
    BY <2>0, SameSessions DEF Up
  <2> QED BY <2>1, <2>2, <2>3 DEF FollowInv
<1>3. ASSUME NEW t \in Tabs, Ready(t) PROVE FollowInv'
  <2>0. /\ session' = [session EXCEPT ![t] = Refreshed(t)]
        /\ stage[t] = "setup" /\ stage' = [stage EXCEPT ![t] = "ready"]
        /\ silent' = IF session'[t].id # session[t].id THEN silent \cup {t} ELSE silent
        /\ Races(t) /\ UNCHANGED <<identity, known, calls>>
    BY <1>3, RefreshType DEF Ready
  <2>1. (\A c \in calls' : Current(c)') /\ raced \subseteq raced'
    BY <2>0, RacesCurrent DEF Up
  <2>2. ASSUME NEW s \in Tabs, s # t PROVE Follows(s)'
    BY <2>0, <2>1, <2>2, OthersFollow
  <2>3. Follows(t)'
    <3>1. CASE session'[t].id # session[t].id
      BY <2>0, <3>1 DEF Follows
    <3>2. CASE session'[t].id = session[t].id
      <4>1. t \in silent \/ InStep(t)
        BY <2>0 DEF FollowInv, Follows
      <4>2. t \in silent' \/ InStep(t)'
        BY <2>0, <3>2, <4>1 DEF InStep
      <4> QED BY <2>0, <4>2 DEF Follows, InStep, NearlyInStep
    <3> QED BY <3>1, <3>2
  <2> QED BY <2>1, <2>2, <2>3 DEF FollowInv
<1>4. ASSUME NEW t \in Tabs, Hide(t) PROVE FollowInv'
  <2>1. ASSUME NEW s \in Tabs PROVE session'[s].id = session[s].id
    <3>1. [session[t] EXCEPT !.bg = now].id = session[t].id
      BY DEF Session
    <3> QED BY <1>4, <3>1 DEF Hide, Saved
  <2>2. UNCHANGED <<stage, identity, known, calls, silent, raced>>
    BY <1>4 DEF Hide
  <2>3. \A s \in Tabs : Follows(s)'
    BY <2>1, <2>2, OthersFollow
  <2>4. \A c \in calls' : Current(c)'
    BY <2>1, <2>2, SameSessions DEF Up
  <2> QED BY <2>3, <2>4 DEF FollowInv
<1>5. ASSUME NEW t \in Tabs, Show(t) PROVE FollowInv'
  <2>0. PICK new : session' = [session EXCEPT ![t] = new]
    <3>1. CASE Listening(t)
      BY <1>5, <3>1, RefreshType DEF Show
    <3>2. CASE ~Listening(t)
      <4>1. session' = [session EXCEPT ![t] = session[t]]
        BY <1>5, <3>2 DEF Show
      <4> QED BY <4>1
    <3> QED BY <3>1, <3>2
  <2>1. /\ UNCHANGED <<stage, identity, known, calls>> /\ Races(t)
        /\ silent \subseteq silent'
        /\ session'[t].id # session[t].id => t \in silent'
    BY <1>5 DEF Show
  <2>2. (\A c \in calls' : Current(c)') /\ raced \subseteq raced'
    BY <2>0, <2>1, RacesCurrent DEF Up
  <2>3. ASSUME NEW s \in Tabs, s # t \/ session'[t].id = session[t].id PROVE Follows(s)'
    BY <2>0, <2>1, <2>2, <2>3, OthersFollow
  <2>4. session'[t].id # session[t].id => Follows(t)'
    BY <2>1 DEF Follows
  <2> QED BY <2>2, <2>3, <2>4 DEF FollowInv
<1>6. ASSUME NEW t \in Tabs, Leave(t) PROVE FollowInv'
  <2>0. /\ stage' = [stage EXCEPT ![t] = "down"]
        /\ session' \in {session, [session EXCEPT ![t] = NoSession]}
        /\ identity' = [identity EXCEPT ![t] = NoIdentity]
        /\ known' = [known EXCEPT ![t] = [sid |-> 0, distinct |-> 0]]
        /\ calls' = {c \in calls : c.tab # t}
        /\ silent' = silent \ {t} /\ raced' = raced \ {t}
    BY <1>6 DEF Leave
  <2>1. ASSUME NEW s \in Tabs, s # t PROVE Follows(s)'
    BY <2>0, <2>1, OthersFollow
  <2>2. Follows(t)'
    BY <2>0 DEF Follows
  <2>3. ASSUME NEW c \in calls' PROVE Current(c)'
    <3>1. Current(c) /\ c.tab \in Tabs /\ c.tab # t
      BY <2>0, <2>3 DEF FollowInv
    <3>2. /\ stage'[c.tab] = stage[c.tab] /\ session'[c.tab] = session[c.tab]
          /\ c.tab \in raced => c.tab \in raced'
      BY <2>0, <3>1
    <3> QED BY <3>1, <3>2 DEF Current, Up
  <2> QED BY <2>1, <2>2, <2>3 DEF FollowInv
<1>7. ASSUME NEW t \in Tabs, Touch(t) PROVE FollowInv'
  <2>0. /\ session' = [session EXCEPT ![t] = Refreshed(t)]
        /\ known' = IF session'[t].id # session[t].id /\ Listening(t)
                    THEN [known EXCEPT ![t].sid = session'[t].id] ELSE known
        /\ silent' = IF session'[t].id # session[t].id /\ stage[t] = "setup"
                     THEN silent \cup {t} ELSE silent
        /\ UNCHANGED <<stage, identity, calls>> /\ Races(t)
    BY <1>7, RefreshType DEF Touch
  <2>1. (\A c \in calls' : Current(c)') /\ raced \subseteq raced'
    BY <2>0, RacesCurrent DEF Up
  <2>2. ASSUME NEW s \in Tabs, s # t \/ session'[t].id = session[t].id PROVE Follows(s)'
    <3>1. known'[s] = known[s] /\ (s \in silent => s \in silent')
      BY <2>0, <2>2
    <3> QED BY <2>0, <2>1, <2>2, <3>1, OthersFollow
  <2>3. CASE session'[t].id # session[t].id /\ Listening(t)
    <3>1. /\ known'[t].sid = session'[t].id /\ known'[t].distinct = known[t].distinct
          /\ silent' = silent
      BY <2>0, <2>3 DEF Listening
    <3>2. t \in silent \/ NearlyInStep(t)
      BY <2>3 DEF FollowInv, Follows, Listening
    <3>3. t \in silent' \/ NearlyInStep(t)'
      BY <2>0, <3>1, <3>2 DEF NearlyInStep
    <3>4. Follows(t)'
      BY <2>0, <2>3, <3>3 DEF Follows, Listening
    <3> QED BY <2>1, <2>2, <3>4 DEF FollowInv
  <2>4. CASE session'[t].id # session[t].id /\ ~Listening(t)
    <3>1. Follows(t)'
      BY <2>0, <2>4 DEF Follows, Listening
    <3> QED BY <2>1, <2>2, <3>1 DEF FollowInv
  <2> QED BY <2>1, <2>2, <2>3, <2>4 DEF FollowInv
<1>8. ASSUME NEW t \in Tabs, NEW u \in Users, Identify(t, u) PROVE FollowInv'
  <2>0. /\ identity' = [identity EXCEPT ![t] = [anon |-> identity[t].anon, distinct |-> u]]
        /\ known' = IF Listening(t) THEN [known EXCEPT ![t].distinct = u] ELSE known
        /\ silent' = IF stage[t] = "setup" THEN silent \cup {t} ELSE silent
        /\ calls' = IF identity[t].distinct = identity[t].anon
                    THEN calls \cup {[call |-> "identify", tab |-> t,
                                      alias |-> <<identity[t].anon, u>>]}
                    ELSE calls
        /\ UNCHANGED <<stage, session, raced>>
    BY <1>8, IdentifyFacts
  <2>1. /\ Up(t) /\ calls \subseteq calls'
        /\ \A c \in calls' : c \in calls \/ (c.call # "notify" /\ c.tab = t)
    BY <1>8, <2>0 DEF Identify
  <2>2. \A c \in calls' : Current(c)'
    BY <2>0, <2>1, SameSessions DEF Up
  <2>3. ASSUME NEW s \in Tabs, s # t PROVE Follows(s)'
    <3>1. known'[s] = known[s] /\ identity'[s] = identity[s] /\ (s \in silent => s \in silent')
      BY <2>0, <2>3
    <3> QED BY <2>0, <2>1, <3>1, OthersFollow
  <2>4. Follows(t)'
    <3>1. CASE Listening(t)
      <4>1. known'[t].distinct = u /\ known'[t].sid = known[t].sid /\ identity'[t].distinct = u
        BY <2>0, <3>1
      <4>2. t \in silent \/ NearlyInStep(t)
        BY <3>1 DEF FollowInv, Follows, Listening
      <4>3. Telling(t) => Telling(t)'
        BY <2>1 DEF Telling
      <4>4. t \in silent' \/ NearlyInStep(t)'
        BY <2>0, <4>1, <4>2, <4>3 DEF NearlyInStep
      <4> QED BY <2>0, <3>1, <4>4 DEF Follows, Listening
    <3>2. CASE ~Listening(t)
      BY <2>0, <3>2 DEF Follows, Listening
    <3> QED BY <3>1, <3>2
  <2> QED BY <2>2, <2>3, <2>4 DEF FollowInv
<1>9. ASSUME NEW t \in Tabs, Reset(t) PROVE FollowInv'
  <2>0. /\ calls' = calls \cup {[call |-> "reset", tab |-> t, alias |-> << >>]} /\ Up(t)
        /\ UNCHANGED <<stage, session, identity, known, silent, raced>>
    BY <1>9 DEF Reset, tabState, history
  <2>1. \A c \in calls' : c \in calls \/ (c.call # "notify" /\ c.tab = t)
    BY <2>0
  <2>2. \A c \in calls' : Current(c)'
    BY <2>0, <2>1, SameSessions DEF Up
  <2>3. \A s \in Tabs : Follows(s)'
    BY <2>0, OthersFollow
  <2> QED BY <2>2, <2>3 DEF FollowInv
<1>10. CASE AliasQueued
  <2>0. PICK c \in calls : c.call = "identify" /\ calls' = calls \ {c}
    BY <1>10 DEF AliasQueued
  <2>1. UNCHANGED <<stage, session, identity, known, silent, raced>>
    BY <1>10 DEF AliasQueued, tabState
  <2>2. \A d \in calls' : Current(d)'
    BY <2>0, <2>1, SameSessions DEF Up
  <2>3. \A s \in Tabs : Follows(s)'
    BY <2>0, <2>1, OthersFollow
  <2> QED BY <2>2, <2>3 DEF FollowInv
<1>11. CASE ResetDraws
  <2>0. PICK c \in calls :
           /\ c.tab \in Tabs /\ c.call = "reset"
           /\ calls' = (calls \ {c}) \cup {[call |-> "notify", tab |-> c.tab, alias |-> << >>,
                                            sid |-> Fresh.id]}
           /\ identity' = [identity EXCEPT ![c.tab] = Anonymous(anons')]
           /\ session' = [session EXCEPT ![c.tab] = Fresh]
           /\ known' = IF Listening(c.tab) THEN [known EXCEPT ![c.tab].distinct = anons'] ELSE known
           /\ silent \ silent' \subseteq {c.tab}
           /\ stage[c.tab] = "setup" => c.tab \in silent'
           /\ raced' = IF Telling(c.tab) THEN raced \cup {c.tab} ELSE raced \ {c.tab}
           /\ stage' = stage
    BY <1>11, ResetFacts
  <2> DEFINE n == [call |-> "notify", tab |-> c.tab, alias |-> << >>, sid |-> Fresh.id]
  <2>1. n \in calls' /\ n.call = "notify" /\ n.tab = c.tab /\ n.sid = Fresh.id
    BY <2>0
  <2>2. \A d \in calls' : d = n \/ d \in calls
    BY <2>0
  <2>3. \A d \in calls : d.call = "notify" => d \in calls'
    BY <2>0
  <2> HIDE DEF n
  <2>4. ASSUME NEW s \in Tabs, s # c.tab PROVE Follows(s)'
    <3>1. /\ known'[s] = known[s] /\ (s \in silent => s \in silent')
          /\ s \in raced => s \in raced'
      BY <2>0, <2>4
    <3> QED BY <2>0, <2>3, <2>4, <3>1, OthersFollow
  <2>5. Follows(c.tab)'
    <3>1. Telling(c.tab)'
      BY <2>0, <2>1 DEF Telling
    <3>2. CASE Listening(c.tab)
      <4>1. known'[c.tab].distinct = identity'[c.tab].distinct
        BY <2>0, <3>2 DEF Anonymous
      <4> QED BY <2>0, <3>1, <3>2, <4>1 DEF Follows, NearlyInStep, Listening
    <3>3. CASE ~Listening(c.tab)
      BY <2>0, <3>3 DEF Follows, Listening
    <3> QED BY <3>2, <3>3
  <2>6. ASSUME NEW d \in calls' PROVE Current(d)'
    <3>1. CASE d = n
      BY <2>0, <2>1, <3>1 DEF FollowInv, Current, Up
    <3>2. CASE d \in calls /\ d.tab # c.tab
      <4>1. Current(d) /\ d.tab \in Tabs
        BY <3>2 DEF FollowInv
      <4> QED BY <2>0, <3>2, <4>1 DEF Current, Up
    <3>3. CASE d \in calls /\ d.tab = c.tab
      <4>1. Current(d)
        BY <3>3 DEF FollowInv
      <4>2. d.call = "notify" => Telling(c.tab)
        BY <3>3 DEF Telling
      <4>3. d.call = "notify" => c.tab \in raced'
        BY <2>0, <4>2
      <4> QED BY <2>0, <3>3, <4>1, <4>3 DEF Current, Up
    <3> QED BY <2>2, <3>1, <3>2, <3>3
  <2> QED BY <2>4, <2>5, <2>6 DEF FollowInv
<1>12. CASE ResetEnds
  <2>0. PICK c \in calls :
          /\ c.tab \in Tabs /\ c.call = "notify" /\ calls' = calls \ {c}
          /\ known' = IF Listening(c.tab) THEN [known EXCEPT ![c.tab].sid = c.sid] ELSE known
    BY <1>12, EndFacts
  <2>1. UNCHANGED <<stage, session, identity, silent, raced>>
    BY <1>12, EndFacts
  <2>2. \A d \in calls' : Current(d)'
    BY <2>0, <2>1, SameSessions DEF Up
  <2>3. ASSUME NEW s \in Tabs, s # c.tab PROVE Follows(s)'
    <3>1. known'[s] = known[s]
      BY <2>0, <2>3
    <3> QED BY <2>0, <2>1, <2>3, <3>1, OthersFollow
  <2>4. Follows(c.tab)'
    <3>1. CASE Listening(c.tab)
      <4>1. known'[c.tab].sid = c.sid /\ known'[c.tab].distinct = known[c.tab].distinct
        BY <2>0, <3>1
      <4>2. c.tab \in raced \/ c.sid = session[c.tab].id
        BY <2>0 DEF FollowInv, Current
      <4>3. c.tab \in silent \/ NearlyInStep(c.tab)
        BY <2>0, <3>1 DEF FollowInv, Follows, Listening
      <4> QED BY <2>1, <3>1, <4>1, <4>2, <4>3 DEF Follows, NearlyInStep, Listening
    <3>2. CASE ~Listening(c.tab)
      BY <2>0, <2>1, <3>2 DEF FollowInv, Follows, InStep, Listening
    <3> QED BY <3>1, <3>2
  <2> QED BY <2>2, <2>3, <2>4 DEF FollowInv
<1>13. CASE Tick \/ Clear \/ UNCHANGED vars
  <2>1. UNCHANGED <<stage, session, identity, known, calls, silent, raced>>
    BY <1>13 DEF Tick, Clear, vars, tabState, history
  <2>2. \A c \in calls' : Current(c)'
    BY <2>1, SameSessions DEF Up
  <2>3. \A s \in Tabs : Follows(s)'
    BY <2>1, OthersFollow
  <2> QED BY <2>2, <2>3 DEF FollowInv
<1> QED BY <1>1, <1>2, <1>3, <1>4, <1>5, <1>6, <1>7, <1>8, <1>9, <1>10, <1>11, <1>12, <1>13
        DEF Next

(* The plugins that are listed know the session and the distinct id of     *)
(* their tab, unless the change is one of those nobody notifies, or the    *)
(* session of a reset() that has not told them yet, or told them late      *)
(* (client.ts:434-445, plugins.ts:153-167).                                *)
THEOREM PluginsAreInStep == Spec => []PluginsFollow
<1>1. Init => TypeInv /\ FollowInv
  BY InitType DEF Init, FollowInv, Follows
<1>2. TypeInv /\ FollowInv /\ [Next]_vars => TypeInv' /\ FollowInv'
  BY NextType, NextFollow
<1>3. FollowInv => PluginsFollow
  BY DEF FollowInv, Follows, PluginsFollow, NearlyInStep, Listening
<1> QED BY <1>1, <1>2, <1>3, PTL DEF Spec

-----------------------------------------------------------------------------
(* Who is linked. Besides the tabs, the stored identity has to be, as a    *)
(* boot takes it up; and what a page that leaves takes along, or a reset() *)
(* that ends, must not be the alias anybody counts on.                     *)

Aliases == links \cup {c.alias : c \in calls}
LinkedTo(a) == \E p \in Aliases : p # << >> /\ p[1] = a

LinkInv ==
  /\ \A c \in calls : c.call # "identify" => c.alias = << >>
  /\ \A t \in Tabs : identity[t].distinct # identity[t].anon => LinkedTo(identity[t].anon)
  /\ stored.identity.distinct # stored.identity.anon => LinkedTo(stored.identity.anon)

(* No step forgets an alias.                                               *)
LEMMA AliasesStay ==
  ASSUME TypeInv, LinkInv, [Next]_vars
  PROVE  \A p \in Aliases : p # << >> => p \in Aliases'
<1>1. CASE links' = links /\ calls \subseteq calls'
  BY <1>1 DEF Aliases
<1>2. ASSUME NEW t \in Tabs, Leave(t) PROVE \A p \in Aliases : p # << >> => p \in Aliases'
  <2>1. links' = links \cup {c.alias : c \in {d \in calls : d.tab = t /\ d.call = "identify"}}
        /\ calls' = {c \in calls : c.tab # t}
    BY <1>2 DEF Leave
  <2>2. ASSUME NEW c \in calls, c.alias # << >> PROVE c.alias \in Aliases'
    <3>1. c.call = "identify"
      BY <2>2 DEF LinkInv
    <3>2. CASE c.tab = t
      BY <2>1, <3>1, <3>2 DEF Aliases
    <3>3. CASE c.tab # t
      BY <2>1, <3>3 DEF Aliases
    <3> QED BY <3>2, <3>3
  <2>3. links \subseteq Aliases'
    BY <2>1 DEF Aliases
  <2> QED BY <2>2, <2>3 DEF Aliases
<1>3. CASE AliasQueued
  <2>1. PICK c \in calls : calls' = calls \ {c} /\ links' = links \cup {c.alias}
    BY <1>3 DEF AliasQueued
  <2> QED BY <2>1 DEF Aliases
<1>4. CASE ResetDraws \/ ResetEnds
  <2>1. PICK c \in calls : c.call # "identify" /\ calls \ {c} \subseteq calls'
    BY <1>4 DEF ResetDraws, ResetEnds
  <2>2. links' = links /\ c.alias = << >>
    BY <1>4, <2>1 DEF ResetDraws, ResetEnds, LinkInv, history
  <2> QED BY <2>1, <2>2 DEF Aliases
<1>5. ASSUME NEW t \in Tabs, Touch(t) \/ Reset(t) \/ (\E u \in Users : Identify(t, u))
      PROVE  links' = links /\ calls \subseteq calls'
  BY <1>5 DEF Touch, Reset, Identify, history
<1>6. ASSUME NEW t \in Tabs, Boot(t) \/ SetUp(t) \/ Ready(t) \/ Hide(t) \/ Show(t)
      PROVE  links' = links /\ calls \subseteq calls'
  BY <1>6 DEF Boot, SetUp, Ready, Hide, Show, history
<1>7. CASE Tick \/ Clear \/ UNCHANGED vars
  <2>1. links' = links /\ calls \subseteq calls'
    BY <1>7 DEF Tick, Clear, vars, history
  <2> QED BY <1>1, <2>1
<1> QED BY <1>1, <1>2, <1>3, <1>4, <1>5, <1>6, <1>7 DEF Next

(* Every identity a step leaves is one of before, an anonymous one, or one *)
(* that identify() has just linked.                                        *)
LEMMA NextLink == ASSUME TypeInv, LinkInv, [Next]_vars PROVE LinkInv'
<1> DEFINE LinkedThen(a) == \E p \in Aliases' : p # << >> /\ p[1] = a
           Good(i) == i.distinct # i.anon => LinkedThen(i.anon)
           Sources == {identity[t] : t \in Tabs} \cup {stored.identity}
<1>1. \A a : LinkedTo(a) => LinkedThen(a)
  BY AliasesStay DEF LinkedTo
<1>2. \A i \in Sources : Good(i)
  BY <1>1 DEF LinkInv
<1>3. \A a : Good(Anonymous(a))
  BY DEF Anonymous
<1>4. Good(NoIdentity)
  BY DEF NoIdentity
<1> HIDE DEF Good
<1>5. SUFFICES /\ \A c \in calls' : c.call # "identify" => c.alias = << >>
               /\ \A t \in Tabs : Good(identity'[t])
               /\ Good(stored'.identity)
  BY DEF LinkInv, Good, LinkedTo
<1> DEFINE C == \A c \in calls' : c.call # "identify" => c.alias = << >>
           I == \A t \in Tabs : Good(identity'[t])
           S == Good(stored'.identity)
<1>6. calls' \subseteq calls => C
  BY DEF LinkInv
<1>7. identity' = identity => I
  BY <1>2
<1>8. stored'.identity = stored.identity => S
  BY <1>2
<1>11. ASSUME NEW t \in Tabs, Boot(t) PROVE C /\ I /\ S
  <2>1. Good(Constructed)
    BY <1>2, <1>3 DEF Constructed
  <2>2. /\ identity' = [identity EXCEPT ![t] = Constructed]
        /\ stored' = [session |-> Refreshed(t), identity |-> Constructed]
        /\ calls' = calls
    BY <1>11, BootFacts
  <2>3. I
    BY <1>2, <2>1, <2>2 DEF TypeInv
  <2> QED BY <1>6, <2>1, <2>2, <2>3
<1>12. ASSUME NEW t \in Tabs, SetUp(t) PROVE C /\ I /\ S
  BY <1>6, <1>7, <1>8, <1>12 DEF SetUp
<1>13. ASSUME NEW t \in Tabs, Ready(t) PROVE C /\ I /\ S
  <2>1. stored'.identity = stored.identity
    BY <1>13, RefreshType DEF Ready
  <2> QED BY <1>6, <1>7, <1>8, <1>13, <2>1 DEF Ready
<1>14. ASSUME NEW t \in Tabs, Hide(t) PROVE C /\ I /\ S
  <2>1. stored'.identity = stored.identity
    BY <1>14 DEF Hide, TypeInv
  <2> QED BY <1>6, <1>7, <1>8, <1>14, <2>1 DEF Hide
<1>15. ASSUME NEW t \in Tabs, Show(t) PROVE C /\ I /\ S
  <2>1. stored'.identity = stored.identity
    BY <1>15, RefreshType DEF Show
  <2> QED BY <1>6, <1>7, <1>8, <1>15, <2>1 DEF Show
<1>16. ASSUME NEW t \in Tabs, Leave(t) PROVE C /\ I /\ S
  <2>1. I
    BY <1>2, <1>4, <1>16 DEF Leave, TypeInv
  <2> QED BY <1>6, <1>8, <1>16, <2>1 DEF Leave
<1>17. ASSUME NEW t \in Tabs, Touch(t) PROVE C /\ I /\ S
  <2>1. stored'.identity = stored.identity
    BY <1>17, RefreshType DEF Touch
  <2> QED BY <1>6, <1>7, <1>8, <1>17, <2>1 DEF Touch
<1>18. ASSUME NEW t \in Tabs, NEW u \in Users, Identify(t, u) PROVE C /\ I /\ S
  <2>0. /\ identity' = [identity EXCEPT ![t] = [anon |-> identity[t].anon, distinct |-> u]]
        /\ stored' = [session |-> stored.session,
                      identity |-> [anon |-> identity[t].anon, distinct |-> u]]
        /\ calls' = IF identity[t].distinct = identity[t].anon
                    THEN calls \cup {[call |-> "identify", tab |-> t,
                                      alias |-> <<identity[t].anon, u>>]}
                    ELSE calls
    BY <1>18, IdentifyFacts
  <2>1. LinkedThen(identity[t].anon)
    <3>1. CASE identity[t].distinct = identity[t].anon
      <4> DEFINE c == [call |-> "identify", tab |-> t, alias |-> <<identity[t].anon, u>>]
      <4>1. c \in calls'
        BY <2>0, <3>1
      <4>2. c.alias \in Aliases'
        BY <4>1 DEF Aliases
      <4>3. c.alias # << >> /\ c.alias[1] = identity[t].anon
        OBVIOUS
      <4> HIDE DEF c
      <4> QED BY <4>2, <4>3
    <3>2. CASE identity[t].distinct # identity[t].anon
      BY <1>1, <3>2 DEF LinkInv
    <3> QED BY <3>1, <3>2
  <2> DEFINE j == [anon |-> identity[t].anon, distinct |-> u]
  <2>2. Good(j)
    BY <2>1 DEF Good
  <2>3. identity' = [identity EXCEPT ![t] = j] /\ stored'.identity = j
    BY <2>0
  <2> HIDE DEF j
  <2>4. I /\ S
    BY <1>2, <2>2, <2>3 DEF TypeInv
  <2>5. C
    BY <2>0 DEF LinkInv
  <2> QED BY <2>4, <2>5
<1>19. ASSUME NEW t \in Tabs, Reset(t) PROVE C /\ I /\ S
  <2>1. C
    BY <1>19 DEF Reset, LinkInv
  <2> QED BY <1>7, <1>8, <1>19, <2>1 DEF Reset, tabState
<1>20. CASE AliasQueued
  <2>1. calls' \subseteq calls
    BY <1>20 DEF AliasQueued
  <2> QED BY <1>6, <1>7, <1>8, <1>20, <2>1 DEF AliasQueued, tabState
<1>21. CASE ResetDraws
  <2>0. PICK c \in calls :
           /\ calls' = (calls \ {c}) \cup {[call |-> "notify", tab |-> c.tab, alias |-> << >>,
                                            sid |-> Fresh.id]}
           /\ identity' = [identity EXCEPT ![c.tab] = Anonymous(anons')]
           /\ stored' = [session |-> Fresh, identity |-> Anonymous(anons')]
    BY <1>21, ResetFacts
  <2>1. I
    BY <1>2, <1>3, <2>0 DEF TypeInv
  <2>2. S
    BY <1>3, <2>0
  <2>3. C
    BY <2>0 DEF LinkInv
  <2> QED BY <2>1, <2>2, <2>3
<1>21a. CASE ResetEnds
  <2>1. UNCHANGED <<identity, stored>> /\ calls' \subseteq calls
    BY <1>21a, EndFacts
  <2> QED BY <1>6, <1>7, <1>8, <2>1
<1>22. CASE Tick \/ UNCHANGED vars
  BY <1>6, <1>7, <1>8, <1>22 DEF Tick, vars, tabState
<1>23. CASE Clear
  BY <1>4, <1>6, <1>7, <1>23 DEF Clear, tabState
<1> HIDE DEF C, I, S
<1> QED BY <1>11, <1>12, <1>13, <1>14, <1>15, <1>16, <1>17, <1>18, <1>19, <1>20, <1>21,
           <1>21a, <1>22, <1>23 DEF Next, C, I, S

(* Whoever is identified, in whichever tab, has an alias that leads back   *)
(* to the anonymous id, sent, waiting, or gone with its page.              *)
THEOREM IdentifiedIsLinked == Spec => []Linked
<1>1. Init => TypeInv /\ LinkInv
  <2>1. Init => LinkInv
    BY DEF Init, LinkInv, NoIdentity
  <2> QED BY <2>1, InitType
<1>2. TypeInv /\ LinkInv /\ [Next]_vars => TypeInv' /\ LinkInv'
  BY NextType, NextLink
<1>3. LinkInv => Linked
  BY DEF LinkInv, Linked, LinkedTo, Aliases
<1> QED BY <1>1, <1>2, <1>3, PTL DEF Spec

-----------------------------------------------------------------------------
(* Whose session it is. While localStorage was not cleared and no reset()  *)
(* ended beside another tab, every open tab has the stored anonymous id,   *)
(* and the stored session, like that of any open tab, is of its making;    *)
(* only a closed tab may keep, in sessionStorage, one that a reset() ended *)
(* elsewhere, and it never reads it, as there is a stored one.             *)

Owned(s, a) == s.id \in 1 .. sessions /\ owner[s.id] = a

OwnerInv ==
  cleared \/ crossReset \/
    LET a == stored.identity.anon IN
    /\ sessions <= MaxSessions
    /\ stored.identity # NoIdentity => a # 0
    /\ stored.session # NoSession => Owned(stored.session, a)
    /\ stored.session = NoSession => \A t \in Tabs : ~Up(t) /\ session[t] = NoSession
    /\ stored.identity = NoIdentity => stored.session = NoSession
    /\ \A t \in Tabs : Up(t) => identity[t].anon = a /\ Owned(session[t], a)

(* The sessions of before keep their owner; a new one has the given one.   *)
LEMMA OwnersStay ==
  ASSUME TypeInv, sessions <= MaxSessions, NEW a \in Nat,
         Drawn(a) \/ UNCHANGED <<sessions, owner>>
  PROVE  /\ sessions' <= MaxSessions
         /\ \A s, b : Owned(s, b) => s.id \in 1 .. sessions' /\ owner'[s.id] = b
         /\ Drawn(a) => Fresh.id \in 1 .. sessions' /\ owner'[Fresh.id] = a
<1>1. CASE UNCHANGED <<sessions, owner>> /\ ~Drawn(a)
  BY <1>1 DEF Owned
<1>2. CASE Drawn(a)
  <2>1. sessions' = sessions + 1 /\ sessions' <= MaxSessions
    BY <1>2, BoundsAssumption DEF Drawn, TypeInv
  <2>2. owner' = [owner EXCEPT ![sessions + 1] = a]
    BY <1>2, <2>1 DEF Drawn
  <2>3. ASSUME NEW s, NEW b, Owned(s, b) PROVE s.id \in 1 .. sessions' /\ owner'[s.id] = b
    <3>1. s.id \in 1 .. sessions /\ owner[s.id] = b
      BY <2>3 DEF Owned
    <3> QED BY <2>1, <2>2, <3>1, BoundsAssumption DEF TypeInv
  <2>4. Fresh.id \in 1 .. sessions' /\ owner'[Fresh.id] = a
    BY <2>1, <2>2, BoundsAssumption DEF TypeInv, Fresh
  <2> QED BY <2>1, <2>3, <2>4
<1> QED BY <1>1, <1>2

(* refresh() in an open tab, or at boot, leaves a session of the same id.  *)
LEMMA RefreshedOwned ==
  ASSUME TypeInv, sessions <= MaxSessions, NEW t \in Tabs, NEW a \in Nat,
         stored.session # NoSession => Owned(stored.session, a),
         stored.session = NoSession => session[t] = NoSession,
         IF Rotates(t) THEN Drawn(a) ELSE UNCHANGED <<sessions, owner>>
  PROVE  /\ sessions' <= MaxSessions
         /\ \A s, b : Owned(s, b) => s.id \in 1 .. sessions' /\ owner'[s.id] = b
         /\ Refreshed(t).id \in 1 .. sessions' /\ owner'[Refreshed(t).id] = a
         /\ Refreshed(t) # NoSession
<1>1. /\ sessions' <= MaxSessions
      /\ \A s, b : Owned(s, b) => s.id \in 1 .. sessions' /\ owner'[s.id] = b
      /\ Drawn(a) => Fresh.id \in 1 .. sessions' /\ owner'[Fresh.id] = a
  BY OwnersStay
<1>2. Refreshed(t).id \in 1 .. sessions' /\ owner'[Refreshed(t).id] = a
  <2>1. CASE Rotates(t)
    BY <1>1, <2>1 DEF Refreshed
  <2>2. CASE ~Rotates(t)
    <3>1. Refreshed(t) = stored.session /\ stored.session # NoSession
      BY <2>2 DEF Refreshed, Rotates, Read
    <3> QED BY <1>1, <3>1
  <2> QED BY <2>1, <2>2
<1>3. NoSession.id = 0
  BY DEF NoSession
<1>4. 0 \notin 1 .. sessions'
  BY <1>1, BoundsAssumption
<1> QED BY <1>1, <1>2, <1>3, <1>4

(* What a refresh of an open tab leaves.                                   *)
LEMMA RefreshOwner ==
  ASSUME TypeInv, OwnerInv, ~cleared, ~crossReset, NEW t \in Tabs, Up(t), Refresh(t),
         \A s \in Tabs : Up(s)' <=> Up(s), UNCHANGED identity
  PROVE  OwnerInv'
<1> DEFINE a == stored.identity.anon
<1>0. a \in Nat /\ identity[t].anon = a /\ sessions <= MaxSessions
  BY DEF OwnerInv, TypeInv, Identity
<1>1. /\ session' = [session EXCEPT ![t] = Refreshed(t)]
      /\ stored' = [session |-> Refreshed(t), identity |-> stored.identity]
  BY RefreshType
<1>2. IF Rotates(t) THEN Drawn(a) ELSE UNCHANGED <<sessions, owner>>
  BY <1>0 DEF Refresh
<1>3. /\ sessions' <= MaxSessions
      /\ \A s, b : Owned(s, b) => s.id \in 1 .. sessions' /\ owner'[s.id] = b
      /\ Refreshed(t).id \in 1 .. sessions' /\ owner'[Refreshed(t).id] = a
      /\ Refreshed(t) # NoSession
  <2>1. /\ stored.session # NoSession => Owned(stored.session, a)
        /\ stored.session = NoSession => session[t] = NoSession
    BY DEF OwnerInv
  <2> HIDE DEF a
  <2> QED BY <1>0, <1>2, <2>1, RefreshedOwned
<1>4. stored.identity # NoIdentity /\ (stored.identity # NoIdentity => a # 0)
  BY DEF OwnerInv
<1>5. \A s \in Tabs : Up(s) =>
        identity[s].anon = a /\ session'[s].id \in 1 .. sessions' /\ owner'[session'[s].id] = a
  <2>1. ASSUME NEW s \in Tabs, Up(s), s # t
        PROVE  identity[s].anon = a /\ session'[s].id \in 1 .. sessions'
               /\ owner'[session'[s].id] = a
    BY <1>1, <1>3, <2>1 DEF OwnerInv, TypeInv
  <2>2. session'[t] = Refreshed(t)
    BY <1>1 DEF TypeInv
  <2> QED BY <1>0, <1>3, <2>1, <2>2
<1>6. stored'.identity = stored.identity /\ stored'.session = Refreshed(t)
  BY <1>1
<1> QED BY <1>3, <1>4, <1>5, <1>6 DEF OwnerInv, Owned

(* The constructors take the stored identity and session, or, when there   *)
(* is neither, draw both.                                                  *)
LEMMA BootOwner ==
  ASSUME TypeInv, OwnerInv, ~cleared, ~crossReset, NEW t \in Tabs, Boot(t)
  PROVE  OwnerInv'
<1> DEFINE a == Constructed.anon
<1>1. /\ Constructed \in Identity
      /\ stage' = [stage EXCEPT ![t] = "boot"]
      /\ identity' = [identity EXCEPT ![t] = Constructed]
      /\ session' = [session EXCEPT ![t] = Refreshed(t)]
      /\ stored' = [session |-> Refreshed(t), identity |-> Constructed]
  BY BootFacts
<1>2. a \in Nat /\ sessions <= MaxSessions
  BY <1>1 DEF OwnerInv, Identity
<1>3. a # 0 /\ (stored.identity # NoIdentity => a = stored.identity.anon)
  BY DEF Constructed, Anonymous, OwnerInv, TypeInv
<1>4. /\ stored.session # NoSession => Owned(stored.session, a)
      /\ stored.session = NoSession => session[t] = NoSession
      /\ IF Rotates(t) THEN Drawn(a) ELSE UNCHANGED <<sessions, owner>>
  BY <1>3 DEF OwnerInv, Boot
<1> HIDE DEF a
<1>5. /\ sessions' <= MaxSessions
      /\ \A s, b : Owned(s, b) => s.id \in 1 .. sessions' /\ owner'[s.id] = b
      /\ Refreshed(t).id \in 1 .. sessions' /\ owner'[Refreshed(t).id] = a
      /\ Refreshed(t) # NoSession
  BY <1>2, <1>4, RefreshedOwned
<1>6. ASSUME NEW s \in Tabs, Up(s)'
      PROVE  identity'[s].anon = a /\ session'[s].id \in 1 .. sessions' /\ owner'[session'[s].id] = a
  <2>1. CASE s = t
    <3>1. identity'[s] = Constructed /\ session'[s] = Refreshed(t)
      BY <1>1, <2>1 DEF TypeInv
    <3> QED BY <1>5, <3>1 DEF a
  <2>2. CASE s # t
    <3>1. Up(s) /\ identity'[s] = identity[s] /\ session'[s] = session[s]
      BY <1>1, <1>6, <2>2 DEF Up, TypeInv
    <3>2. identity[s].anon = stored.identity.anon /\ Owned(session[s], stored.identity.anon)
          /\ stored.identity # NoIdentity
      BY <3>1 DEF OwnerInv
    <3> QED BY <1>3, <1>5, <3>1, <3>2
  <2> QED BY <2>1, <2>2
<1>7. stored'.identity = Constructed /\ stored'.session = Refreshed(t) /\ Constructed # NoIdentity
  BY <1>1, <1>3 DEF NoIdentity, a
<1> QED BY <1>3, <1>5, <1>6, <1>7 DEF OwnerInv, Owned, a

(* A reset() that ends with no other tab open leaves only closed tabs with *)
(* sessions of the old owner.                                              *)
LEMMA ResetOwner ==
  ASSUME TypeInv, OwnerInv, ~cleared, ~crossReset, ResetDraws, ~crossReset'
  PROVE  OwnerInv'
<1>1. PICK c \in calls :
        /\ c.tab \in Tabs
        /\ anons' = anons + 1
        /\ identity' = [identity EXCEPT ![c.tab] = Anonymous(anons')]
        /\ Drawn(anons')
        /\ session' = [session EXCEPT ![c.tab] = Fresh]
        /\ stored' = [session |-> Fresh, identity |-> Anonymous(anons')]
        /\ crossReset' = (crossReset \/ \E t \in Tabs \ {c.tab} : Up(t))
        /\ stage' = stage
  BY ResetFacts
<1>2. anons' \in Nat /\ anons' # 0 /\ sessions <= MaxSessions
  BY <1>1 DEF TypeInv, OwnerInv
<1>3. /\ sessions' <= MaxSessions
      /\ Fresh.id \in 1 .. sessions' /\ owner'[Fresh.id] = anons'
  BY <1>1, <1>2, OwnersStay
<1>4. ASSUME NEW s \in Tabs, Up(s)' PROVE s = c.tab
  BY <1>1, <1>4 DEF Up
<1>5. /\ identity'[c.tab] = Anonymous(anons') /\ Anonymous(anons').anon = anons'
      /\ session'[c.tab] = Fresh
      /\ stored'.session = Fresh /\ stored'.identity = Anonymous(anons')
  BY <1>1 DEF TypeInv, Anonymous
<1>6. Fresh # NoSession /\ Anonymous(anons') # NoIdentity
  BY <1>2, <1>3 DEF Fresh, NoSession, Anonymous, NoIdentity, TypeInv
<1> QED BY <1>2, <1>3, <1>4, <1>5, <1>6 DEF OwnerInv, Owned

LEMMA NextOwner == ASSUME TypeInv, OwnerInv, [Next]_vars PROVE OwnerInv'
<1>1. (cleared => cleared') /\ (crossReset => crossReset')
  <2>1. ASSUME NEW t \in Tabs,
               \/ Boot(t) \/ SetUp(t) \/ Ready(t) \/ Hide(t) \/ Show(t) \/ Leave(t)
               \/ Touch(t) \/ Reset(t) \/ \E u \in Users : Identify(t, u)
        PROVE  UNCHANGED <<cleared, crossReset>>
    BY <2>1 DEF Boot, SetUp, Ready, Hide, Show, Leave, Touch, Identify, Reset, history
  <2>2. CASE AliasQueued \/ ResetEnds \/ Tick \/ UNCHANGED vars
    BY <2>2 DEF AliasQueued, ResetEnds, Tick, vars, history
  <2>3. CASE ResetDraws
    <3>1. UNCHANGED cleared
      BY <2>3 DEF ResetDraws
    <3>2. crossReset => crossReset'
      BY <2>3 DEF ResetDraws
    <3> QED BY <3>1, <3>2
  <2>4. CASE Clear
    BY <2>4 DEF Clear
  <2> QED BY <2>1, <2>2, <2>3, <2>4 DEF Next
<1>2. CASE cleared \/ crossReset
  BY <1>1, <1>2 DEF OwnerInv
<1>3. CASE ~cleared /\ ~crossReset
  <2> USE <1>3
  <2>1. ASSUME NEW t \in Tabs, Boot(t) PROVE OwnerInv'
    BY <2>1, BootOwner
  <2>2. ASSUME NEW t \in Tabs, SetUp(t) PROVE OwnerInv'
    <3>1. \A s \in Tabs : Up(s)' => Up(s)
      BY <2>2 DEF SetUp, Up, TypeInv
    <3>2. \A s \in Tabs : ~Up(s) => ~Up(s)'
      BY <2>2 DEF SetUp, Up, TypeInv
    <3> QED BY <2>2, <3>1, <3>2 DEF SetUp, history, OwnerInv, Owned
  <2>3. ASSUME NEW t \in Tabs, Ready(t) PROVE OwnerInv'
    <3>1. Up(t) /\ \A s \in Tabs : Up(s)' <=> Up(s)
      BY <2>3 DEF Ready, Up, TypeInv
    <3> QED BY <2>3, <3>1, RefreshOwner DEF Ready
  <2>4. ASSUME NEW t \in Tabs, Hide(t) PROVE OwnerInv'
    <3>1. UNCHANGED <<stage, identity, sessions, owner>> /\ Up(t)
      BY <2>4 DEF Hide
    <3>2. CASE Listening(t)
      <4> DEFINE s == [session[t] EXCEPT !.bg = now]
                 a == stored.identity.anon
      <4>1. session' = [session EXCEPT ![t] = s] /\ s.id = session[t].id
            /\ stored' = [stored EXCEPT !.session = s]
        BY <2>4, <3>2 DEF Hide, Saved, TypeInv, Session
      <4> HIDE DEF s
      <4>2. stored'.identity = stored.identity /\ stored'.session = s /\ session'[t] = s
        BY <4>1 DEF TypeInv
      <4>3. Owned(session[t], a) /\ stored.identity # NoIdentity /\ sessions <= MaxSessions
        BY <3>1 DEF OwnerInv
      <4>4. Owned(s, a) /\ s # NoSession
        BY <4>1, <4>3 DEF Owned, NoSession
      <4>5. \A r \in Tabs : Up(r) => identity[r].anon = a /\ Owned(session'[r], a)
        BY <4>1, <4>2, <4>4 DEF OwnerInv, TypeInv
      <4>6. a # 0
        BY <4>3 DEF OwnerInv
      <4> QED BY <3>1, <4>2, <4>3, <4>4, <4>5, <4>6 DEF OwnerInv, Owned, Up
    <3>3. CASE ~Listening(t)
      BY <2>4, <3>1, <3>3 DEF Hide, OwnerInv, Owned, Up
    <3> QED BY <3>2, <3>3
  <2>5. ASSUME NEW t \in Tabs, Show(t) PROVE OwnerInv'
    <3>1. Up(t) /\ UNCHANGED <<stage, identity, cleared, crossReset>>
      BY <2>5 DEF Show
    <3>2. CASE Listening(t)
      BY <2>5, <3>1, <3>2, RefreshOwner DEF Show, Up
    <3>3. CASE ~Listening(t)
      BY <2>5, <3>1, <3>3 DEF Show, OwnerInv, Owned, Up
    <3> QED BY <3>2, <3>3
  <2>6. ASSUME NEW t \in Tabs, Leave(t) PROVE OwnerInv'
    <3>1. UNCHANGED <<stored, sessions, owner>>
      BY <2>6 DEF Leave
    <3>2. ASSUME NEW s \in Tabs
          PROVE  /\ session'[s] = session[s] \/ session'[s] = NoSession
                 /\ Up(s)' => Up(s) /\ session'[s] = session[s] /\ identity'[s] = identity[s]
      BY <2>6 DEF Leave, Up, TypeInv
    <3> QED BY <3>1, <3>2 DEF OwnerInv, Owned
  <2>7. ASSUME NEW t \in Tabs, Touch(t) PROVE OwnerInv'
    BY <2>7, RefreshOwner DEF Touch, Up
  <2>8. ASSUME NEW t \in Tabs, NEW u \in Users, Identify(t, u) PROVE OwnerInv'
    <3> DEFINE j == [anon |-> identity[t].anon, distinct |-> u]
    <3>1. /\ identity' = [identity EXCEPT ![t] = j]
          /\ stored' = [session |-> stored.session, identity |-> j]
          /\ UNCHANGED <<stage, session, sessions, owner>>
          /\ j.anon = identity[t].anon
      BY <2>8, IdentifyFacts DEF Identify
    <3> HIDE DEF j
    <3>2. Up(t)
      BY <2>8 DEF Identify
    <3>3. j.anon = stored.identity.anon /\ stored.identity # NoIdentity
      BY <3>1, <3>2 DEF OwnerInv
    <3>4. j.anon # 0
      BY <3>3 DEF OwnerInv
    <3>5. j # NoIdentity
      BY <3>4 DEF NoIdentity
    <3>6. stored'.session = stored.session /\ stored'.identity = j
      BY <3>1
    <3>7. \A s \in Tabs : identity'[s].anon = identity[s].anon
      BY <3>1 DEF TypeInv
    <3> QED BY <3>1, <3>2, <3>3, <3>4, <3>5, <3>6, <3>7 DEF OwnerInv, Owned, Up
  <2>9. CASE \/ \E t \in Tabs : Reset(t)
             \/ AliasQueued \/ ResetEnds \/ Tick \/ UNCHANGED vars
    <3>1. UNCHANGED <<stage, session, identity, stored, sessions, owner>>
      BY <2>9 DEF Reset, AliasQueued, ResetEnds, Tick, vars, tabState, history
    <3> QED BY <3>1 DEF OwnerInv, Owned, Up
  <2>10. CASE ResetDraws
    <3>1. CASE crossReset'
      BY <3>1 DEF OwnerInv
    <3>2. CASE ~crossReset'
      BY <2>10, <3>2, ResetOwner
    <3> QED BY <3>1, <3>2
  <2>11. CASE Clear
    BY <2>11 DEF Clear, OwnerInv
  <2> QED BY <2>1, <2>2, <2>3, <2>4, <2>5, <2>6, <2>7, <2>8, <2>9, <2>10, <2>11 DEF Next
<1> QED BY <1>2, <1>3

(* Whatever a tab tracks goes to a session of its own anonymous id, unless *)
(* localStorage was cleared or a reset() ended beside another open tab.    *)
THEOREM SessionsHaveOneOwner == Spec => []OneOwner
<1>1. Init => TypeInv /\ OwnerInv
  <2>1. Init => OwnerInv
    BY BoundsAssumption DEF Init, OwnerInv, Up
  <2> QED BY <2>1, InitType
<1>2. TypeInv /\ OwnerInv /\ [Next]_vars => TypeInv' /\ OwnerInv'
  BY NextType, NextOwner
<1>3. OwnerInv => OneOwner
  BY DEF OwnerInv, OneOwner, Owned
<1> QED BY <1>1, <1>2, <1>3, PTL DEF Spec

-----------------------------------------------------------------------------
(* The timeout.  Each copy of a session carries a lastBackgroundAt from    *)
(* when it was in the foreground, so that a copy that has not expired was  *)
(* seen within the timeout. One that carries none is on the screen of some *)
(* tab, or was never seen.                                                 *)
Visible(t) == Up(t) /\ t \notin hidden
SoundIn(s, n, seen) == s = NoSession \/ (s.id \in 1 .. n /\ s.bg <= seen[s.id])
Sound(s) == SoundIn(s, sessions, visibleAt)

ClockInv ==
  /\ now > 0 /\ sessions <= MaxSessions
  /\ visibleAt \in [1 .. MaxSessions -> Nat]
  /\ \A s \in 1 .. MaxSessions : visibleAt[s] <= now /\ (s > sessions => visibleAt[s] = 0)

CopyInv ==
  /\ Sound(stored.session)
  /\ \A t \in Tabs : Sound(session[t])
  /\ \A t \in Tabs : Up(t) => session[t] # NoSession
  /\ ~cleared /\ stored.session = NoSession => \A t \in Tabs : session[t] = NoSession

ScreenInv ==
  /\ \A t \in Tabs : Visible(t) => visibleAt[session[t].id] = now
  /\ \A t \in Tabs : t \in hidden /\ stage[t] \in {"boot", "setup"} => unseen
  /\ \A c \in calls : Up(c.tab)

Marked ==
  \/ unseen \/ cleared \/ stored.session = NoSession \/ stored.session.bg > 0
  \/ visibleAt[stored.session.id] = 0
  \/ \E t \in Tabs : Visible(t) /\ session[t].id = stored.session.id

SeenInv == TypeInv /\ ClockInv /\ CopyInv /\ ScreenInv /\ Marked

LEMMA InitSeen == Init => SeenInv
<1> SUFFICES ASSUME Init PROVE SeenInv
  OBVIOUS
<1>1. ClockInv
  BY BoundsAssumption DEF Init, ClockInv
<1>2. CopyInv /\ ScreenInv /\ Marked
  BY DEF Init, CopyInv, ScreenInv, Marked, Sound, SoundIn, Up, Visible
<1> QED BY <1>1, <1>2, InitType DEF SeenInv

(* Seeing a session, or drawing one, leaves every copy sound.              *)
LEMMA SoundGrows ==
  ASSUME ClockInv, TypeInv, NEW s, NEW n \in Nat, n >= sessions,
         NEW seen \in [1 .. MaxSessions -> Nat],
         \A i \in 1 .. MaxSessions : seen[i] >= visibleAt[i],
         s \in Session, Sound(s)
  PROVE  SoundIn(s, n, seen)
<1>1. CASE s # NoSession
  <2>1. s.id \in 1 .. sessions /\ s.bg <= visibleAt[s.id] /\ s.bg \in Nat
    BY <1>1 DEF Sound, SoundIn, Session
  <2>2. s.id \in 1 .. MaxSessions /\ s.id \in 1 .. n
    BY <2>1, BoundsAssumption DEF ClockInv, TypeInv
  <2>3. seen[s.id] >= visibleAt[s.id] /\ seen[s.id] \in Nat /\ visibleAt[s.id] \in Nat
    BY <2>2 DEF ClockInv
  <2>4. s.bg <= seen[s.id]
    BY <2>1, <2>3
  <2> QED BY <2>2, <2>4 DEF SoundIn
<1>2. CASE s = NoSession
  BY <1>2 DEF SoundIn
<1> QED BY <1>1, <1>2

(* The clock, and the times a session was seen, when tab t takes up the    *)
(* session r: a fresh one, or one there is a copy of.                      *)
LEMMA TakesUpClock ==
  ASSUME TypeInv, ClockInv, NEW t, NEW r \in Session,
         \/ r = Fresh /\ sessions < MaxSessions /\ sessions' = sessions + 1
         \/ r # NoSession /\ Sound(r) /\ sessions' = sessions,
         visibleAt' = [visibleAt EXCEPT ![r.id] = IF t \notin hidden' THEN now ELSE @],
         UNCHANGED now
  PROVE  /\ ClockInv' /\ sessions' \in Nat /\ sessions' >= sessions
         /\ r.id \in 1 .. sessions' /\ r.id \in 1 .. MaxSessions
         /\ \A i \in 1 .. MaxSessions : visibleAt'[i] >= visibleAt[i]
         /\ t \notin hidden' => visibleAt'[r.id] = now
         /\ t \in hidden' => visibleAt' = visibleAt
         /\ SoundIn(r, sessions', visibleAt')
         /\ \A i \in 1 .. MaxSessions : visibleAt[i] = now => visibleAt'[i] = now
<1>1. sessions \in Nat /\ now \in Nat /\ MaxSessions \in Nat
  BY BoundsAssumption DEF TypeInv
<1>2. /\ sessions' \in Nat /\ sessions' >= sessions /\ sessions' <= MaxSessions
      /\ r.id \in 1 .. sessions'
      /\ r.bg = 0 \/ r.bg <= visibleAt[r.id]
  BY <1>1 DEF ClockInv, Sound, SoundIn, Fresh, NoSession
<1>3. r.id \in 1 .. MaxSessions
  BY <1>1, <1>2
<1>4. /\ t \notin hidden' => visibleAt'[r.id] = now
      /\ t \in hidden' => visibleAt' = visibleAt
      /\ \A i \in 1 .. MaxSessions : i # r.id => visibleAt'[i] = visibleAt[i]
      /\ visibleAt' \in [1 .. MaxSessions -> Nat]
  BY <1>1, <1>3 DEF ClockInv
<1>5. \A i \in 1 .. MaxSessions : /\ visibleAt'[i] >= visibleAt[i] /\ visibleAt'[i] <= now
                                  /\ visibleAt[i] = now => visibleAt'[i] = now
  BY <1>1, <1>3, <1>4 DEF ClockInv
<1>6. \A i \in 1 .. MaxSessions : i > sessions' => visibleAt'[i] = 0
  BY <1>1, <1>2, <1>3, <1>4 DEF ClockInv
<1>7. ClockInv'
  BY <1>2, <1>4, <1>5, <1>6 DEF ClockInv
<1>8. SoundIn(r, sessions', visibleAt')
  <2>1. r.bg \in Nat /\ visibleAt[r.id] \in Nat /\ visibleAt'[r.id] \in Nat
    BY <1>3, <1>4 DEF Session, ClockInv
  <2>2. r.bg <= visibleAt'[r.id]
    BY <1>2, <1>3, <1>5, <2>1
  <2> QED BY <1>2, <2>2 DEF SoundIn
<1> QED BY <1>2, <1>3, <1>4, <1>5, <1>7, <1>8

LEMMA TakesUp ==
  ASSUME SeenInv, NEW t \in Tabs, NEW r \in Session,
         \/ r = Fresh /\ sessions < MaxSessions /\ sessions' = sessions + 1
         \/ r = Read(t) /\ r # NoSession /\ sessions' = sessions,
         session' = [session EXCEPT ![t] = r], stored'.session = r,
         visibleAt' = [visibleAt EXCEPT ![r.id] = IF t \notin hidden' THEN now ELSE @],
         hidden' \subseteq hidden, hidden \ hidden' \subseteq {t},
         stage' \in [Tabs -> Stages], \A s \in Tabs : s # t => stage'[s] = stage[s],
         stage'[t] # "down",
         t \in hidden' => Up(t) /\ (stage'[t] \in {"boot", "setup"} => stage[t] \in {"boot", "setup"}),
         \A c \in calls' : c.tab \in Tabs /\ Up(c.tab),
         UNCHANGED <<now, unseen, cleared>>
  PROVE  ClockInv' /\ CopyInv' /\ ScreenInv' /\ Marked'
<1> USE DEF SeenInv
<1>1. \A s \in Tabs : session[s] \in Session /\ Sound(session[s])
  BY DEF TypeInv, CopyInv
<1>2. Sound(Read(t))
  BY <1>1 DEF CopyInv, Read
<1>3. /\ ClockInv' /\ sessions' \in Nat /\ sessions' >= sessions
      /\ r.id \in 1 .. sessions' /\ r.id \in 1 .. MaxSessions
      /\ \A i \in 1 .. MaxSessions : visibleAt'[i] >= visibleAt[i]
      /\ t \notin hidden' => visibleAt'[r.id] = now
      /\ t \in hidden' => visibleAt' = visibleAt
      /\ SoundIn(r, sessions', visibleAt')
      /\ \A i \in 1 .. MaxSessions : visibleAt[i] = now => visibleAt'[i] = now
  BY <1>2, TakesUpClock
<1>4. visibleAt' \in [1 .. MaxSessions -> Nat]
  BY <1>3 DEF ClockInv
<1>5. session'[t] = r /\ \A s \in Tabs : s # t => session'[s] = session[s]
  BY DEF TypeInv
<1>6. r.id # 0 /\ r # NoSession
  BY <1>3 DEF NoSession
<1>7. \A s \in Tabs : SoundIn(session'[s], sessions', visibleAt')
  <2>1. ASSUME NEW s \in Tabs, s # t PROVE SoundIn(session[s], sessions', visibleAt')
    BY <1>1, <1>3, <1>4, SoundGrows
  <2> QED BY <1>3, <1>5, <2>1
<1>8. \A s \in Tabs : s # t => (stage'[s] # "down" <=> Up(s))
  BY DEF Up
<1>9. CopyInv'
  <2>1. \A s \in Tabs : Up(s)' => session'[s] # NoSession
    BY <1>5, <1>6, <1>8 DEF CopyInv, Up
  <2>2. SoundIn(stored'.session, sessions', visibleAt') /\ stored'.session # NoSession
    BY <1>3, <1>6
  <2> QED BY <1>7, <2>1, <2>2 DEF CopyInv, Sound
<1>10. \A s \in Tabs : s # t /\ Visible(s)' => Visible(s)
  BY <1>8 DEF Visible, Up
<1>11. ASSUME NEW s \in Tabs, Visible(s)' PROVE visibleAt'[session'[s].id] = now
  <2>1. CASE s = t
    BY <1>3, <1>5, <1>11, <2>1 DEF Visible
  <2>2. CASE s # t
    <3>1. Visible(s) /\ visibleAt[session[s].id] = now /\ session[s] # NoSession
      BY <1>10, <1>11, <2>2 DEF ScreenInv, CopyInv, Visible
    <3>2. session[s].id \in 1 .. MaxSessions
      BY <1>1, <3>1, BoundsAssumption DEF Sound, SoundIn, ClockInv, TypeInv
    <3> QED BY <1>3, <1>5, <2>2, <3>1, <3>2
  <2> QED BY <2>1, <2>2
<1>12. \A s \in Tabs : s \in hidden' /\ stage'[s] \in {"boot", "setup"} => unseen'
  BY DEF ScreenInv, TypeInv, Stages
<1>13. \A c \in calls' : Up(c.tab)'
  BY <1>8 DEF ScreenInv, Up, TypeInv
<1>14. ScreenInv'
  BY <1>11, <1>12, <1>13 DEF ScreenInv
<1>15. CASE t \notin hidden'
  <2>1. Visible(t)' /\ session'[t].id = stored'.session.id
    BY <1>5, <1>15 DEF Visible, Up
  <2>2. Marked'
    BY <2>1 DEF Marked
  <2> QED BY <1>3, <1>9, <1>14, <2>2
<1>16. CASE t \in hidden' /\ r = Fresh
  <2>1. r.id = sessions + 1 /\ r.id > sessions
    BY <1>16 DEF Fresh, TypeInv
  <2>2. visibleAt'[r.id] = 0
    BY <1>3, <1>16, <2>1 DEF ClockInv
  <2>3. Marked'
    BY <2>2 DEF Marked
  <2> QED BY <1>3, <1>9, <1>14, <2>3
<1>17. CASE t \in hidden' /\ r = Read(t) /\ ~cleared
  <2>1. Up(t) /\ session[t] # NoSession
    BY <1>17 DEF CopyInv
  <2>2. stored.session # NoSession /\ r = stored.session
    BY <1>17, <2>1 DEF CopyInv, Read
  <2>3. visibleAt' = visibleAt /\ stored'.session = stored.session
    BY <1>3, <1>17, <2>2
  <2>4. \A s \in Tabs : Visible(s) => Visible(s)' /\ s # t
    BY <1>8, <1>17 DEF Visible, Up
  <2>5. \A s \in Tabs : Visible(s) => Visible(s)' /\ session'[s] = session[s]
    BY <1>5, <2>4
  <2>6. Marked'
    BY <2>3, <2>5 DEF Marked
  <2> QED BY <1>3, <1>9, <1>14, <2>6
<1>18. CASE cleared
  <2>1. Marked'
    BY <1>18 DEF Marked
  <2> QED BY <1>3, <1>9, <1>14, <2>1
<1> QED BY <1>15, <1>16, <1>17, <1>18

(* Nothing on the screen, in the copies or on the clock changes.           *)
LEMMA Quiet ==
  ASSUME SeenInv,
         UNCHANGED <<now, hidden, session, sessions, visibleAt, unseen>>,
         \/ stored'.session = stored.session /\ cleared' = cleared
         \/ stored'.session = NoSession /\ cleared',
         \A t \in Tabs : /\ Up(t)' <=> Up(t)
                         /\ stage'[t] \in {"boot", "setup"} => stage[t] \in {"boot", "setup"},
         \A c \in calls' : Up(c.tab)'
  PROVE  ClockInv' /\ CopyInv' /\ ScreenInv' /\ Marked'
<1> USE DEF SeenInv
<1>1. ClockInv'
  BY DEF ClockInv
<1>2. CopyInv'
  BY DEF CopyInv, Sound, SoundIn
<1>3. ScreenInv'
  BY DEF ScreenInv, Visible
<1>4. Marked'
  BY DEF Marked, Visible
<1> QED BY <1>1, <1>2, <1>3, <1>4

LEMMA BootSeen ==
  ASSUME SeenInv, NEW t \in Tabs, Boot(t)
  PROVE  ClockInv' /\ CopyInv' /\ ScreenInv' /\ Marked'
<1> USE DEF SeenInv
<1>1. /\ session' = [session EXCEPT ![t] = Refreshed(t)] /\ Refreshed(t) \in Session
      /\ stored'.session = Refreshed(t)
      /\ stage' = [stage EXCEPT ![t] = "boot"]
      /\ UNCHANGED <<now, calls, cleared>>
  BY BootFacts
<1>2. /\ hidden' = hidden \ {t} /\ UNCHANGED unseen
      /\ IF Rotates(t) THEN Drawn(Constructed.anon) ELSE UNCHANGED sessions
      /\ visibleAt' = [visibleAt EXCEPT ![session'[t].id] = now]
  BY DEF Boot
<1>3. session'[t] = Refreshed(t)
  BY <1>1 DEF TypeInv
<1>4. \/ Refreshed(t) = Fresh /\ sessions < MaxSessions /\ sessions' = sessions + 1
      \/ Refreshed(t) = Read(t) /\ Refreshed(t) # NoSession /\ sessions' = sessions
  BY <1>2 DEF Refreshed, Rotates, Drawn
<1>5. visibleAt' = [visibleAt EXCEPT ![Refreshed(t).id] = IF t \notin hidden' THEN now ELSE @]
  BY <1>2, <1>3
<1>6. /\ stage' \in [Tabs -> Stages] /\ stage'[t] = "boot"
      /\ \A s \in Tabs : s # t => stage'[s] = stage[s]
  BY <1>1 DEF TypeInv, Stages
<1>7. hidden' \subseteq hidden /\ hidden \ hidden' \subseteq {t} /\ t \notin hidden'
  BY <1>2
<1>8. \A c \in calls' : c.tab \in Tabs /\ Up(c.tab)
  BY <1>1 DEF ScreenInv, TypeInv
<1> QED BY <1>1, <1>2, <1>4, <1>5, <1>6, <1>7, <1>8, TakesUp

LEMMA RefreshTurns ==
  ASSUME NEW t, Refresh(t)
  PROVE  \/ Refreshed(t) = Fresh /\ sessions < MaxSessions /\ sessions' = sessions + 1
         \/ Refreshed(t) = Read(t) /\ Refreshed(t) # NoSession /\ sessions' = sessions
  BY DEF Refresh, Refreshed, Rotates, Drawn

LEMMA RefreshSeen ==
  ASSUME SeenInv, NEW t \in Tabs, Ready(t) \/ Touch(t) \/ (Show(t) /\ Listening(t))
  PROVE  ClockInv' /\ CopyInv' /\ ScreenInv' /\ Marked'
<1> USE DEF SeenInv
<1>1. Refresh(t)
  BY DEF Ready, Touch, Show
<1>2. UNCHANGED <<now, calls, unseen, cleared>>
  BY DEF Ready, Touch, Show
<1>3. /\ session' = [session EXCEPT ![t] = Refreshed(t)] /\ Refreshed(t) \in Session
      /\ stored'.session = Refreshed(t)
  BY <1>1, RefreshType, RefreshedType
<1>4. session'[t] = Refreshed(t)
  BY <1>3 DEF TypeInv
<1>5. visibleAt' = [visibleAt EXCEPT ![Refreshed(t).id] = IF t \notin hidden' THEN now ELSE @]
  <2>1. CASE Ready(t) \/ Touch(t)
    BY <1>4, <2>1 DEF Ready, Touch, Seen
  <2>2. CASE Show(t)
    BY <1>4, <2>2 DEF Show
  <2> QED BY <2>1, <2>2
<1>6. /\ hidden' \subseteq hidden /\ hidden \ hidden' \subseteq {t}
      /\ Up(t)
      /\ stage' = stage \/ stage' = [stage EXCEPT ![t] = "ready"]
  BY DEF Ready, Touch, Show, Up
<1>7. /\ stage' \in [Tabs -> Stages] /\ stage'[t] # "down"
      /\ \A s \in Tabs : s # t => stage'[s] = stage[s]
      /\ stage'[t] \in {"boot", "setup"} => stage[t] \in {"boot", "setup"}
  BY <1>6 DEF TypeInv, Stages, Up
<1>8. \/ Refreshed(t) = Fresh /\ sessions < MaxSessions /\ sessions' = sessions + 1
      \/ Refreshed(t) = Read(t) /\ Refreshed(t) # NoSession /\ sessions' = sessions
  BY <1>1, RefreshTurns
<1>9. \A c \in calls' : c.tab \in Tabs /\ Up(c.tab)
  BY <1>2 DEF ScreenInv, TypeInv
<1> QED BY <1>2, <1>3, <1>5, <1>6, <1>7, <1>8, <1>9, TakesUp

LEMMA ResetSeen ==
  ASSUME SeenInv, ResetDraws
  PROVE  ClockInv' /\ CopyInv' /\ ScreenInv' /\ Marked'
<1> USE DEF SeenInv
<1>1. PICK c \in calls : /\ Drawn(anons')
                         /\ Saved(c.tab, Fresh)
                         /\ stored' = [session |-> Fresh, identity |-> Anonymous(anons')]
                         /\ Seen(c.tab, Fresh.id)
                         /\ calls' = (calls \ {c}) \cup
                              {[call |-> "notify", tab |-> c.tab, alias |-> << >>, sid |-> Fresh.id]}
  BY DEF ResetDraws
<1>2. UNCHANGED <<now, stage, hidden, unseen, cleared>>
  BY DEF ResetDraws
<1>3. c.tab \in Tabs /\ Up(c.tab) /\ Fresh \in Session
  BY DEF TypeInv, ScreenInv, Fresh, Session
<1>4. /\ session' = [session EXCEPT ![c.tab] = Fresh] /\ stored'.session = Fresh
      /\ sessions < MaxSessions /\ sessions' = sessions + 1
      /\ visibleAt' = [visibleAt EXCEPT ![Fresh.id] = IF c.tab \notin hidden' THEN now ELSE @]
  BY <1>1, <1>2 DEF Saved, Seen, Drawn
<1>5. /\ stage' \in [Tabs -> Stages] /\ stage'[c.tab] # "down" /\ stage' = stage
      /\ hidden' = hidden /\ \A d \in calls' : d.tab \in Tabs /\ Up(d.tab)
  BY <1>1, <1>2, <1>3 DEF TypeInv, ScreenInv, Up
<1> QED BY <1>2, <1>3, <1>4, <1>5, TakesUp

(* Hidden, the tab's session is dated now; a tab with no handler yet goes  *)
(* unnoticed.                                                              *)
LEMMA HideSeen ==
  ASSUME SeenInv, NEW t \in Tabs, Hide(t)
  PROVE  ClockInv' /\ CopyInv' /\ ScreenInv' /\ Marked'
<1> USE DEF SeenInv
<1>1. /\ hidden' = hidden \cup {t} /\ Visible(t)
      /\ UNCHANGED <<now, stage, calls, sessions, visibleAt, cleared>>
  BY DEF Hide, Visible
<1>2. ClockInv'
  BY <1>1 DEF ClockInv
<1>3. \A s \in Tabs : Visible(s)' => Visible(s) /\ s # t
  BY <1>1 DEF Visible, Up
<1>4. CASE Listening(t)
  <2> DEFINE r == [session[t] EXCEPT !.bg = now]
  <2>1. session' = [session EXCEPT ![t] = r] /\ stored'.session = r /\ UNCHANGED unseen
    BY <1>4 DEF Hide, Saved, TypeInv
  <2>2. /\ session[t] \in Session /\ session[t] # NoSession /\ Sound(session[t])
        /\ visibleAt[session[t].id] = now /\ now \in Nat /\ now > 0
    BY <1>1 DEF TypeInv, CopyInv, ScreenInv, Visible, ClockInv
  <2>3. r.id = session[t].id /\ r.bg = now
    BY <2>2 DEF Session
  <2>4. r # NoSession /\ SoundIn(r, sessions, visibleAt)
    BY <2>2, <2>3 DEF NoSession, Sound, SoundIn
  <2> HIDE DEF r
  <2>5. session'[t] = r /\ \A s \in Tabs : s # t => session'[s] = session[s]
    BY <2>1 DEF TypeInv
  <2>6. CopyInv'
    <3>1. \A s \in Tabs : SoundIn(session'[s], sessions', visibleAt')
      BY <1>1, <2>4, <2>5 DEF CopyInv, Sound
    <3>2. \A s \in Tabs : Up(s)' => session'[s] # NoSession
      BY <1>1, <2>4, <2>5 DEF CopyInv, Up
    <3> QED BY <1>1, <2>1, <2>4, <3>1, <3>2 DEF CopyInv, Sound
  <2>7. ScreenInv'
    <3>1. \A s \in Tabs : Visible(s)' => visibleAt'[session'[s].id] = now'
      BY <1>1, <1>3, <2>5 DEF ScreenInv
    <3>2. \A s \in Tabs : s \in hidden' /\ stage'[s] \in {"boot", "setup"} => unseen'
      BY <1>1, <1>4, <2>1 DEF ScreenInv, Listening
    <3>3. \A c \in calls' : Up(c.tab)'
      BY <1>1 DEF ScreenInv, Up
    <3> QED BY <3>1, <3>2, <3>3 DEF ScreenInv
  <2>8. Marked'
    BY <2>1, <2>2, <2>3 DEF Marked
  <2> QED BY <1>2, <2>6, <2>7, <2>8
<1>5. CASE ~Listening(t)
  <2>1. unseen' /\ UNCHANGED <<session, stored>>
    BY <1>5 DEF Hide
  <2>2. CopyInv'
    BY <1>1, <2>1 DEF CopyInv, Sound, Up
  <2>3. ScreenInv'
    BY <1>1, <1>3, <2>1 DEF ScreenInv, Up
  <2>4. Marked'
    BY <2>1 DEF Marked
  <2> QED BY <1>2, <2>2, <2>3, <2>4
<1> QED BY <1>4, <1>5

(* A tab that comes back before its handler was installed had gone         *)
(* unnoticed.                                                              *)
LEMMA UnheardSeen ==
  ASSUME SeenInv, NEW t \in Tabs, Show(t), ~Listening(t)
  PROVE  unseen /\ ClockInv' /\ CopyInv' /\ ScreenInv' /\ Marked'
<1> USE DEF SeenInv
<1>1. /\ hidden' = hidden \ {t} /\ Up(t) /\ t \in hidden
      /\ visibleAt' = [visibleAt EXCEPT ![session[t].id] = now]
      /\ UNCHANGED <<now, stage, session, stored, calls, sessions, unseen, cleared>>
  BY DEF Show
<1>2. unseen
  BY <1>1 DEF ScreenInv, TypeInv, Stages, Up, Listening
<1>3. session[t] \in Session /\ Sound(session[t]) /\ session[t] # NoSession
  BY <1>1 DEF TypeInv, CopyInv
<1>4. visibleAt' = [visibleAt EXCEPT ![session[t].id] = IF t \notin hidden' THEN now ELSE @]
  BY <1>1
<1>5. /\ ClockInv' /\ session[t].id \in 1 .. MaxSessions
      /\ \A i \in 1 .. MaxSessions : visibleAt'[i] >= visibleAt[i]
      /\ t \notin hidden' => visibleAt'[session[t].id] = now
      /\ \A i \in 1 .. MaxSessions : visibleAt[i] = now => visibleAt'[i] = now
  BY <1>1, <1>3, <1>4, TakesUpClock
<1>6. visibleAt' \in [1 .. MaxSessions -> Nat] /\ sessions \in Nat /\ sessions >= sessions
  BY <1>5 DEF ClockInv, TypeInv
<1>7. \A s \in Session : Sound(s) => SoundIn(s, sessions, visibleAt')
  BY <1>5, <1>6, SoundGrows
<1>8. CopyInv'
  <2>1. stored.session \in Session /\ \A s \in Tabs : session[s] \in Session
    BY DEF TypeInv
  <2> QED BY <1>1, <1>7, <2>1 DEF CopyInv, Sound, Up
<1>9. ASSUME NEW s \in Tabs, Visible(s)' PROVE visibleAt'[session'[s].id] = now'
  <2>1. CASE s = t
    BY <1>1, <1>5, <2>1
  <2>2. CASE s # t
    <3>1. Visible(s) /\ visibleAt[session[s].id] = now /\ session[s] # NoSession
      BY <1>1, <1>9, <2>2 DEF ScreenInv, CopyInv, Visible, Up
    <3>2. session[s].id \in 1 .. MaxSessions
      BY <3>1, BoundsAssumption DEF CopyInv, Sound, SoundIn, ClockInv, TypeInv
    <3> QED BY <1>1, <1>5, <3>1, <3>2
  <2> QED BY <2>1, <2>2
<1>10. ScreenInv'
  BY <1>1, <1>2, <1>9 DEF ScreenInv, Up
<1>11. Marked'
  BY <1>1, <1>2 DEF Marked
<1> QED BY <1>2, <1>5, <1>8, <1>10, <1>11

LEMMA LeaveSeen ==
  ASSUME SeenInv, NEW t \in Tabs, Leave(t)
  PROVE  ClockInv' /\ CopyInv' /\ ScreenInv' /\ Marked'
<1> USE DEF SeenInv
<1>1. /\ stage' = [stage EXCEPT ![t] = "down"] /\ hidden' = hidden \ {t}
      /\ unseen' = (unseen \/ t \notin hidden)
      /\ session' = session \/ session' = [session EXCEPT ![t] = NoSession]
      /\ calls' = {c \in calls : c.tab # t}
      /\ UNCHANGED <<now, stored, sessions, visibleAt, cleared>>
  BY DEF Leave
<1>2. /\ stage'[t] = "down" /\ \A s \in Tabs : s # t => stage'[s] = stage[s]
      /\ \A s \in Tabs : s # t => session'[s] = session[s]
      /\ session'[t] = session[t] \/ session'[t] = NoSession
  BY <1>1 DEF TypeInv
<1>3. ClockInv'
  BY <1>1 DEF ClockInv
<1>4. CopyInv'
  <2>1. \A s \in Tabs : session'[s] = session[s] \/ session'[s] = NoSession
    BY <1>2
  <2>2. \A s \in Tabs : SoundIn(session'[s], sessions, visibleAt)
    BY <2>1 DEF CopyInv, Sound, SoundIn
  <2>3. \A s \in Tabs : Up(s)' => Up(s) /\ s # t
    BY <1>2 DEF Up
  <2>4. \A s \in Tabs : Up(s)' => session'[s] # NoSession
    BY <1>2, <2>3 DEF CopyInv
  <2> QED BY <1>1, <2>1, <2>2, <2>4 DEF CopyInv, Sound
<1>5. \A s \in Tabs : Visible(s)' => Visible(s) /\ s # t
  BY <1>1, <1>2 DEF Visible, Up
<1>6. ScreenInv'
  <2>1. \A s \in Tabs : Visible(s)' => visibleAt'[session'[s].id] = now'
    BY <1>1, <1>2, <1>5 DEF ScreenInv
  <2>2. \A s \in Tabs : s \in hidden' /\ stage'[s] \in {"boot", "setup"} => unseen'
    BY <1>1, <1>2 DEF ScreenInv
  <2>3. \A c \in calls' : Up(c.tab)'
    BY <1>1, <1>2 DEF ScreenInv, Up, TypeInv
  <2> QED BY <2>1, <2>2, <2>3 DEF ScreenInv
<1>7. Marked'
  <2>1. CASE t \notin hidden
    BY <1>1, <2>1 DEF Marked
  <2>2. CASE t \in hidden
    <3>1. \A s \in Tabs : Visible(s) => Visible(s)' /\ session'[s] = session[s]
      BY <1>1, <1>2, <2>2 DEF Visible, Up
    <3>2. unseen => unseen'
      BY <1>1
    <3> QED BY <1>1, <3>1, <3>2 DEF Marked
  <2> QED BY <2>1, <2>2
<1> QED BY <1>3, <1>4, <1>6, <1>7

LEMMA TickSeen ==
  ASSUME SeenInv, Tick
  PROVE  ClockInv' /\ CopyInv' /\ ScreenInv' /\ Marked'
<1> USE DEF SeenInv
<1>1. /\ now' = now + 1
      /\ visibleAt' = [s \in 1 .. MaxSessions |->
                         IF \E t \in Tabs \ hidden : Up(t) /\ session[t].id = s
                         THEN now' ELSE visibleAt[s]]
      /\ UNCHANGED <<stage, hidden, session, stored, calls, sessions, unseen, cleared>>
  BY DEF Tick, tabState, ClockInv
<1>2. now \in Nat /\ MaxSessions \in Nat /\ sessions \in Nat
  BY BoundsAssumption DEF TypeInv
<1>3. ASSUME NEW s \in 1 .. MaxSessions
      PROVE  /\ visibleAt'[s] \in Nat /\ visibleAt'[s] <= now' /\ visibleAt'[s] >= visibleAt[s]
             /\ visibleAt'[s] = now' \/ visibleAt'[s] = visibleAt[s]
  <2>1. visibleAt[s] \in Nat /\ visibleAt[s] <= now
    BY DEF ClockInv
  <2>2. visibleAt'[s] = now' \/ visibleAt'[s] = visibleAt[s]
    BY <1>1
  <2> QED BY <1>1, <1>2, <2>1, <2>2
<1>4. ASSUME NEW t \in Tabs, Visible(t)
      PROVE  /\ session[t].id \in 1 .. sessions
             /\ visibleAt'[session[t].id] = now'
  <2>1. session[t].id \in 1 .. sessions
    BY <1>4 DEF CopyInv, Sound, SoundIn, Visible
  <2>2. session[t].id \in 1 .. MaxSessions
    BY <1>2, <2>1 DEF ClockInv
  <2> QED BY <1>1, <1>4, <2>1, <2>2 DEF Visible
<1>5. \A s \in 1 .. MaxSessions : s > sessions => visibleAt'[s] = 0
  <2>1. ASSUME NEW s \in 1 .. MaxSessions, s > sessions PROVE visibleAt'[s] = 0
    <3>1. ~\E t \in Tabs \ hidden : Up(t) /\ session[t].id = s
      BY <1>2, <1>4, <2>1 DEF Visible
    <3>2. visibleAt'[s] = visibleAt[s]
      BY <1>1, <3>1
    <3> QED BY <2>1, <3>2 DEF ClockInv
  <2> QED BY <2>1
<1>6. visibleAt' \in [1 .. MaxSessions -> Nat]
  BY <1>1, <1>3
<1>7. ClockInv'
  BY <1>1, <1>2, <1>3, <1>5, <1>6 DEF ClockInv
<1>8. CopyInv'
  <2>1. \A s \in Session : Sound(s) => SoundIn(s, sessions, visibleAt')
    <3>1. sessions >= sessions
      BY <1>2
    <3> QED BY <1>2, <1>3, <1>6, <3>1, SoundGrows
  <2>2. stored.session \in Session /\ \A s \in Tabs : session[s] \in Session
    BY DEF TypeInv
  <2> QED BY <1>1, <2>1, <2>2 DEF CopyInv, Sound, Up
<1>9. ScreenInv'
  BY <1>1, <1>4 DEF ScreenInv, Visible, Up
<1>10. Marked'
  <2>1. CASE \E t \in Tabs : Visible(t) /\ session[t].id = stored.session.id
    BY <1>1, <2>1 DEF Marked, Visible, Up
  <2>2. CASE ~\E t \in Tabs : Visible(t) /\ session[t].id = stored.session.id
    <3>1. CASE stored.session = NoSession
      BY <1>1, <3>1 DEF Marked
    <3>2. CASE stored.session # NoSession
      <4>1. stored.session.id \in 1 .. MaxSessions
        BY <1>2, <3>2 DEF CopyInv, Sound, SoundIn, ClockInv
      <4>2. visibleAt'[stored.session.id] = visibleAt[stored.session.id]
        BY <1>1, <2>2, <4>1 DEF Visible
      <4> QED BY <1>1, <2>2, <4>2 DEF Marked
    <3> QED BY <3>1, <3>2
  <2> QED BY <2>1, <2>2
<1> QED BY <1>7, <1>8, <1>9, <1>10

LEMMA NextSeen == ASSUME SeenInv, [Next]_vars PROVE SeenInv'
<1> USE DEF SeenInv
<1>1. TypeInv'
  BY NextType
<1>2. ASSUME NEW t \in Tabs, Show(t) PROVE ClockInv' /\ CopyInv' /\ ScreenInv' /\ Marked'
  BY <1>2, RefreshSeen, UnheardSeen
<1>3. ASSUME NEW t \in Tabs, SetUp(t) PROVE ClockInv' /\ CopyInv' /\ ScreenInv' /\ Marked'
  <2>1. /\ stage[t] = "boot" /\ stage' = [stage EXCEPT ![t] = "setup"]
        /\ UNCHANGED <<now, hidden, session, sessions, visibleAt, unseen, stored, cleared, calls>>
    BY <1>3 DEF SetUp, history
  <2>2. \A s \in Tabs : /\ Up(s)' <=> Up(s)
                        /\ stage'[s] \in {"boot", "setup"} => stage[s] \in {"boot", "setup"}
    BY <2>1 DEF Up, TypeInv
  <2>3. \A c \in calls' : Up(c.tab)'
    BY <2>1, <2>2 DEF ScreenInv, TypeInv
  <2> QED BY <2>1, <2>2, <2>3, Quiet
<1>4. ASSUME NEW t \in Tabs, NEW u \in Users, Identify(t, u)
      PROVE  ClockInv' /\ CopyInv' /\ ScreenInv' /\ Marked'
  <2>1. /\ Up(t) /\ UNCHANGED <<now, stage, hidden, session, sessions, visibleAt, unseen, cleared>>
        /\ stored'.session = stored.session
        /\ \A c \in calls' : c \in calls \/ c.tab = t
    BY <1>4, IdentifyFacts DEF Identify
  <2>2. \A c \in calls' : Up(c.tab)'
    BY <2>1 DEF ScreenInv, Up
  <2> QED BY <2>1, <2>2, Quiet DEF Up
<1>5. ASSUME NEW t \in Tabs, Reset(t) PROVE ClockInv' /\ CopyInv' /\ ScreenInv' /\ Marked'
  <2>1. /\ Up(t)
        /\ UNCHANGED <<now, stage, hidden, session, sessions, visibleAt, unseen, stored, cleared>>
        /\ \A c \in calls' : c \in calls \/ c.tab = t
    BY <1>5 DEF Reset, tabState, history
  <2>2. \A c \in calls' : Up(c.tab)'
    BY <2>1 DEF ScreenInv, Up
  <2> QED BY <2>1, <2>2, Quiet DEF Up
<1>6. ASSUME AliasQueued \/ ResetEnds \/ Clear \/ UNCHANGED vars
      PROVE  ClockInv' /\ CopyInv' /\ ScreenInv' /\ Marked'
  <2>1. /\ UNCHANGED <<now, stage, hidden, session, sessions, visibleAt, unseen>>
        /\ calls' \subseteq calls
        /\ \/ stored'.session = stored.session /\ cleared' = cleared
           \/ stored'.session = NoSession /\ cleared'
    <3>1. CASE ResetEnds
      BY <3>1, EndFacts
    <3> QED BY <1>6, <3>1 DEF AliasQueued, Clear, vars, tabState, history
  <2>2. \A c \in calls' : Up(c.tab)'
    BY <2>1 DEF ScreenInv, Up
  <2> QED BY <2>1, <2>2, Quiet DEF Up
<1>7. ASSUME NEW t \in Tabs, Boot(t) \/ Ready(t) \/ Hide(t) \/ Leave(t) \/ Touch(t)
      PROVE  ClockInv' /\ CopyInv' /\ ScreenInv' /\ Marked'
  BY <1>7, BootSeen, RefreshSeen, HideSeen, LeaveSeen
<1>8. ClockInv' /\ CopyInv' /\ ScreenInv' /\ Marked'
  <2>1. CASE \E t \in Tabs :
               \/ Boot(t) \/ SetUp(t) \/ Ready(t) \/ Hide(t) \/ Show(t) \/ Leave(t)
               \/ Touch(t) \/ Reset(t) \/ \E u \in Users : Identify(t, u)
    BY <1>2, <1>3, <1>4, <1>5, <1>7, <2>1
  <2>2. CASE AliasQueued \/ ResetDraws \/ ResetEnds \/ Tick \/ Clear \/ UNCHANGED vars
    <3>1. CASE ResetDraws \/ Tick
      BY <3>1, ResetSeen, TickSeen
    <3> QED BY <1>6, <2>2, <3>1
  <2> QED BY <2>1, <2>2 DEF Next
<1> QED BY <1>1, <1>8

(* What is resumed has not expired; that is, was seen within the timeout.  *)
LEMMA ResumedWasSeen ==
  ASSUME SeenInv, NEW t \in Tabs,
         Drawn(Constructed.anon) \/ Drawn(identity[t].anon) \/ ~Rotates(t),
         visibleAt[Refreshed(t).id] # 0
  PROVE  unseen \/ cleared \/ now - visibleAt[Refreshed(t).id] <= Timeout
<1> USE DEF SeenInv
<1>1. now \in Nat /\ Timeout \in Nat /\ MaxSessions \in Nat /\ sessions \in Nat
  BY BoundsAssumption DEF TypeInv
<1>2. CASE Rotates(t)
  <2>1. sessions < MaxSessions /\ Refreshed(t).id = sessions + 1
    BY <1>2 DEF Drawn, Refreshed, Fresh
  <2>2. visibleAt[Refreshed(t).id] = 0
    BY <1>1, <2>1 DEF ClockInv
  <2> QED BY <2>2
<1>3. CASE ~Rotates(t) /\ ~cleared /\ ~unseen
  <2>1. Refreshed(t) = Read(t) /\ Read(t) # NoSession /\ ~Expired(t)
    BY <1>3 DEF Refreshed, Rotates
  <2>2. stored.session # NoSession /\ Read(t) = stored.session
    BY <1>3, <2>1 DEF Read, CopyInv
  <2> DEFINE s == stored.session
  <2>3. s \in Session /\ s.id \in 1 .. sessions /\ s.bg <= visibleAt[s.id]
    BY <2>2 DEF CopyInv, Sound, SoundIn, TypeInv
  <2>4. s.id \in 1 .. MaxSessions /\ visibleAt[s.id] \in Nat /\ s.bg \in Nat
    BY <1>1, <2>3 DEF ClockInv, Session
  <2>5. CASE s.bg > 0
    <3>1. ~(now - s.bg > Timeout)
      BY <2>1, <2>2, <2>5 DEF Expired
    <3>2. now - visibleAt[s.id] <= Timeout
      BY <1>1, <2>3, <2>4, <3>1
    <3> QED BY <2>1, <2>2, <3>2
  <2>6. CASE s.bg = 0
    <3>1. visibleAt[s.id] # 0
      BY <2>1, <2>2
    <3>2. PICK w \in Tabs : Visible(w) /\ session[w].id = s.id
      BY <1>3, <2>2, <2>6, <3>1 DEF Marked
    <3>3. visibleAt[s.id] = now
      BY <3>2 DEF ScreenInv
    <3>4. now - visibleAt[s.id] <= Timeout
      BY <1>1, <3>3
    <3> QED BY <2>1, <2>2, <3>4
  <2>7. s.bg > 0 \/ s.bg = 0
    BY <2>4
  <2> QED BY <2>5, <2>6, <2>7
<1> QED BY <1>2, <1>3

Returns(t) == Up(t)' /\ t \notin hidden' /\ (~Up(t) \/ t \in hidden)

(* Only a boot or a return to the foreground brings a tab to the screen.   *)
LEMMA ReturnsBy ==
  ASSUME TypeInv, [Next]_vars, NEW t \in Tabs, Returns(t)
  PROVE  Boot(t) \/ Show(t)
<1>1. CASE \E s \in Tabs : s # t /\ (Boot(s) \/ Show(s))
  BY <1>1 DEF Boot, Show, Returns, Up, TypeInv
<1>2. CASE \E s \in Tabs : \/ SetUp(s) \/ Ready(s) \/ Hide(s) \/ Leave(s) \/ Touch(s) \/ Reset(s)
                           \/ \E u \in Users : Identify(s, u)
  BY <1>2 DEF SetUp, Ready, Hide, Leave, Touch, Reset, Identify, Returns, Up, TypeInv, tabState
<1>3. CASE AliasQueued \/ ResetDraws \/ ResetEnds \/ Tick \/ Clear \/ UNCHANGED vars
  BY <1>3 DEF AliasQueued, ResetDraws, ResetEnds, Tick, Clear, vars, tabState, Returns, Up
<1> QED BY <1>1, <1>2, <1>3 DEF Next

LEMMA ReturnSeen ==
  ASSUME SeenInv, [Next]_vars, NEW t \in Tabs, Returns(t), visibleAt[session'[t].id] # 0
  PROVE  unseen \/ cleared \/ now - visibleAt[session'[t].id] <= Timeout
<1> USE DEF SeenInv
<1>1. CASE Boot(t)
  <2>1. session' = [session EXCEPT ![t] = Refreshed(t)]
    BY <1>1, BootFacts
  <2>2. session'[t] = Refreshed(t)
    BY <2>1 DEF TypeInv
  <2>3. Drawn(Constructed.anon) \/ ~Rotates(t)
    BY <1>1 DEF Boot
  <2> QED BY <2>2, <2>3, ResumedWasSeen
<1>2. CASE Show(t) /\ Listening(t)
  <2>1. session' = [session EXCEPT ![t] = Refreshed(t)]
    BY <1>2, RefreshType DEF Show
  <2>2. session'[t] = Refreshed(t)
    BY <2>1 DEF TypeInv
  <2>3. Drawn(identity[t].anon) \/ ~Rotates(t)
    BY <1>2 DEF Show, Refresh
  <2> QED BY <2>2, <2>3, ResumedWasSeen
<1>3. CASE Show(t) /\ ~Listening(t)
  BY <1>3, UnheardSeen
<1> QED BY <1>1, <1>2, <1>3, ReturnsBy

(* A session nobody had in the foreground for longer than the timeout is   *)
(* not resumed, by a boot or by a return, from whichever tab               *)
(* (session.ts:33-55, lifecycle.ts:40-46), save for what NotResumed lists.  *)
THEOREM OldSessionsEnd == Spec => NotResumed
<1>1. SeenInv /\ [Next]_vars =>
        \A t \in Tabs :
          LET sid == session'[t].id
          IN  Up(t)' /\ t \notin hidden' /\ (~Up(t) \/ t \in hidden) /\ visibleAt[sid] # 0
                => unseen \/ cleared \/ now - visibleAt[sid] <= Timeout
  BY ReturnSeen DEF Returns
<1>2. Init => SeenInv
  BY InitSeen
<1>3. SeenInv /\ [Next]_vars => SeenInv'
  BY NextSeen
<1> QED BY <1>1, <1>2, <1>3, PTL DEF Spec, NotResumed
=============================================================================
