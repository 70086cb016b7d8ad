-------------------------- MODULE Decisions_proofs --------------------------
(***************************************************************************)
(* For every dashboard, bundle and window, however often it publishes and  *)
(* however many days pass: exposures are not lost before their flush,      *)
(* listeners agree with the cache, what a boot serves is at most two       *)
(* windows and the slowest boot old, and the fields and typed reads keep   *)
(* their shape.                                                            *)
(***************************************************************************)
EXTENDS Decisions, FiniteSetTheorems, TLAPS

-----------------------------------------------------------------------------
(* Exposures.  What makes a read that was seen before safe to skip is that *)
(* its row, for the subject of now, is still in the buffer or gone out:    *)
(* a change of subject that Switch hears of empties what was seen, and one *)
(* that it does not hear of makes the new subject an exception.            *)
SeenInv ==
  /\ SubjectsExposed
  /\ ~Readable => seen = {}
  /\ subject \notin unheard => \A d \in seen : [subject |-> subject, decision |-> d] \in buffer \cup gone

LEMMA ReadSeen == ASSUME SeenInv, Read PROVE SeenInv'
<1>1. PICK keys \in {{k} : k \in Keys("switch")} \cup {Keys("switch")} :
        LET known == {k \in keys : Resolve("switch", k) # NoDecision}
            fresh == {k \in known : DedupKey(k, Resolve("switch", k)) \notin seen}
            filled == buffer \cup {Row(k, Resolve("switch", k)) : k \in fresh}
        IN  /\ reads' = reads \cup {Row(k, Resolve("switch", k)) : k \in known}
            /\ seen' = seen \cup {DedupKey(k, Resolve("switch", k)) : k \in fresh}
            /\ \/ buffer' = filled /\ UNCHANGED gone
               \/ \E kept \in SUBSET filled :
                    buffer' = kept /\ gone' = gone \cup (filled \ kept)
  BY Zenon DEF Read
<1> DEFINE known == {k \in keys : Resolve("switch", k) # NoDecision}
           fresh == {k \in known : DedupKey(k, Resolve("switch", k)) \notin seen}
           filled == buffer \cup {Row(k, Resolve("switch", k)) : k \in fresh}
<1>2. buffer' \cup gone' = filled \cup gone
  BY <1>1
<1>3. subject' = subject
  BY DEF Read
<1>4. ASSUME subject \notin unheard, NEW k \in known
      PROVE  Row(k, Resolve("switch", k)) \in filled \cup gone
  <2>1. CASE k \in fresh
    BY <2>1
  <2>2. CASE DedupKey(k, Resolve("switch", k)) \in seen
    BY <1>4, <2>2 DEF SeenInv, Row
  <2> QED BY <1>4, <2>1, <2>2
<1>5. ASSUME NEW r \in reads', r.subject \notin unheard PROVE r \in buffer' \cup gone'
  <2>1. reads' = reads \cup {Row(k, Resolve("switch", k)) : k \in known}
    BY <1>1
  <2>2. CASE r \in reads
    <3>1. r \in buffer \cup gone
      BY <1>5, <2>2 DEF SeenInv, SubjectsExposed
    <3> QED BY <1>2, <3>1
  <2>3. CASE \E k \in known : r = Row(k, Resolve("switch", k))
    <3>1. subject \notin unheard
      BY <1>5, <2>3 DEF Row
    <3> HIDE DEF filled, known
    <3> QED BY <1>2, <1>4, <2>3, <3>1
  <2> HIDE DEF filled, known
  <2> QED BY <1>5, <2>1, <2>2, <2>3
<1>6. ASSUME subject \notin unheard, NEW d \in seen'
      PROVE  [subject |-> subject, decision |-> d] \in filled \cup gone
  <2>1. CASE d \in seen
    BY <1>6, <2>1 DEF SeenInv
  <2>2. CASE \E k \in fresh : d = DedupKey(k, Resolve("switch", k))
    BY <2>2 DEF Row
  <2>3. seen' = seen \cup {DedupKey(k, Resolve("switch", k)) : k \in fresh}
    BY <1>1
  <2> HIDE DEF fresh
  <2> QED BY <1>6, <2>1, <2>2, <2>3
<1>7. UNCHANGED unheard
  BY DEF Read
<1> HIDE DEF filled, known, fresh
<1>8. Readable /\ UNCHANGED life
  BY DEF Read, page
<1> QED BY <1>2, <1>3, <1>5, <1>6, <1>7, <1>8 DEF SeenInv, SubjectsExposed, Readable

LEMMA IdentitySeen == ASSUME SeenInv, IdentityChanges PROVE SeenInv'
<1>1. /\ IF life = "on" THEN seen' = {} /\ buffer' = {} /\ gone' = gone \cup buffer
         ELSE UNCHANGED <<seen, buffer, gone>>
      /\ unheard' = IF life \in {"serving", "closed"} THEN unheard \cup {subject'} ELSE unheard
      /\ UNCHANGED <<reads, life>>
  BY DEF IdentityChanges, page
<1>2. SubjectsExposed'
  BY <1>1 DEF SeenInv, SubjectsExposed
<1>3. CASE life \in {"on", "serving", "closed"}
  BY <1>1, <1>2, <1>3 DEF SeenInv, Readable
<1>4. CASE life \notin {"on", "serving", "closed"}
  BY <1>1, <1>2, <1>4 DEF SeenInv, Readable
<1> QED BY <1>3, <1>4

LEMMA NextSeen == ASSUME SeenInv, [Next]_vars PROVE SeenInv'
<1>1. CASE Flush \/ Shutdown \/ Unload
  BY <1>1 DEF Flush, Shutdown, Unload, page, SeenInv, SubjectsExposed, Readable
<1>2. CASE \/ Boot \/ SetUp \/ Route \/ Subscribe \/ DayPasses \/ Publishes \/ OtherTabSaves
           \/ StorageSpoiled \/ UNCHANGED vars
  BY <1>2 DEF Boot, SetUp, Route, Subscribe, DayPasses, Publishes, OtherTabSaves, StorageSpoiled,
              vars, exposures, page, SeenInv, SubjectsExposed, Readable
<1>3. CASE HandshakeOk \/ HandshakeNotModified \/ HandshakeUnavailable \/ HandshakeMalformed
  BY <1>3 DEF HandshakeOk, HandshakeNotModified, HandshakeUnavailable, HandshakeMalformed,
              Answered, exposures, SeenInv, SubjectsExposed, Readable
<1> QED BY <1>1, <1>2, <1>3, ReadSeen, IdentitySeen DEF Next

(* What a subject has read is reported or was handed to a post, under the  *)
(* id of the moment of the read, unless Switch was not told of the subject *)
(* (exposures.ts:98-128, 205-211; client.ts:386, plugins.ts:45-64).        *)
THEOREM ReadsAreExposed == Spec => []SubjectsExposed
<1>1. Init => SeenInv
  BY DEF Init, SeenInv, SubjectsExposed
<1>2. SeenInv => SubjectsExposed
  BY DEF SeenInv
<1> QED BY <1>1, <1>2, NextSeen, PTL DEF Spec

-----------------------------------------------------------------------------
(* Listeners.                                                              *)
ViewInv ==
  /\ view = [p \in Products |-> view[p]]
  /\ \A p \in Products : view[p] = [k \in Keys(p) |-> view[p][k]]
  /\ mem = [p \in Products |-> mem[p]]
  /\ ListenersAgree

(* A payload that is applied tells whoever subscribed exactly what the     *)
(* cache holds now: the keys it does not mention were not changed by it.   *)
LEMMA AppliedView ==
  ASSUME ViewInv, NEW modules, NEW confirmed, Applied(modules, confirmed)
  PROVE  ViewInv'
<1> DEFINE enabled == {p \in Products : modules[p] # Off}
<1>1. /\ mem' = [p \in Products |->
                   IF p \in enabled THEN [values |-> modules[p], confirmed |-> confirmed] ELSE mem[p]]
      /\ view' = [p \in Products |-> IF p \in enabled THEN Told(p, modules[p]) ELSE view[p]]
  BY DEF Applied
<1>2. ASSUME NEW p \in Products
      PROVE  /\ view'[p] = [k \in Keys(p) |-> view'[p][k]]
             /\ \A k \in Keys(p) : view'[p][k] \in {NotSubscribed, Cached(p, k)'}
  <2>1. CASE p \notin enabled
    BY <1>1, <2>1 DEF ViewInv, ListenersAgree, Cached
  <2>2. CASE p \in enabled
    <3>1. mem'[p].values = modules[p] /\ view'[p] = Told(p, modules[p])
      BY <1>1, <2>2
    <3>2. ASSUME NEW k \in Keys(p) PROVE view'[p][k] \in {NotSubscribed, Cached(p, k)'}
      <4>1. CASE view[p][k] = NotSubscribed
        BY <3>1, <4>1 DEF Told
      <4>2. CASE view[p][k] # NotSubscribed /\ k \in DOMAIN modules[p]
        <5>1. Cached(p, k)' = modules[p][k]
          BY <3>1, <4>2 DEF Cached
        <5>2. CASE k \in Changed(p, modules[p])
          BY <3>1, <4>2, <5>1, <5>2 DEF Told
        <5>3. CASE k \notin Changed(p, modules[p])
          <6>1. view[p][k] = modules[p][k]
            BY <4>2, <5>3 DEF Changed, ViewInv, ListenersAgree
          <6>2. view'[p][k] = view[p][k]
            BY <3>1, <4>2, <5>3 DEF Told, Removed
          <6> QED BY <5>1, <6>1, <6>2
        <5> QED BY <5>2, <5>3
      <4>3. CASE view[p][k] # NotSubscribed /\ k \notin DOMAIN modules[p]
        <5>1. Cached(p, k)' = NoDecision
          BY <3>1, <4>3 DEF Cached
        <5>2. k \notin Changed(p, modules[p])
          BY <4>3 DEF Changed
        <5>3. CASE k \in DOMAIN mem[p].values
          BY <3>1, <4>3, <5>1, <5>2, <5>3 DEF Told, Removed
        <5>4. CASE k \notin DOMAIN mem[p].values
          <6>1. view'[p][k] = view[p][k]
            BY <3>1, <4>3, <5>2, <5>4 DEF Told, Removed
          <6> QED BY <4>3, <5>1, <5>4, <6>1 DEF ViewInv, ListenersAgree, Cached
        <5> QED BY <5>3, <5>4
      <4> QED BY <4>1, <4>2, <4>3
    <3> QED BY <3>1, <3>2 DEF Told
  <2> QED BY <2>1, <2>2
<1> QED BY <1>1, <1>2 DEF ViewInv, ListenersAgree

LEMMA EmptyView ==
  ASSUME view' = NoListeners, mem' = [p \in Products |-> mem'[p]]
  PROVE  ViewInv'
  BY DEF ViewInv, ListenersAgree, NoListeners

LEMMA SubscribeView == ASSUME ViewInv, Subscribe PROVE ViewInv'
<1>1. PICK p \in Products : \E k \in Keys(p) : view' = [view EXCEPT ![p][k] = Cached(p, k)]
  BY DEF Subscribe
<1>2. PICK k \in Keys(p) : view' = [view EXCEPT ![p][k] = Cached(p, k)]
  BY <1>1
<1>3. UNCHANGED mem
  BY DEF Subscribe
<1>4. ASSUME NEW q \in Products
      PROVE  /\ view'[q] = [j \in Keys(q) |-> view'[q][j]]
             /\ \A j \in Keys(q) : view'[q][j] \in {NotSubscribed, Cached(q, j)'}
  <2>1. CASE q # p
    BY <1>2, <1>3, <2>1 DEF ViewInv, ListenersAgree, Cached
  <2>2. CASE q = p
    <3>1. view'[p] = [view[p] EXCEPT ![k] = Cached(p, k)]
      BY <1>2 DEF ViewInv
    <3>2. view'[p] = [j \in Keys(p) |-> IF j = k THEN Cached(p, k) ELSE view[p][j]]
      BY <3>1 DEF ViewInv
    <3> QED BY <1>3, <2>2, <3>2 DEF ViewInv, ListenersAgree, Cached
  <2> QED BY <2>1, <2>2
<1> QED BY <1>2, <1>3, <1>4 DEF ViewInv, ListenersAgree

LEMMA NextView == ASSUME ViewInv, [Next]_vars PROVE ViewInv'
<1>1. CASE SetUp \/ Unload
  BY <1>1, EmptyView DEF SetUp, Unload
<1>2. CASE Route
  <2>1. CASE \E modules, confirmed : Applied(modules, confirmed)
    BY <2>1, AppliedView
  <2>2. CASE UNCHANGED <<mem, view>>
    BY <2>2 DEF ViewInv, ListenersAgree, Cached
  <2> QED BY <1>2, <2>1, <2>2 DEF Route
<1>3. CASE \/ Boot \/ Read \/ Flush \/ IdentityChanges \/ Shutdown \/ DayPasses \/ Publishes
           \/ OtherTabSaves \/ StorageSpoiled \/ UNCHANGED vars
  <2>1. UNCHANGED <<mem, view>>
    BY <1>3 DEF Boot, Read, Flush, IdentityChanges, Shutdown, DayPasses, Publishes,
                OtherTabSaves, StorageSpoiled, vars
  <2> QED BY <2>1 DEF ViewInv, ListenersAgree, Cached
<1>4. CASE HandshakeOk \/ HandshakeNotModified \/ HandshakeUnavailable \/ HandshakeMalformed
  <2>1. UNCHANGED <<mem, view>>
    BY <1>4 DEF HandshakeOk, HandshakeNotModified, HandshakeUnavailable, HandshakeMalformed,
                Answered
  <2> QED BY <2>1 DEF ViewInv, ListenersAgree, Cached
<1> QED BY <1>1, <1>2, <1>3, <1>4, SubscribeView DEF Next

(* Whoever subscribed to a key knows what the cache holds, through every   *)
(* handshake (switch/plugin.ts:151-198, config/plugin.ts:72-128).          *)
THEOREM SubscribersKnow == Spec => []ListenersAgree
<1>1. Init => ViewInv
  BY DEF Init, ViewInv, ListenersAgree, NoListeners
<1>2. ViewInv => ListenersAgree
  BY DEF ViewInv
<1> QED BY <1>1, <1>2, NextView, PTL DEF Spec

-----------------------------------------------------------------------------
(* Ages.  What an init() holds was confirmed at most a window before it    *)
(* asked; routing adds the time since then, and dates the slot; a slot is  *)
(* trusted for one window more.                                            *)
Dated(e) ==
  /\ e.at \in 0 .. day
  /\ e.confirmed \in 0 .. day
  /\ e.at - e.confirmed <= Window + slowest

Entries == Products \cup {"handshake"}

Written == \A e \in Entries : store[e].entry = "saved" => Dated(store[e])
DatedToday(s) == s.entry = "saved" => s.at = s.confirmed
HeldRecent ==
  life \in {"asking", "answered", "serving"} /\ held # NoEntry =>
    held.confirmed \in 0 .. day /\ asked - held.confirmed <= Window
Recent(m) == m.confirmed \in 0 .. day /\ booted - m.confirmed <= 2 * Window + slowest

Days ==
  /\ day \in Nat /\ slowest \in Nat /\ Window \in Nat
  /\ asked \in 0 .. day /\ booted \in 0 .. day

AgeInv ==
  /\ Days
  /\ store = [e \in Entries |-> store[e]]
  /\ Written
  /\ DatedToday(store["handshake"])
  /\ HeldRecent
  /\ \A p \in Products : Recent(mem[p])

LEMMA InitAge == Init => AgeInv
<1> SUFFICES ASSUME Init PROVE AgeInv
  OBVIOUS
<1>1. Days /\ store = [e \in Entries |-> store[e]]
  BY BoundsAssumption DEF Init, Days, Entries
<1>2. Written /\ DatedToday(store["handshake"]) /\ HeldRecent
  BY DEF Init, Written, DatedToday, HeldRecent, Entries, NoEntry
<1>3. \A p \in Products : Recent(mem[p])
  BY BoundsAssumption DEF Init, NothingHeld, Recent
<1> QED BY <1>1, <1>2, <1>3 DEF AgeInv

(* The days and the slowest boot only grow, and with them what they bound. *)
LEMMA Later ==
  ASSUME Days, Days', day <= day', slowest <= slowest'
  PROVE  /\ \A e : Dated(e) => Dated(e)'
         /\ \A m : Recent(m) /\ booted' = booted => Recent(m)'
<1>1. \A d \in 0 .. day : d \in 0 .. day'
  BY DEF Days
<1>2. \A e : Dated(e) => Dated(e)'
  BY <1>1 DEF Dated, Days
<1>3. \A m : Recent(m) /\ booted' = booted => Recent(m)'
  BY <1>1 DEF Recent, Days
<1> QED BY <1>2, <1>3

LEMMA SameAge ==
  ASSUME AgeInv, UNCHANGED <<day, asked, booted, store, mem, slowest>>,
         (life' = life /\ held' = held) \/ life' \in {"on", "closed"}
  PROVE  AgeInv'
  BY DEF AgeInv, Days, Written, HeldRecent, DatedToday, Recent, Dated

LEMMA BootAge == ASSUME AgeInv, Boot PROVE AgeInv'
<1>1. /\ asked' = day /\ UNCHANGED <<day, slowest, booted, store, mem>>
      /\ held' = IF Trusted(store["handshake"]) THEN store["handshake"] ELSE NoEntry
  BY DEF Boot, AgeInv
<1>2. Days /\ Days'
  BY <1>1 DEF AgeInv, Days
<1>3. HeldRecent'
  <2>1. CASE Trusted(store["handshake"])
    <3>1. Dated(store["handshake"]) /\ DatedToday(store["handshake"])
      BY <2>1 DEF AgeInv, Written, Trusted, Entries
    <3>2. /\ store["handshake"].confirmed \in 0 .. day
          /\ day - store["handshake"].confirmed <= Window
      BY <2>1, <3>1 DEF Dated, DatedToday, Trusted
    <3> QED BY <1>1, <2>1, <3>2 DEF HeldRecent
  <2>2. CASE ~Trusted(store["handshake"])
    BY <1>1, <2>2 DEF HeldRecent
  <2> QED BY <2>1, <2>2
<1> QED BY <1>1, <1>2, <1>3 DEF AgeInv, Written, DatedToday, Dated, Recent

(* The modules of an answer are confirmed today, or were held before.      *)
LEMMA HandshakeAge ==
  ASSUME AgeInv,
         HandshakeOk \/ HandshakeNotModified \/ HandshakeUnavailable \/ HandshakeMalformed
  PROVE  AgeInv'
<1>1. /\ life = "asking" /\ UNCHANGED <<day, asked, booted, mem, slowest>>
      /\ \/ held' = NoEntry
         \/ held' = held
         \/ \E at : held' = Entry(version, at, day)
      /\ store' = store \/ store' = [store EXCEPT !["handshake"] = Entry(version, day, day)]
  BY DEF HandshakeOk, HandshakeNotModified, HandshakeUnavailable, HandshakeMalformed, Answered,
         Saves
<1>2. Days /\ Days'
  BY <1>1 DEF AgeInv, Days
<1>3. HeldRecent'
  <2>1. \A at : Entry(version, at, day).confirmed = day
    BY DEF Entry
  <2>2. day \in 0 .. day /\ asked - day <= Window
    BY <1>2 DEF Days
  <2> QED BY <1>1, <2>1, <2>2 DEF AgeInv, HeldRecent
<1>4. \A p \in Products : Recent(mem[p])'
  BY <1>1 DEF AgeInv, Recent
<1>5. /\ store' = [e \in Entries |-> store'[e]]
      /\ \A e \in Entries : store'[e] = store[e] \/ store'[e] = Entry(version, day, day)
  BY <1>1 DEF AgeInv
<1>6. Dated(Entry(version, day, day))' /\ DatedToday(Entry(version, day, day))
  BY <1>1, <1>2 DEF Entry, Dated, DatedToday, Days
<1>7. Written'
  <2>1. ASSUME NEW e \in Entries, store'[e].entry = "saved" PROVE Dated(store[e])'
    <3>1. CASE store'[e] = store[e]
      BY <1>1, <2>1, <3>1 DEF AgeInv, Written, Dated
    <3>2. CASE store'[e] = Entry(version, day, day)
      BY <1>1, <1>6, <3>2 DEF Dated, Entry
    <3> QED BY <1>5, <3>1, <3>2
  <2> QED BY <2>1 DEF Written
<1>8. DatedToday(store["handshake"])'
  BY <1>5, <1>6 DEF AgeInv, DatedToday, Entries
<1> QED BY <1>2, <1>3, <1>4, <1>5, <1>7, <1>8 DEF AgeInv

LEMMA SetUpAge == ASSUME AgeInv, SetUp PROVE AgeInv'
<1>1. /\ life' = "serving" /\ life = "answered" /\ booted' = day
      /\ UNCHANGED <<day, asked, held, slowest>>
      /\ mem' = [p \in Products |-> Hydrated(p)]
      /\ store' = [e \in Entries |->
                     IF e \in Products /\ store[e] = Corrupt THEN NoEntry ELSE store[e]]
  BY DEF SetUp, AgeInv
<1>2. Days /\ Days' /\ store' = [e \in Entries |-> store'[e]]
  BY <1>1 DEF AgeInv, Days
<1>3. Written'
  <2>1. \A e \in Entries : store'[e] = store[e] \/ store'[e].entry # "saved"
    BY <1>1 DEF NoEntry
  <2>2. \A e : Dated(e) => Dated(e)'
    BY <1>1 DEF Dated
  <2> QED BY <2>1, <2>2 DEF AgeInv, Written
<1>4. DatedToday(store["handshake"])'
  <2>1. store'["handshake"] = store["handshake"]
    BY <1>1 DEF Products, Entries
  <2> QED BY <2>1 DEF AgeInv, DatedToday
<1>5. HeldRecent'
  BY <1>1 DEF AgeInv, HeldRecent
<1>6. ASSUME NEW p \in Products PROVE Recent(mem[p])'
  <2>1. CASE Trusted(store[p])
    <3>1. mem'[p].confirmed = store[p].confirmed
      BY <1>1, <2>1 DEF Hydrated
    <3>2. Dated(store[p]) /\ day - store[p].at <= Window
      BY <2>1 DEF AgeInv, Written, Trusted, Entries
    <3>3. day - store[p].confirmed <= 2 * Window + slowest
      BY <1>2, <3>2 DEF Dated, Days
    <3> QED BY <1>1, <3>1, <3>2, <3>3 DEF Dated, Recent
  <2>2. CASE ~Trusted(store[p])
    <3>1. mem'[p].confirmed = day
      BY <1>1, <2>2 DEF Hydrated, NothingHeld
    <3>2. day \in 0 .. day /\ day - day <= 2 * Window + slowest
      BY <1>2 DEF Days
    <3> QED BY <1>1, <3>1, <3>2 DEF Recent
  <2> QED BY <2>1, <2>2
<1> QED BY <1>2, <1>3, <1>4, <1>5, <1>6 DEF AgeInv

(* The routing adds the time since the request to the age of what is held. *)
LEMMA RouteAge == ASSUME AgeInv, Route PROVE AgeInv'
<1>1. /\ life = "serving" /\ life' = "on" /\ asked' = 0 /\ held' = NoEntry
      /\ slowest' = IF day - asked > slowest THEN day - asked ELSE slowest
      /\ UNCHANGED <<day, booted>>
  BY DEF Route
<1>2. Days /\ Days'
  BY <1>1 DEF AgeInv, Days
<1>3. day <= day' /\ slowest <= slowest' /\ day - asked <= slowest'
  BY <1>1, <1>2 DEF Days
<1>4. HeldRecent'
  BY <1>1 DEF HeldRecent
<1>5. /\ \A e : Dated(e) => Dated(e)'
      /\ \A m : Recent(m) => Recent(m)'
  BY <1>1, <1>2, <1>3, Later
<1>6. CASE held = NoEntry
  <2>1. UNCHANGED <<mem, store>>
    BY <1>6 DEF Route
  <2> QED BY <1>2, <1>4, <1>5, <2>1 DEF AgeInv, Written, DatedToday
<1>7. CASE held # NoEntry
  <2> DEFINE modules == Published[held.values]
             confirmed == held.confirmed
             enabled == {p \in Products : modules[p] # Off}
  <2>1. confirmed \in 0 .. day /\ asked - confirmed <= Window
    BY <1>1, <1>7 DEF AgeInv, HeldRecent
  <2>2. day - confirmed <= Window + slowest' /\ booted - confirmed <= 2 * Window + slowest'
    BY <1>2, <1>3, <2>1 DEF Days
  <2>3. Applied(modules, confirmed)
    BY <1>7 DEF Route
  <2>4. /\ \A p \in Products : mem'[p] = mem[p] \/ mem'[p].confirmed = confirmed
        /\ \/ store' = store
           \/ store' = [e \in Entries |-> IF e \in enabled THEN Entry(modules[e], day, confirmed)
                                          ELSE store[e]]
    <3>1. DOMAIN store = Entries
      BY DEF AgeInv
    <3> QED BY <2>3, <3>1 DEF Applied, Saves
  <2>5. \A values : LET e == Entry(values, day, confirmed)
                    IN /\ e.at \in 0 .. day /\ e.confirmed \in 0 .. day
                       /\ e.at - e.confirmed <= Window + slowest'
    BY <1>2, <2>1, <2>2 DEF Entry, Days
  <2>6. "handshake" \in Entries /\ "handshake" \notin enabled
    BY DEF Products, Entries
  <2> HIDE DEF modules, confirmed, enabled
  <2>7. /\ store' = [e \in Entries |-> store'[e]]
        /\ \A e \in Entries : \/ store'[e] = store[e]
                              \/ \E values : store'[e] = Entry(values, day, confirmed)
        /\ store'["handshake"] = store["handshake"]
    BY <2>4, <2>6 DEF AgeInv
  <2>8. Written'
    <3>1. ASSUME NEW e \in Entries, store'[e].entry = "saved" PROVE Dated(store[e])'
      <4>1. CASE store'[e] = store[e]
        <5>1. Dated(store[e])
          BY <3>1, <4>1 DEF AgeInv, Written
        <5>2. Dated(store'[e]) => Dated(store[e])'
          BY <1>1, <1>2, <1>3 DEF Dated, Days
        <5> QED BY <4>1, <5>1, <5>2
      <4>2. CASE \E values : store'[e] = Entry(values, day, confirmed)
        BY <1>1, <2>5, <4>2 DEF Dated
      <4> QED BY <2>7, <4>1, <4>2
    <3> QED BY <3>1 DEF Written
  <2>9. DatedToday(store["handshake"])'
    BY <2>7 DEF AgeInv, DatedToday
  <2>10. ASSUME NEW p \in Products PROVE Recent(mem[p])'
    <3>1. CASE mem'[p] = mem[p]
      BY <1>5, <3>1 DEF AgeInv
    <3>2. CASE mem'[p].confirmed = confirmed
      BY <1>1, <2>1, <2>2, <3>2 DEF Recent
    <3> QED BY <2>4, <3>1, <3>2
  <2> QED BY <1>2, <1>4, <2>7, <2>8, <2>9, <2>10 DEF AgeInv
<1> QED BY <1>6, <1>7

LEMMA UnloadAge == ASSUME AgeInv, Unload PROVE AgeInv'
<1>1. /\ life' = "off" /\ asked' = 0 /\ booted' = 0 /\ UNCHANGED <<day, store, slowest>>
      /\ mem' = [p \in Products |-> NothingHeld(0)]
  BY DEF Unload
<1>2. Days /\ Days'
  BY <1>1 DEF AgeInv, Days
<1>3. \A p \in Products : Recent(mem[p])'
  <2>1. 0 \in 0 .. day' /\ (0 - 0) <= 2 * Window + slowest'
    <3>1. day' \in Nat /\ slowest' \in Nat /\ Window \in Nat
      BY <1>2 DEF Days
    <3>2. \A d, w, s \in Nat : 0 \in 0 .. d /\ (0 - 0) <= 2 * w + s
      OBVIOUS
    <3> QED BY <3>1, <3>2
  <2> QED BY <1>1, <2>1 DEF NothingHeld, Recent
<1>4. HeldRecent'
  BY <1>1 DEF HeldRecent
<1>5. Written' /\ DatedToday(store["handshake"])'
  BY <1>1 DEF AgeInv, Written, DatedToday, Dated
<1> QED BY <1>1, <1>2, <1>3, <1>4, <1>5 DEF AgeInv

LEMMA DayAge == ASSUME AgeInv, DayPasses PROVE AgeInv'
<1>1. day' = day + 1 /\ UNCHANGED <<asked, booted, store, mem, held, life, slowest>>
  BY DEF DayPasses, page
<1>2. Days /\ Days' /\ \A d \in 0 .. day : d \in 0 .. day'
  BY <1>1 DEF AgeInv, Days
<1>3. day <= day' /\ slowest <= slowest'
  BY <1>1, <1>2 DEF Days
<1>4. Written' /\ \A p \in Products : Recent(mem[p])'
  BY <1>1, <1>2, <1>3, Later DEF AgeInv, Written
<1>5. HeldRecent' /\ DatedToday(store["handshake"])'
  BY <1>1, <1>2 DEF AgeInv, HeldRecent, DatedToday
<1> QED BY <1>1, <1>2, <1>4, <1>5 DEF AgeInv

(* Another tab writes what the server vouches for today.                   *)
LEMMA OtherTabAge == ASSUME AgeInv, OtherTabSaves PROVE AgeInv'
<1>1. store' = [e \in Entries |->
                  IF e = "handshake" THEN Entry(version, day, day)
                  ELSE IF Published[version][e] = Off THEN store[e]
                  ELSE Entry(Published[version][e], day, day)]
  BY DEF OtherTabSaves, AgeInv
<1>2. UNCHANGED <<day, asked, booted, life, held, mem, slowest>>
  BY DEF OtherTabSaves, page
<1>3. Days /\ Days'
  BY <1>2 DEF AgeInv, Days
<1>4. \A values : Dated(Entry(values, day, day))' /\ DatedToday(Entry(values, day, day))
  BY <1>2, <1>3 DEF Dated, DatedToday, Entry, Days
<1>5. Written'
  <2>1. \A e \in Entries : store'[e] = store[e] \/ \E values : store'[e] = Entry(values, day, day)
    BY <1>1
  <2>2. \A s : Dated(s) => Dated(s)'
    BY <1>2 DEF Dated
  <2> QED BY <1>2, <1>4, <2>1, <2>2 DEF AgeInv, Written
<1>6. DatedToday(store["handshake"])'
  <2>1. store'["handshake"] = Entry(version, day, day)
    BY <1>1 DEF Entries
  <2> QED BY <1>4, <2>1 DEF DatedToday
<1>7. HeldRecent' /\ \A p \in Products : Recent(mem[p])'
  BY <1>2 DEF AgeInv, HeldRecent, Recent
<1> QED BY <1>1, <1>2, <1>3, <1>5, <1>6, <1>7 DEF AgeInv

LEMMA SpoiledAge == ASSUME AgeInv, StorageSpoiled PROVE AgeInv'
<1>1. PICK e \in Entries, bad \in {NoEntry, Corrupt} : store' = [store EXCEPT ![e] = bad]
  BY DEF StorageSpoiled, AgeInv
<1>2. UNCHANGED <<day, asked, booted, life, held, mem, slowest>>
  BY DEF StorageSpoiled, page
<1>3. \A d \in Entries : store'[d] = store[d] \/ store'[d].entry # "saved"
  BY <1>1 DEF AgeInv, NoEntry, Corrupt
<1>4. store' = [d \in Entries |-> store'[d]]
  BY <1>1 DEF AgeInv
<1>5. Written' /\ DatedToday(store["handshake"])'
  BY <1>2, <1>3 DEF AgeInv, Written, DatedToday, Dated, Entries
<1>6. Days' /\ HeldRecent' /\ \A p \in Products : Recent(mem[p])'
  BY <1>2 DEF AgeInv, HeldRecent, Recent, Days
<1> QED BY <1>2, <1>4, <1>5, <1>6 DEF AgeInv

LEMMA NextAge == ASSUME AgeInv, [Next]_vars PROVE AgeInv'
<1>1. CASE Subscribe \/ Read \/ Flush \/ IdentityChanges \/ Shutdown \/ Publishes \/ UNCHANGED vars
  <2>1. /\ UNCHANGED <<day, asked, booted, store, mem, slowest>>
        /\ (life' = life /\ held' = held) \/ life' \in {"on", "closed"}
    BY <1>1 DEF Subscribe, Read, Flush, IdentityChanges, Shutdown, Publishes, vars, page
  <2> QED BY <2>1, SameAge
<1> QED BY <1>1, BootAge, HandshakeAge, SetUpAge, RouteAge, UnloadAge, DayAge, OtherTabAge,
           SpoiledAge DEF Next

(* Two guards of one window each add up to two, and the time a boot took   *)
(* to route what it had asked for: no further, whatever is cached,         *)
(* confirmed by a 304 or written by another tab (switch/cache.ts:114,      *)
(* config/cache.ts:91, client.ts:145-172 and 660-674).                     *)
THEOREM AtMostTwoWindowsOld == Spec => []ServedWithinTwoWindows
<1>1. AgeInv => ServedWithinTwoWindows
  BY DEF AgeInv, Recent, AgeAtBoot, ServedWithinTwoWindows
<1> QED BY <1>1, InitAge, NextAge, PTL DEF Spec

-----------------------------------------------------------------------------
(* Shapes.  What is in memory was published for its product; a slot holds  *)
(* such a payload, and a cached handshake names one.                       *)
Spans(e) == e.confirmed \in 0 .. day
Slot(p) == store[p].entry = "saved" => store[p].values \in Payloads(p)
Named(e) == e.values \in DOMAIN Published

ClockInv ==
  /\ day \in 0 .. MaxDays /\ MaxDays \in Nat /\ asked \in 0 .. day /\ booted \in 0 .. day
  /\ version \in DOMAIN Published
  /\ life \in {"off", "asking", "answered", "serving", "on", "closed"}

CacheInv ==
  /\ store = [e \in Entries |-> store[e]]
  /\ \A e \in Entries : store[e].entry = "saved" => Spans(store[e])
  /\ \A p \in Products : Slot(p)
  /\ store["handshake"].entry = "saved" => Named(store["handshake"])
  /\ held # NoEntry => Spans(held) /\ Named(held)

MemoryInv == \A p \in Products : mem[p].values \in Payloads(p) \cup {Empty} /\ Spans(mem[p])

BufferInv == IsFiniteSet(buffer) /\ Cardinality(buffer) <= BatchSize

ShapeInv == ClockInv /\ CacheInv /\ MemoryInv /\ BufferInv

(* coerceConfigValue returns a value of the default's kind, whatever the   *)
(* dashboard published.                                                    *)
LEMMA BoolKind == \A b : Kind(Bool(b)) = "boolean"
  BY DEF Kind, Bool, IsText, IsNum, IsBool, IsList, IsMap

LEMMA BooleanDefault == ASSUME NEW d \in Fallbacks, IsBool(d) PROVE Kind(d) = "boolean"
<1>1. DOMAIN d = {"bool"}
  BY FallbacksAssumption DEF IsBool
<1> QED BY <1>1 DEF Kind, IsText, IsNum, IsBool, IsList, IsMap

LEMMA CoerceKind ==
  ASSUME NEW value, NEW d \in Fallbacks
  PROVE  Kind(Coerce(value, d)) = Kind(d)
<1>1. \/ IsBool(d) /\ Coerce(value, d) = Bool(value.num # 0)
      \/ IsBool(d) /\ Coerce(value, d) = Bool(TRUE)
      \/ IsBool(d) /\ Coerce(value, d) = Bool(FALSE)
      \/ Kind(value) = Kind(d) /\ Coerce(value, d) = value
      \/ Coerce(value, d) = d
  BY DEF Coerce, Bool
<1> QED BY <1>1, BoolKind, BooleanDefault

LEMMA GetKind == \A k, d : d \in Fallbacks => Kind(Get(k, d)) = Kind(d)
  BY CoerceKind DEF Get

LEMMA InitShape == Init => ShapeInv
<1> SUFFICES ASSUME Init PROVE ShapeInv
  OBVIOUS
<1>1. ClockInv
  BY BoundsAssumption, PublishedAssumption DEF Init, ClockInv
<1>2. CacheInv
  BY DEF Init, CacheInv, Entries, NoEntry, Slot
<1>3. MemoryInv
  BY <1>1 DEF Init, MemoryInv, NothingHeld, Spans, ClockInv
<1>4. BufferInv
  BY FS_EmptySet, BoundsAssumption DEF Init, BufferInv
<1> QED BY <1>1, <1>2, <1>3, <1>4 DEF ShapeInv

LEMMA BootShape == ASSUME ShapeInv, Boot PROVE ShapeInv'
<1>1. /\ asked' = day /\ life' = "asking" /\ UNCHANGED <<day, version, booted, buffer, mem, store>>
      /\ held' = IF Trusted(store["handshake"]) THEN store["handshake"] ELSE NoEntry
  BY DEF Boot, ShapeInv, CacheInv, exposures
<1>2. ClockInv'
  BY <1>1 DEF ShapeInv, ClockInv
<1>3. held' # NoEntry => Spans(held)' /\ Named(held)'
  BY <1>1 DEF ShapeInv, CacheInv, Trusted, Spans, Named, Entries
<1>4. CacheInv'
  BY <1>1, <1>3 DEF ShapeInv, CacheInv, Spans, Slot, Named
<1>5. BufferInv' /\ MemoryInv'
  BY <1>1 DEF ShapeInv, BufferInv, MemoryInv, Spans
<1> QED BY <1>2, <1>4, <1>5 DEF ShapeInv

LEMMA HandshakeShape ==
  ASSUME ShapeInv,
         HandshakeOk \/ HandshakeNotModified \/ HandshakeUnavailable \/ HandshakeMalformed
  PROVE  ShapeInv'
<1>1. /\ life' = "answered" /\ UNCHANGED <<day, version, asked, booted, mem, buffer>>
      /\ \/ held' = NoEntry
         \/ held' = held
         \/ \E at : held' = Entry(version, at, day)
      /\ store' = store \/ store' = [store EXCEPT !["handshake"] = Entry(version, day, day)]
  BY DEF HandshakeOk, HandshakeNotModified, HandshakeUnavailable, HandshakeMalformed, Answered,
         Saves, exposures
<1>2. ClockInv /\ ClockInv' /\ BufferInv' /\ MemoryInv'
  BY <1>1 DEF ShapeInv, ClockInv, BufferInv, MemoryInv, Spans
<1>3. \A at : Spans(Entry(version, at, day)) /\ Named(Entry(version, at, day))
  BY <1>2 DEF Entry, Spans, Named, ClockInv
<1>4. held' # NoEntry => Spans(held)' /\ Named(held)'
  BY <1>1, <1>3 DEF ShapeInv, CacheInv, Spans, Named
<1>5. /\ store' = [e \in Entries |-> store'[e]]
      /\ store'["handshake"] = store["handshake"] \/ store'["handshake"] = Entry(version, day, day)
      /\ \A p \in Products : store'[p] = store[p]
  BY <1>1 DEF ShapeInv, CacheInv, Entries, Products
<1>6. store'["handshake"].entry = "saved" =>
        Spans(store["handshake"])' /\ Named(store["handshake"])'
  BY <1>1, <1>3, <1>5 DEF ShapeInv, CacheInv, Spans, Named, Entries
<1>7. \A p \in Products : Slot(p)' /\ (store'[p].entry = "saved" => Spans(store[p])')
  BY <1>1, <1>5 DEF ShapeInv, CacheInv, Slot, Spans, Entries
<1> QED BY <1>2, <1>4, <1>5, <1>6, <1>7 DEF ShapeInv, CacheInv, Entries

LEMMA SetUpShape == ASSUME ShapeInv, SetUp PROVE ShapeInv'
<1>1. /\ booted' = day /\ life' = "serving" /\ UNCHANGED <<day, version, asked, held, buffer>>
      /\ mem' = [p \in Products |-> Hydrated(p)]
      /\ store' = [e \in Entries |->
                     IF e \in Products /\ store[e] = Corrupt THEN NoEntry ELSE store[e]]
  BY DEF SetUp, ShapeInv, CacheInv, exposures
<1>2. ClockInv'
  BY <1>1 DEF ShapeInv, ClockInv
<1>3. MemoryInv'
  <2>1. \A p \in Products : Trusted(store[p]) => Hydrated(p).values \in Payloads(p) /\ Spans(Hydrated(p))
    BY DEF ShapeInv, CacheInv, Trusted, Hydrated, Slot, Spans, Entries
  <2>2. \A p \in Products : ~Trusted(store[p]) => Hydrated(p).values = Empty /\ Spans(Hydrated(p))
    BY DEF ShapeInv, ClockInv, Hydrated, NothingHeld, Spans
  <2> QED BY <1>1, <2>1, <2>2 DEF MemoryInv, Spans
<1>4. CacheInv'
  <2>1. \A e \in Entries : store'[e] = store[e] \/ store'[e].entry # "saved"
    BY <1>1 DEF NoEntry
  <2>2. held' # NoEntry => Spans(held)' /\ Named(held)'
    BY <1>1 DEF ShapeInv, CacheInv, Spans, Named
  <2>3. store' = [e \in Entries |-> store'[e]]
    BY <1>1
  <2>4. \A e \in Entries : store'[e].entry = "saved" => Spans(store[e])'
    BY <1>1, <2>1 DEF ShapeInv, CacheInv, Spans
  <2>5. \A p \in Products : Slot(p)'
    BY <2>1 DEF ShapeInv, CacheInv, Slot, Entries
  <2>6. store'["handshake"].entry = "saved" => Named(store["handshake"])'
    BY <2>1 DEF ShapeInv, CacheInv, Named, Entries
  <2> QED BY <2>2, <2>3, <2>4, <2>5, <2>6 DEF CacheInv
<1>5. BufferInv'
  BY <1>1 DEF ShapeInv, BufferInv
<1> QED BY <1>2, <1>3, <1>4, <1>5 DEF ShapeInv

(* A published payload is applied: memory and slots are among those.       *)
LEMMA RouteShape == ASSUME ShapeInv, Route PROVE ShapeInv'
<1>1. /\ life' = "on" /\ asked' = 0 /\ held' = NoEntry
      /\ UNCHANGED <<day, version, booted, buffer>>
  BY DEF Route, exposures
<1>2. ClockInv /\ ClockInv' /\ BufferInv'
  BY <1>1 DEF ShapeInv, ClockInv, BufferInv
<1>3. CASE held = NoEntry
  <2>1. UNCHANGED <<mem, store>>
    BY <1>3 DEF Route
  <2> QED BY <1>1, <1>2, <2>1 DEF ShapeInv, CacheInv, MemoryInv, Spans, Slot, Named
<1>4. CASE held # NoEntry
  <2> DEFINE modules == Published[held.values]
             confirmed == held.confirmed
             enabled == {p \in Products : modules[p] # Off}
  <2>1. confirmed \in 0 .. day /\ held.values \in DOMAIN Published
    BY <1>4 DEF ShapeInv, CacheInv, Spans, Named
  <2>2. \A p \in enabled : p \in Products /\ modules[p] \in Payloads(p)
    BY <2>1 DEF Payloads
  <2>3. Applied(modules, confirmed)
    BY <1>4 DEF Route
  <2>4. /\ mem' = [p \in Products |->
                     IF p \in enabled THEN [values |-> modules[p], confirmed |-> confirmed]
                     ELSE mem[p]]
        /\ \/ store' = store
           \/ store' = [e \in Entries |-> IF e \in enabled THEN Entry(modules[e], day, confirmed)
                                          ELSE store[e]]
    <3>1. DOMAIN store = Entries
      BY DEF ShapeInv, CacheInv
    <3> QED BY <2>3, <3>1 DEF Applied, Saves
  <2>5. "handshake" \in Entries /\ "handshake" \notin enabled /\ Products \subseteq Entries
    BY DEF Products, Entries
  <2>6. \A e : /\ Entry(modules[e], day, confirmed).values = modules[e]
               /\ Entry(modules[e], day, confirmed).confirmed = confirmed
    BY DEF Entry
  <2> HIDE DEF modules, confirmed, enabled
  <2>7. ASSUME NEW p \in Products
        PROVE  mem'[p].values \in Payloads(p) \cup {Empty} /\ mem'[p].confirmed \in 0 .. day
    <3>1. CASE p \in enabled
      BY <2>1, <2>2, <2>4, <3>1
    <3>2. CASE p \notin enabled
      BY <2>4, <3>2 DEF ShapeInv, MemoryInv, Spans
    <3> QED BY <3>1, <3>2
  <2>8. MemoryInv'
    BY <1>1, <2>7 DEF MemoryInv, Spans
  <2>9. /\ store' = [e \in Entries |-> store'[e]]
        /\ \A e \in Entries :
             \/ store'[e] = store[e]
             \/ e \in enabled /\ store'[e] = Entry(modules[e], day, confirmed)
        /\ store'["handshake"] = store["handshake"]
    BY <2>4, <2>5 DEF ShapeInv, CacheInv
  <2>10. \A e \in Entries : store'[e].entry = "saved" => Spans(store[e])'
    BY <1>1, <2>1, <2>6, <2>9 DEF ShapeInv, CacheInv, Spans
  <2>11. \A p \in Products : Slot(p)'
    BY <2>2, <2>5, <2>6, <2>9 DEF ShapeInv, CacheInv, Slot
  <2>12. store'["handshake"].entry = "saved" => Named(store["handshake"])'
    BY <2>9 DEF ShapeInv, CacheInv, Named
  <2> QED BY <1>1, <1>2, <2>8, <2>9, <2>10, <2>11, <2>12 DEF ShapeInv, CacheInv
<1> QED BY <1>3, <1>4

(* Below a batch the row joins the buffer; at a batch all but what was     *)
(* read after the flush goes out.                                          *)
LEMMA ReadShape == ASSUME BufferInv, Read PROVE BufferInv'
<1>1. PICK keys \in {{k} : k \in Keys("switch")} \cup {Keys("switch")} :
        LET known == {k \in keys : Resolve("switch", k) # NoDecision}
            fresh == {k \in known : DedupKey(k, Resolve("switch", k)) \notin seen}
            filled == buffer \cup {Row(k, Resolve("switch", k)) : k \in fresh}
        IN  IF Cardinality(filled) < BatchSize
            THEN buffer' = filled
            ELSE \E kept \in SUBSET filled :
                   Cardinality(kept) = Cardinality(filled) % BatchSize /\ buffer' = kept
  BY Zenon DEF Read
<1> DEFINE known == {k \in keys : Resolve("switch", k) # NoDecision}
           fresh == {k \in known : DedupKey(k, Resolve("switch", k)) \notin seen}
           filled == buffer \cup {Row(k, Resolve("switch", k)) : k \in fresh}
<1>2. IsFiniteSet(fresh)
  <2>1. IsFiniteSet(Keys("switch")) /\ fresh \subseteq Keys("switch")
    BY KeysAssumption DEF Products
  <2> QED BY <2>1, FS_Subset
<1>3. IsFiniteSet({Row(k, Resolve("switch", k)) : k \in fresh})
  <2> DEFINE rows == {Row(k, Resolve("switch", k)) : k \in fresh}
             row == [k \in fresh |-> Row(k, Resolve("switch", k))]
  <2> HIDE DEF fresh
  <2>1. row \in Surjection(fresh, rows)
    BY DEF Surjection
  <2> HIDE DEF row, rows
  <2>2. IsFiniteSet(rows)
    BY <1>2, <2>1, FS_Surjection
  <2> QED BY <2>2 DEF rows
<1>4. IsFiniteSet(filled)
  <2> HIDE DEF fresh
  <2> QED BY <1>3, FS_Union DEF BufferInv
<1>5. CASE Cardinality(filled) < BatchSize /\ buffer' = filled
  <2>1. Cardinality(filled) \in Nat
    BY <1>4, FS_CardinalityType
  <2> HIDE DEF filled
  <2> QED BY <1>4, <1>5, <2>1, BoundsAssumption DEF BufferInv
<1>6. ASSUME NEW kept \in SUBSET filled, Cardinality(kept) = Cardinality(filled) % BatchSize,
             buffer' = kept
      PROVE  BufferInv'
  <2>1. IsFiniteSet(kept)
    BY <1>4, FS_Subset
  <2>2. Cardinality(filled) \in Nat
    BY <1>4, FS_CardinalityType
  <2> HIDE DEF filled
  <2>3. Cardinality(filled) % BatchSize <= BatchSize
    BY <2>2, BoundsAssumption, BatchAssumption
  <2> QED BY <1>6, <2>1, <2>3 DEF BufferInv
<1> HIDE DEF known, fresh
<1>7. \/ Cardinality(filled) < BatchSize /\ buffer' = filled
      \/ \E kept \in SUBSET filled :
           Cardinality(kept) = Cardinality(filled) % BatchSize /\ buffer' = kept
  BY <1>1 DEF fresh, known
<1> HIDE DEF filled
<1> QED BY <1>5, <1>6, <1>7

LEMMA EmptiedBuffer == ASSUME buffer' = {} PROVE BufferInv'
  BY FS_EmptySet, BoundsAssumption DEF BufferInv

LEMMA SameCaches ==
  ASSUME ShapeInv, UNCHANGED <<day, store, held, mem>>
  PROVE  CacheInv' /\ MemoryInv'
  BY DEF ShapeInv, CacheInv, MemoryInv, Spans, Slot, Named

LEMMA UnloadShape == ASSUME ShapeInv, Unload PROVE ShapeInv'
<1>1. /\ life' = "off" /\ asked' = 0 /\ booted' = 0 /\ held' = NoEntry /\ buffer' = {}
      /\ UNCHANGED <<day, version, store>>
      /\ mem' = [p \in Products |-> NothingHeld(0)]
  BY DEF Unload
<1>2. ClockInv'
  BY <1>1 DEF ShapeInv, ClockInv
<1>3. CacheInv'
  BY <1>1 DEF ShapeInv, CacheInv, Spans, Slot, Named
<1>4. MemoryInv'
  BY <1>1, <1>2 DEF MemoryInv, NothingHeld, Spans, ClockInv
<1> QED BY <1>1, <1>2, <1>3, <1>4, EmptiedBuffer DEF ShapeInv

LEMMA DayShape == ASSUME ShapeInv, DayPasses PROVE ShapeInv'
<1>1. /\ day' = day + 1 /\ day < MaxDays
      /\ UNCHANGED <<version, asked, booted, life, store, held, mem, buffer>>
  BY DEF DayPasses, page, exposures
<1>2. \A d \in 0 .. day : d \in 0 .. day'
  BY <1>1 DEF ShapeInv, ClockInv
<1>3. ClockInv'
  BY <1>1, <1>2 DEF ShapeInv, ClockInv
<1>4. CacheInv'
  BY <1>1, <1>2 DEF ShapeInv, CacheInv, Spans, Slot, Named
<1>5. MemoryInv' /\ BufferInv'
  BY <1>1, <1>2 DEF ShapeInv, MemoryInv, BufferInv, Spans
<1> QED BY <1>3, <1>4, <1>5 DEF ShapeInv

LEMMA OtherTabShape == ASSUME ShapeInv, OtherTabSaves PROVE ShapeInv'
<1>1. store' = [e \in Entries |->
                  IF e = "handshake" THEN Entry(version, day, day)
                  ELSE IF Published[version][e] = Off THEN store[e]
                  ELSE Entry(Published[version][e], day, day)]
  BY DEF OtherTabSaves, ShapeInv, CacheInv
<1>2. UNCHANGED <<day, version, asked, booted, life, held, mem, buffer>>
  BY DEF OtherTabSaves, page, exposures
<1>3. ClockInv /\ ClockInv' /\ MemoryInv' /\ BufferInv'
  BY <1>2 DEF ShapeInv, ClockInv, MemoryInv, BufferInv, Spans
<1>4. \A values : /\ Entry(values, day, day).values = values
                  /\ Entry(values, day, day).confirmed \in 0 .. day
  BY <1>3 DEF Entry, ClockInv
<1>5. store'["handshake"] = Entry(version, day, day)
  BY <1>1 DEF Entries
<1>6. \A p \in Products : \/ store'[p] = store[p]
                          \/ /\ Published[version][p] # Off
                             /\ store'[p] = Entry(Published[version][p], day, day)
  BY <1>1 DEF Entries, Products
<1>7. \A p \in Products : Slot(p)'
  BY <1>3, <1>4, <1>6 DEF ShapeInv, CacheInv, ClockInv, Slot, Payloads
<1>8. \A e \in Entries : store'[e].entry = "saved" => Spans(store[e])'
  BY <1>2, <1>4, <1>5, <1>6 DEF ShapeInv, CacheInv, Spans, Entries
<1>9. store' = [e \in Entries |-> store'[e]] /\ Named(store["handshake"])'
  BY <1>1, <1>3, <1>4, <1>5 DEF Named, ClockInv
<1>10. held' # NoEntry => Spans(held)' /\ Named(held)'
  BY <1>2 DEF ShapeInv, CacheInv, Spans, Named
<1> QED BY <1>3, <1>7, <1>8, <1>9, <1>10 DEF ShapeInv, CacheInv

LEMMA SpoiledShape == ASSUME ShapeInv, StorageSpoiled PROVE ShapeInv'
<1>1. PICK e \in Entries, bad \in {NoEntry, Corrupt} : store' = [store EXCEPT ![e] = bad]
  BY DEF StorageSpoiled, ShapeInv, CacheInv
<1>2. UNCHANGED <<day, version, asked, booted, life, held, mem, buffer>>
  BY DEF StorageSpoiled, page, exposures
<1>3. \A d \in Entries : store'[d] = store[d] \/ store'[d].entry # "saved"
  BY <1>1 DEF ShapeInv, CacheInv, NoEntry, Corrupt
<1>4. store' = [d \in Entries |-> store'[d]]
  BY <1>1 DEF ShapeInv, CacheInv
<1>5. CacheInv'
  BY <1>2, <1>3, <1>4 DEF ShapeInv, CacheInv, Spans, Slot, Named, Entries
<1>6. ClockInv' /\ MemoryInv' /\ BufferInv'
  BY <1>2 DEF ShapeInv, ClockInv, MemoryInv, BufferInv, Spans
<1> QED BY <1>5, <1>6 DEF ShapeInv

LEMMA NextShape == ASSUME ShapeInv, [Next]_vars PROVE ShapeInv'
<1>1. CASE Subscribe \/ UNCHANGED vars
  <2>1. UNCHANGED <<day, version, asked, booted, life, store, held, mem, buffer>>
    BY <1>1 DEF Subscribe, vars, page, exposures
  <2> QED BY <2>1, SameCaches DEF ShapeInv, ClockInv, BufferInv
<1>2. CASE Read
  <2>1. UNCHANGED <<day, version, asked, booted, life, store, held, mem>>
    BY <1>2 DEF Read, page
  <2> QED BY <1>2, <2>1, SameCaches, ReadShape DEF ShapeInv, ClockInv
<1>3. CASE Flush \/ IdentityChanges \/ Shutdown
  <2>1. /\ UNCHANGED <<day, version, asked, booted, store, held, mem>>
        /\ buffer' = {} \/ buffer' = buffer
        /\ life' = life \/ life' = "closed"
    BY <1>3 DEF Flush, IdentityChanges, Shutdown, page
  <2> QED BY <2>1, SameCaches, EmptiedBuffer DEF ShapeInv, ClockInv, BufferInv
<1>4. CASE Publishes
  <2>1. /\ version < Len(Published) /\ version' = version + 1
        /\ UNCHANGED <<day, asked, booted, life, store, held, mem, buffer>>
    BY <1>4 DEF Publishes, page, exposures
  <2>2. version' \in DOMAIN Published
    BY <2>1, PublishedAssumption DEF ShapeInv, ClockInv
  <2> QED BY <2>1, <2>2, SameCaches DEF ShapeInv, ClockInv, BufferInv
<1> QED BY <1>1, <1>2, <1>3, <1>4, BootShape, HandshakeShape, SetUpShape, RouteShape, UnloadShape,
           DayShape, OtherTabShape, SpoiledShape DEF Next

(* What is in memory was published, no cache is confirmed in the future,   *)
(* the buffer never exceeds a batch, and a typed read returns the type of  *)
(* its default (switch/plugin.ts:151-198, exposures.ts:128-134,            *)
(* config/coerce.ts:25-44).                                                *)
THEOREM TypeCorrect == Spec => []TypeOK
<1>1. ShapeInv => TypeOK
  BY GetKind DEF ShapeInv, ClockInv, CacheInv, MemoryInv, BufferInv, Spans, TypeOK
<1> QED BY <1>1, InitShape, NextShape, PTL DEF Spec
=============================================================================
