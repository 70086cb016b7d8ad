------------------------------ MODULE Decisions ------------------------------
(***************************************************************************)
(* The decisions of @sankofa/switch and @sankofa/config: from the          *)
(* handshake, through three caches in localStorage (the last handshake of  *)
(* the browser client, one slot per product), to what the host reads and   *)
(* what its listeners are told; and the exposures that Switch posts for    *)
(* the flags that were read.                                               *)
(*                                                                         *)
(* Days pass, the dashboard publishes, another tab writes the caches, the  *)
(* network is down or answers 304, and the page is left at any moment. A   *)
(* field `confirmed` is history: the last day on which the server vouched  *)
(* for the values it stands beside.                                        *)
(***************************************************************************)
EXTENDS JsonValues

CONSTANTS Published,  \* what the dashboard publishes, in this order: for each
                      \* product a function from keys to decisions, or Off
          Bundled,    \* the defaults compiled into the host, for each product
          Fallbacks,  \* the defaults the host passes to Config's get()
          Window,     \* days a cached payload is trusted
          BatchSize,  \* exposures in the buffer that trigger a flush
          MaxDays, MaxReads,   \* bounds
          MaxEvents   \* bound on what the host, the user and other tabs do

ASSUME BoundsAssumption == {Window, BatchSize, MaxDays, MaxReads, MaxEvents} \subseteq Nat

Products == {"switch", "config"}
Off == [off |-> 0]             \* the module is disabled in the dashboard
NoDecision == Undefined
Empty == << >>                 \* the function of no key
NoEntry == [entry |-> "none"]
Corrupt == [entry |-> "corrupt"]
NotSubscribed == [subscribed |-> FALSE]

Payloads(p) == {Published[v][p] : v \in DOMAIN Published} \ {Off}
KeysOf == [p \in Products |-> UNION {DOMAIN values : values \in Payloads(p) \cup {Bundled[p]}}]
Keys(p) == KeysOf[p]

(* A payload has finitely many keys, something is published from the       *)
(* start, a batch holds a row, and a fallback is a value of one type.      *)
ASSUME PublishedAssumption == 1 \in DOMAIN Published /\ DOMAIN Published = 1 .. Len(Published)
ASSUME KeysAssumption == \A p \in Products : IsFiniteSet(Keys(p))
ASSUME BatchAssumption == BatchSize > 0
ASSUME FallbacksAssumption ==
  \A d \in Fallbacks : \E tag \in {"text", "num", "bool", "list", "map"} : DOMAIN d = {tag}

VARIABLES
  day,          \* days since the start
  version,      \* what the server publishes now
  store,        \* localStorage: the entries "handshake", "switch", "config"
  life,         \* the page: "off", "asking" (handshake in flight), "answered",
                \* "serving" (Switch and Config are set up, others perhaps not),
                \* "on" (the plugins are listed), "closed"
  asked,        \* the day init() asked for the handshake, while it runs
  booted,       \* the day its plugins were set up
  held,         \* the modules init() holds: those of the cached handshake it
                \* sends along, then those of the answer
  mem,          \* for each product, the values of the cache in memory
  view,         \* for each product and key, what its listener knows
  subject,      \* the distinct id, as a number
  buffer, seen, \* ExposureTracker: rows to send, decisions already recorded
  gone,         \* history: the rows a flush has taken, and the rows lost
                \* with an identity or with a page
  reads,        \* history: what each subject has read
  unheard,      \* history: the subjects that Switch was not told of
  slowest,      \* history: the most days from a request to its routing
  eventCount

exposures == <<buffer, seen, gone, reads, unheard>>
page == <<life, asked, booted, held>>
vars == <<day, version, store, page, mem, view, subject, exposures, slowest, eventCount>>

Event == eventCount < MaxEvents /\ eventCount' = eventCount + 1
Readable == life \in {"serving", "on", "closed"}

Entry(values, at, confirmed) == [entry |-> "saved", values |-> values, at |-> at,
                                 confirmed |-> confirmed]
NothingHeld(d) == [values |-> Empty, confirmed |-> d]
NoListeners == [p \in Products |-> [k \in Keys(p) |-> NotSubscribed]]

Init ==
  /\ day = 0 /\ version = 1
  /\ store = [e \in Products \cup {"handshake"} |-> NoEntry]
  /\ life = "off" /\ asked = 0 /\ booted = 0
  /\ held = NoEntry
  /\ mem = [p \in Products |-> NothingHeld(0)]
  /\ view = NoListeners
  /\ subject = 1
  /\ buffer = {} /\ seen = {} /\ gone = {} /\ reads = {} /\ unheard = {}
  /\ slowest = 0
  /\ eventCount = 0

-----------------------------------------------------------------------------
(* The caches.                                                             *)

(* Mutant: an entry of any age is trusted. *)
TrustedForever(e) == e.entry = "saved"

Trusted(e) == e.entry = "saved" /\ day - e.at <= Window

Hydrated(p) ==
  IF Trusted(store[p])
  THEN [values |-> store[p].values, confirmed |-> store[p].confirmed]
  ELSE NothingHeld(day)

Cached(p, k) == IF k \in DOMAIN mem[p].values THEN mem[p].values[k] ELSE NoDecision
Resolve(p, k) ==
  IF Cached(p, k) # NoDecision THEN Cached(p, k)
  ELSE IF k \in DOMAIN Bundled[p] THEN Bundled[p][k] ELSE NoDecision

(* Mutant: only a new version counts as a change. *)
ChangedByVersion(p, incoming) ==
  {k \in DOMAIN incoming : Cached(p, k) = NoDecision \/ Cached(p, k).version # incoming[k].version}

Changed(p, incoming) == {k \in DOMAIN incoming : Cached(p, k) # incoming[k]}
Removed(p, incoming) == DOMAIN mem[p].values \ DOMAIN incoming

(* fireListeners: only the keys that changed or went are told.             *)
Told(p, incoming) ==
  [k \in Keys(p) |-> IF view[p][k] = NotSubscribed THEN NotSubscribed
                     ELSE IF k \in Changed(p, incoming) THEN incoming[k]
                     ELSE IF k \in Removed(p, incoming) THEN NoDecision
                     ELSE view[p][k]]

(* A slot or the cached handshake is written, unless the storage is full.  *)
Saves(entries) == store' = entries \/ UNCHANGED store

(* routeHandshake calls only the modules the payload enables; each         *)
(* replaces its values, dates its slot today, and tells its listeners.     *)
Applied(modules, confirmed) ==
  LET enabled == {p \in Products : modules[p] # Off}
  IN  /\ mem' = [p \in Products |->
                   IF p \in enabled THEN [values |-> modules[p], confirmed |-> confirmed] ELSE mem[p]]
      /\ view' = [p \in Products |-> IF p \in enabled THEN Told(p, modules[p]) ELSE view[p]]
      /\ Saves([e \in DOMAIN store |-> IF e \in enabled THEN Entry(modules[e], day, confirmed)
                                        ELSE store[e]])

-----------------------------------------------------------------------------
(* The page: init() and its handshake.                                     *)

(* The handshake is asked for, with what the client's own cache holds now. *)
(* There is no plugin yet, and nothing to read.                            *)
Boot ==
  /\ life = "off"
  /\ life' = "asking" /\ asked' = day
  /\ held' = IF Trusted(store["handshake"]) THEN store["handshake"] ELSE NoEntry
  /\ UNCHANGED <<day, version, store, booted, mem, view, subject, exposures, slowest, eventCount>>

(* The modules of the answer are kept, for later.                          *)
Answered(modules) ==
  /\ life = "asking"
  /\ life' = "answered" /\ held' = modules
  /\ UNCHANGED <<day, version, asked, booted, mem, view, subject, exposures, slowest, eventCount>>

HandshakeOk ==
  /\ Answered(Entry(version, day, day))
  /\ Saves([store EXCEPT !["handshake"] = Entry(version, day, day)])

(* 304: the server confirms the payload the request named by its etag.     *)
(* Neither the cached handshake nor its date is written.                   *)
HandshakeNotModified ==
  /\ held # NoEntry /\ held.values = version
  /\ Answered(Entry(version, held.at, day))
  /\ UNCHANGED store

(* Network down, or an error status: the cached handshake stands in.       *)
HandshakeUnavailable == Answered(held) /\ UNCHANGED store

(* A body that is no JSON: init() catches the error and goes on.           *)
HandshakeMalformed == Answered(NoEntry) /\ UNCHANGED store

(* After the replay config, where the answer has none, the plugins are set *)
(* up: Switch and Config hydrate, a corrupt slot is removed, and from now  *)
(* on they serve, while setups of other plugins may go on.                 *)
SetUp ==
  /\ life = "answered"
  /\ life' = "serving" /\ booted' = day
  /\ mem' = [p \in Products |-> Hydrated(p)]
  /\ view' = NoListeners
  /\ store' = [e \in DOMAIN store |->
                 IF e \in Products /\ store[e] = Corrupt THEN NoEntry ELSE store[e]]
  /\ UNCHANGED <<day, version, asked, held, subject, exposures, slowest, eventCount>>

(* All are set up: they are listed, and the modules routed to them.        *)
Route ==
  /\ life = "serving"
  /\ life' = "on" /\ held' = NoEntry /\ asked' = 0
  /\ slowest' = IF day - asked > slowest THEN day - asked ELSE slowest
  /\ IF held = NoEntry THEN UNCHANGED <<mem, view, store>>
     ELSE Applied(Published[held.values], held.confirmed)
  /\ UNCHANGED <<day, version, booted, subject, exposures, eventCount>>

Subscribe ==
  /\ life \in {"serving", "on"} /\ Event
  /\ \E p \in Products : \E k \in Keys(p) :
       /\ view[p][k] = NotSubscribed
       /\ view' = [view EXCEPT ![p][k] = Cached(p, k)]
  /\ UNCHANGED <<day, version, store, page, mem, subject, exposures, slowest>>

-----------------------------------------------------------------------------
(* The exposures.                                                          *)

DedupKey(k, d) == [key |-> k, value |-> d.value, variant |-> d.variant]
Row(k, d) == [subject |-> subject, decision |-> DedupKey(k, d)]

(* A flag is read: getFlag, getVariant and getDecision record alike; and   *)
(* Catch reads every known flag for the snapshot of a captured event. The  *)
(* first read of a decision adds a row, a full buffer goes out at once.    *)
(* Once the tracker is shut down no timer takes what is recorded.          *)
Read ==
  /\ Readable
  /\ \E keys \in {{k} : k \in Keys("switch")} \cup {Keys("switch")} :
       LET known == {k \in keys : Resolve("switch", k) # NoDecision}
           fresh == {k \in known : DedupKey(k, Resolve("switch", k)) \notin seen}
           filled == buffer \cup {Row(k, Resolve("switch", k)) : k \in fresh}
       IN  /\ reads' = reads \cup {Row(k, Resolve("switch", k)) : k \in known}
           /\ Cardinality(reads') <= MaxReads
           /\ seen' = seen \cup {DedupKey(k, Resolve("switch", k)) : k \in fresh}
           /\ IF Cardinality(filled) < BatchSize
              THEN buffer' = filled /\ UNCHANGED gone
              ELSE \E kept \in SUBSET filled :   \* what was read after the flush
                     /\ Cardinality(kept) = Cardinality(filled) % BatchSize
                     /\ kept \cap buffer = {}
                     /\ buffer' = kept /\ gone' = gone \cup (filled \ kept)
  /\ UNCHANGED <<day, version, store, page, mem, view, subject, unheard, slowest, eventCount>>

(* The interval, or the client's flush(). A post that fails is not         *)
(* repeated.                                                               *)
Flush ==
  /\ life \in {"serving", "on"} /\ buffer # {}
  /\ buffer' = {} /\ gone' = gone \cup buffer
  /\ UNCHANGED <<day, version, store, page, mem, view, subject, seen, reads, unheard, slowest,
                 eventCount>>

(* Mutant: what was recorded for one identity stays recorded for the next. *)
IdentityChangesSeen ==
  /\ life # "off" /\ Event
  /\ subject' = subject + 1
  /\ IF life = "on" THEN buffer' = {} /\ gone' = gone \cup buffer ELSE UNCHANGED <<buffer, gone>>
  /\ unheard' = IF life \in {"serving", "closed"} THEN unheard \cup {subject'} ELSE unheard
  /\ UNCHANGED <<day, version, store, page, mem, view, seen, reads, slowest>>

(* resetSession: the next subject's reads count again, and what the last   *)
(* one's had not been sent is dropped. The decisions stay. Only a plugin   *)
(* that is listed is told, and not one that was shut down.                 *)
IdentityChanges ==
  /\ life # "off" /\ Event
  /\ subject' = subject + 1
  /\ IF life = "on" THEN seen' = {} /\ buffer' = {} /\ gone' = gone \cup buffer
     ELSE UNCHANGED <<seen, buffer, gone>>
  /\ unheard' = IF life \in {"serving", "closed"} THEN unheard \cup {subject'} ELSE unheard
  /\ UNCHANGED <<day, version, store, page, mem, view, reads, slowest>>

(* The last batch leaves by beacon, or by fetch where there is none. While *)
(* the plugins are not listed shutdown() reaches none, and init() goes on. *)
Shutdown ==
  /\ life = "on"
  /\ life' = "closed"
  /\ buffer' = {} /\ gone' = gone \cup buffer
  /\ UNCHANGED <<day, version, store, asked, booted, held, mem, view, subject, seen, reads,
                 unheard, slowest, eventCount>>

(* The page goes away: a fresh tracker will start with the next one.       *)
Unload ==
  /\ life # "off"
  /\ life' = "off" /\ held' = NoEntry /\ asked' = 0 /\ booted' = 0
  /\ mem' = [p \in Products |-> NothingHeld(0)]
  /\ view' = NoListeners
  /\ seen' = {} /\ buffer' = {} /\ gone' = gone \cup buffer
  /\ UNCHANGED <<day, version, store, subject, reads, unheard, slowest, eventCount>>

-----------------------------------------------------------------------------
(* Typed reads of Config.                                                  *)

Kind(v) == CASE IsText(v) -> "string" [] IsNum(v) -> "number" [] IsBool(v) -> "boolean"
             [] IsList(v) -> "array" [] IsMap(v) -> "object"

(* Mutant: a value of the wrong kind is handed back. *)
CoerceMismatch(value, default) ==
  IF IsBool(default) /\ IsNum(value) THEN Bool(value.num # 0) ELSE value

(* coerceConfigValue: a boolean is also read from 0 and 1, "true", "1",    *)
(* "false" and "0"; otherwise only a value of the default's kind is.       *)
Coerce(value, default) ==
  CASE IsBool(default) /\ IsNum(value) -> Bool(value.num # 0)
    [] IsBool(default) /\ IsText(value) /\ value.text \in {"true", "1"} -> Bool(TRUE)
    [] IsBool(default) /\ IsText(value) /\ value.text \in {"false", "0"} -> Bool(FALSE)
    [] value # Undefined /\ Kind(value) = Kind(default) -> value
    [] OTHER -> default

Get(k, default) ==
  LET found == Resolve("config", k)
  IN  IF found = NoDecision THEN default ELSE Coerce(found.value, default)

-----------------------------------------------------------------------------
(* The world.                                                              *)

DayPasses ==
  /\ day < MaxDays
  /\ day' = day + 1
  /\ UNCHANGED <<version, store, page, mem, view, subject, exposures, slowest, eventCount>>

Publishes ==
  /\ version < Len(Published)
  /\ version' = version + 1
  /\ UNCHANGED <<day, store, page, mem, view, subject, exposures, slowest, eventCount>>

(* Another tab of the project boots and its handshake succeeds.            *)
OtherTabSaves ==
  /\ Event
  /\ store' = [e \in DOMAIN store |->
                 IF e = "handshake" THEN Entry(version, day, day)
                 ELSE IF Published[version][e] = Off THEN store[e]
                 ELSE Entry(Published[version][e], day, day)]
  /\ UNCHANGED <<day, version, page, mem, view, subject, exposures, slowest>>

(* An entry is no JSON, or was removed by the user.                        *)
StorageSpoiled ==
  /\ Event
  /\ \E e \in DOMAIN store, bad \in {NoEntry, Corrupt} : store' = [store EXCEPT ![e] = bad]
  /\ UNCHANGED <<day, version, page, mem, view, subject, exposures, slowest>>

Next ==
  \/ Boot \/ HandshakeOk \/ HandshakeNotModified \/ HandshakeUnavailable \/ HandshakeMalformed
  \/ SetUp \/ Route \/ Subscribe \/ Read \/ Flush \/ IdentityChanges \/ Shutdown \/ Unload
  \/ DayPasses \/ Publishes \/ OtherTabSaves \/ StorageSpoiled

Spec == Init /\ [][Next]_vars

-----------------------------------------------------------------------------
(* Properties.                                                             *)

(* The state has the shape of the code's fields; and get() never hands the *)
(* host a value of another kind than the default it was called with.       *)
TypeOK ==
  /\ day \in 0 .. MaxDays /\ asked \in 0 .. day /\ booted \in 0 .. day
  /\ version \in DOMAIN Published
  /\ life \in {"off", "asking", "answered", "serving", "on", "closed"}
  /\ \A p \in Products : mem[p].values \in Payloads(p) \cup {Empty} /\ mem[p].confirmed \in 0 .. day
  /\ \A e \in DOMAIN store : store[e].entry = "saved" => store[e].confirmed \in 0 .. day
  /\ Cardinality(buffer) <= BatchSize
  /\ \A k \in Keys("config"), d \in Fallbacks : Kind(Get(k, d)) = Kind(d)

(* Whoever subscribed to a key knows the decision the cache holds, through *)
(* every handshake, stale, offline or new, that changes, adds or removes   *)
(* keys under it.                                                          *)
ListenersAgree ==
  \A p \in Products : \A k \in Keys(p) : view[p][k] \in {NotSubscribed, Cached(p, k)}

(* A decision that a subject read is reported, under the id of the moment  *)
(* of the read: it is in the buffer or was handed to a post, unless it was *)
(* pending when the identity changed or the page went away. The exception  *)
(* is a subject Switch was not told of, as identify() came while plugins   *)
(* were being set up, or after the shutdown: what was recorded for the one *)
(* before counts as recorded.                                              *)
SubjectsExposed ==
  \A r \in reads : r.subject \notin unheard => r \in buffer \cup gone

(* What plugins serve when they are set up was confirmed by the server at  *)
(* most two windows ago, and the time an init() took from its request to   *)
(* the routing of the answer: a slot is at most one window old, and its    *)
(* payload may be of a cached handshake that was one window old when the   *)
(* request was made, while the slot is dated by the routing.               *)
AgeAtBoot(p) == booted - mem[p].confirmed
ServedWithinTwoWindows == \A p \in Products : AgeAtBoot(p) <= 2 * Window + slowest
=============================================================================
