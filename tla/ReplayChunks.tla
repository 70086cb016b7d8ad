---------------------------- MODULE ReplayChunks ----------------------------
(***************************************************************************)
(* The chunks of the session replay                                        *)
(* (packages/replay-rrweb/src/index.ts): recorded events collect in a      *)
(* buffer, the buffer is cut into numbered chunks, the chunks wait in a    *)
(* persistent queue that all tabs of the origin share, and one drain per   *)
(* page uploads them.  The number of the next chunk of a session survives  *)
(* a page load in sessionStorage, which every tab has for itself; the      *)
(* session is in localStorage, which the tabs share (browser session.ts).  *)
(*                                                                         *)
(* Every entry point runs up to its first await at once and goes on later: *)
(* a call is a place in flushBufferedChunk or in the drain it awaits, and  *)
(* todo holds the steps its entry point takes after that.  The order in    *)
(* which calls that wait for one drain go on is left open.                 *)
(*                                                                         *)
(* Recording is on all the time (no sampling), and IndexedDB works.        *)
(***************************************************************************)
EXTENDS Sequences, Functions, PersistentQueue

CONSTANTS
  Tab,
  Call,        \* bound: the calls of a page that can be under way at a time
  Session,     \* bound: the session ids of a behaviour
  Event,       \* recorded events
  MaxEvents,   \* maxEventsPerChunk
  DrainLimit,  \* rows a drain reads: queue.getAll(10)
  MaxLoads,    \* bound: page loads after the first
  Nobody,      \* uploadInFlight = null
  NoSession    \* bufferSessionId = null

ASSUME MaxEventsAssumption == MaxEvents \in Nat \ {0, 1}
ASSUME DrainLimitAssumption == DrainLimit \in Nat \ {0}
ASSUME MaxLoadsAssumption == MaxLoads \in Nat
ASSUME NobodyAssumption == Nobody \notin Call
ASSUME NoSessionAssumption == NoSession \notin Session

VARIABLES
  \* the session manager
  session,     \* session[t]: the session a page is in
  saved,       \* the session in localStorage, and whether a page was hidden
  used,        \* the sessions that have begun
  \* the plugin of each page
  buffer,      \* buffer[t]: recorded events, each with its true session
  bufSession,  \* bufSession[t]: bufferSessionId
  index,       \* index[t]: chunkIndex
  counter,     \* counter[<<t, s>>]: sessionStorage, 0 where there is no item
  uploader,    \* uploader[t]: the call that drains, uploadInFlight
  \* the calls of each page
  pc, adding, rows, todo,
  store,       \* the queue in IndexedDB
  \* environment and history
  loads,       \* page loads so far
  cut,         \* all chunks cut so far
  received,    \* chunks the server has
  missed,      \* events that died with a page before they were stored
  dup,         \* chunks the server has several copies of
  suspect,     \* chunks that may be sent twice, and for a good reason
  silent,      \* sessions a page went over to without telling the plugin
  confused     \* sessions whose numbering a page no longer follows

sessionVars == <<session, saved, used>>
bufferVars == <<buffer, bufSession, index, counter, cut>>
callVars == <<pc, adding, rows, todo>>
serverVars == <<received, dup, suspect>>
historyVars == <<missed, silent, confused>>
vars == <<sessionVars, bufferVars, uploader, callVars, store, loads,
          serverVars, historyVars>>

Running == Tab \X Call
Recorded == Event \X Session
Chunk == [tab : Tab, session : Session, index : Nat, events : SUBSET Recorded]

(* add: awaits queue.add; read, post, delete: awaits of the drain; wait:   *)
(* awaits the drain of another call; next: the next step of todo is due.   *)
Stage == {"idle", "add", "read", "post", "delete", "wait", "next"}

FlushBuffered == <<"flushBufferedChunk">>
FlushPersisted == <<"flushPersistedChunks">>
StartSession == <<"startNewSession">>
Adopt(s) == <<"adopt", s>>
Step == {FlushBuffered, FlushPersisted, StartSession}
          \union {Adopt(s) : s \in Session}

Init ==
  /\ \E s \in Session :
       /\ session = [t \in Tab |-> s]
       /\ saved = [id |-> s, background |-> FALSE]
       /\ used = {s}
  /\ buffer = [t \in Tab |-> {}]
  /\ bufSession = [t \in Tab |-> NoSession]
  /\ index = [t \in Tab |-> 0]
  /\ counter = [k \in Tab \X Session |-> 0]
  /\ uploader = [t \in Tab |-> Nobody]
  /\ pc = [r \in Running |-> "idle"]
  /\ adding = [r \in Running |-> {}]
  /\ rows = [r \in Running |-> {}]
  /\ todo = [r \in Running |-> <<>>]
  /\ store = EmptyStore
  /\ loads = 0
  /\ cut = {}
  /\ received = {}
  /\ missed = {}
  /\ dup = {}
  /\ suspect = {}
  /\ silent = {}
  /\ confused = {}
-----------------------------------------------------------------------------
(* The session manager.  refresh() takes the session of localStorage, or a *)
(* fresh one if a page was hidden long ago; only startNewSession forgets   *)
(* that one was.                                                           *)
Begin(t, s) ==
  /\ s \notin used
  /\ session' = [session EXCEPT ![t] = s]
  /\ saved' = [id |-> s, background |-> FALSE]
  /\ used' = used \union {s}

(* Bound: a session id is left beside those that resets under way will     *)
(* take.                                                                   *)
SessionLeft ==
  LET resets == {r \in Running : StartSession \in Range(todo[r])}
  IN  Cardinality(resets) < Cardinality(Session \ used)

Refresh(t, s) ==
  \/ /\ s = saved.id
     /\ session' = [session EXCEPT ![t] = s]
     /\ UNCHANGED <<saved, used>>
  \/ /\ saved.background
     /\ SessionLeft
     /\ Begin(t, s)

(* initialChunkIndex(): the number after the last one the tab gave out.    *)
StoredIndex(t, s) == counter[<<t, s>>]

(* A page comes back to a session it has cut chunks of.                    *)
Returned(t, s) == IF counter[<<t, s>>] > 0 THEN {s} ELSE {}
-----------------------------------------------------------------------------
(* A continuation that awaits nothing more runs before the next task of    *)
(* its page (events are recorded in tasks of their own); only client.reset *)
(* has the network between its flush and the new session.                  *)
Settled(t) ==
  \A c \in Call : pc[<<t, c>>] = "next" => Head(todo[<<t, c>>]) = StartSession

Proceed(r, rest) ==
  /\ pc' = [pc EXCEPT ![r] = IF rest = <<>> THEN "idle" ELSE "next"]
  /\ todo' = [todo EXCEPT ![r] = rest]

(* Mutant: the stored number goes up, chunkIndex does not.                 *)
CutSameIndex(r, b, s, rest) ==
  LET t == r[1]
      new == [tab |-> t, session |-> s, index |-> index[t], events |-> b]
  IN  /\ counter' = [counter EXCEPT ![<<t, s>>] = index[t] + 1]
      /\ cut' = cut \union {new}
      /\ pc' = [pc EXCEPT ![r] = "add"]
      /\ adding' = [adding EXCEPT ![r] = {new}]
      /\ todo' = [todo EXCEPT ![r] = rest]
      /\ UNCHANGED <<index, rows>>

(* flushBufferedChunk up to its first await, for a buffer b of session s:  *)
(* the chunk takes its number, the number of the next one is stored, and   *)
(* queue.add begins.                                                       *)
CutChunk(r, b, s, rest) ==
  LET t == r[1]
      new == [tab |-> t, session |-> s, index |-> index[t], events |-> b]
  IN  /\ index' = [index EXCEPT ![t] = @ + 1]
      /\ counter' = [counter EXCEPT ![<<t, s>>] = index[t] + 1]
      /\ cut' = cut \union {new}
      /\ pc' = [pc EXCEPT ![r] = "add"]
      /\ adding' = [adding EXCEPT ![r] = {new}]
      /\ todo' = [todo EXCEPT ![r] = rest]
      /\ UNCHANGED rows

(* flushBufferedChunk called with the buffer as it is.                     *)
FlushBuffer(r, rest) ==
  LET t == r[1]
  IN  \/ /\ buffer[t] # {}
         /\ CutChunk(r, buffer[t], bufSession[t], rest)
         /\ buffer' = [buffer EXCEPT ![t] = {}]
         /\ bufSession' = [bufSession EXCEPT ![t] = NoSession]
      \/ /\ buffer[t] = {}
         /\ Proceed(r, rest)
         /\ UNCHANGED <<bufferVars, adding, rows>>

(* Mutant: every flush drains for itself.                                  *)
DrainWithoutMutex(r, rest) ==
  /\ todo' = [todo EXCEPT ![r] = rest]
  /\ uploader' = [uploader EXCEPT ![r[1]] = r[2]]
  /\ pc' = [pc EXCEPT ![r] = "read"]

(* flushPersistedChunks: join the drain under way, or start one.           *)
Drain(r, rest) ==
  LET t == r[1]
  IN  /\ todo' = [todo EXCEPT ![r] = rest]
      /\ \/ /\ uploader[t] = Nobody
            /\ uploader' = [uploader EXCEPT ![t] = r[2]]
            /\ pc' = [pc EXCEPT ![r] = "read"]
         \/ /\ uploader[t] # Nobody
            /\ pc' = [pc EXCEPT ![r] = "wait"]
            /\ UNCHANGED uploader

(* The drain ends, and with it the wait of all that joined it.             *)
EndDrain(r) ==
  LET over == {w \in Running : w[1] = r[1] /\ (w = r \/ pc[w] = "wait")}
  IN  /\ uploader' = [uploader EXCEPT ![r[1]] = Nobody]
      /\ rows' = [rows EXCEPT ![r] = {}]
      /\ pc' = [w \in Running |->
                  IF w \notin over THEN pc[w]
                  ELSE IF todo[w] = <<>> THEN "idle" ELSE "next"]
-----------------------------------------------------------------------------
(* Recording.                                                              *)
EventsOf(chunks) == UNION {x.events : x \in chunks}
Buffered == UNION {buffer[t] : t \in Tab}
Unrecorded(e) ==
  \A x \in Buffered \union EventsOf(cut) \union missed : x[1] # e

(* emit() and pushHeatmapEvent(): the first event of a buffer gives it its *)
(* session, and a full buffer is flushed.                                  *)
Emit(t, e) ==
  LET b == buffer[t] \union {<<e, session[t]>>}
      s == IF buffer[t] = {} THEN session[t] ELSE bufSession[t]
  IN  /\ Settled(t)
      /\ Unrecorded(e)
      /\ \/ /\ Cardinality(b) < MaxEvents
            /\ buffer' = [buffer EXCEPT ![t] = b]
            /\ bufSession' = [bufSession EXCEPT ![t] = s]
            /\ UNCHANGED <<index, counter, cut, callVars>>
         \/ /\ Cardinality(b) >= MaxEvents
            /\ \E c \in Call : /\ pc[<<t, c>>] = "idle"
                               /\ CutChunk(<<t, c>>, b, s, <<>>)
            /\ buffer' = [buffer EXCEPT ![t] = {}]
            /\ bufSession' = [bufSession EXCEPT ![t] = NoSession]
      /\ UNCHANGED <<sessionVars, uploader, store, loads, serverVars,
                     historyVars>>

(* emit() with a checkout: what is in the buffer goes first.               *)
EmitCheckout(t, c, e) ==
  /\ Settled(t)
  /\ Unrecorded(e)
  /\ buffer[t] # {}
  /\ pc[<<t, c>>] = "idle"
  /\ CutChunk(<<t, c>>, buffer[t], bufSession[t], <<>>)
  /\ buffer' = [buffer EXCEPT ![t] = {<<e, session[t]>>}]
  /\ bufSession' = [bufSession EXCEPT ![t] = session[t]]
  /\ UNCHANGED <<sessionVars, uploader, store, loads, serverVars,
                 historyVars>>

(* The interval of the plugin.                                             *)
Timer(t, c) ==
  /\ Settled(t)
  /\ pc[<<t, c>>] = "idle"
  /\ buffer[t] # {}
  /\ FlushBuffer(<<t, c>>, <<>>)
  /\ UNCHANGED <<sessionVars, uploader, store, loads, serverVars,
                 historyVars>>

(* The flush hook: the interval of the client, and pagehide.               *)
FlushHook(t, c) ==
  /\ Settled(t)
  /\ pc[<<t, c>>] = "idle"
  /\ FlushBuffer(<<t, c>>, <<FlushPersisted>>)
  /\ UNCHANGED <<sessionVars, uploader, store, loads, serverVars,
                 historyVars>>
-----------------------------------------------------------------------------
(* Session changes.                                                        *)

(* visibilitychange to hidden: the page saves its own session, and flushes.*)
Hide(t, c) ==
  /\ Settled(t)
  /\ pc[<<t, c>>] = "idle"
  /\ saved' = [id |-> session[t], background |-> TRUE]
  /\ FlushBuffer(<<t, c>>, <<FlushPersisted>>)
  /\ UNCHANGED <<session, used, uploader, store, loads, serverVars,
                 historyVars>>

(* visibilitychange to visible: the session may change, the plugins are    *)
(* not told.                                                               *)
Show(t) ==
  /\ Settled(t)
  /\ \E s \in Session \ {session[t]} :
       /\ Refresh(t, s)
       /\ silent' = silent \union {s}
       /\ confused' = confused \union Returned(t, s)
  /\ UNCHANGED <<bufferVars, uploader, callVars, store, loads, serverVars,
                 missed>>

(* Mutant: onSessionChange does not flush.                                 *)
TouchWithoutFlush(t, c) ==
  /\ Settled(t)
  /\ pc[<<t, c>>] = "idle"
  /\ \E s \in Session \ {session[t]} :
       /\ Refresh(t, s)
       /\ Proceed(<<t, c>>, <<Adopt(s)>>)
       /\ confused' = confused \union Returned(t, s)
  /\ UNCHANGED <<bufferVars, uploader, adding, rows, store, loads,
                 serverVars, missed, silent>>

(* touchSession: the plugins are told, and onSessionChange runs.           *)
Touch(t, c) ==
  /\ Settled(t)
  /\ pc[<<t, c>>] = "idle"
  /\ \E s \in Session \ {session[t]} :
       /\ Refresh(t, s)
       /\ FlushBuffer(<<t, c>>, <<Adopt(s)>>)
       /\ confused' = confused \union Returned(t, s)
  /\ UNCHANGED <<uploader, store, loads, serverVars, missed, silent>>

(* client.reset() up to its first await, the flush.                        *)
Reset(t, c) ==
  /\ Settled(t)
  /\ pc[<<t, c>>] = "idle"
  /\ SessionLeft
  /\ FlushBuffer(<<t, c>>, <<FlushPersisted, StartSession>>)
  /\ UNCHANGED <<sessionVars, uploader, store, loads, serverVars,
                 historyVars>>
-----------------------------------------------------------------------------
(* What a call does when it is its turn again.                             *)
Due(r, step) == pc[r] = "next" /\ Head(todo[r]) = step

ResumeFlush(r) ==
  /\ Due(r, FlushBuffered)
  /\ FlushBuffer(r, Tail(todo[r]))
  /\ UNCHANGED <<sessionVars, uploader, store, loads, serverVars,
                 historyVars>>

ResumeDrain(r) ==
  /\ Due(r, FlushPersisted)
  /\ Drain(r, Tail(todo[r]))
  /\ UNCHANGED <<sessionVars, bufferVars, adding, rows, store, loads,
                 serverVars, historyVars>>

(* client.reset() after its flush: a new session, then the two hooks of    *)
(* the plugin one after the other, each of which flushes first.            *)
ResumeReset(r) ==
  /\ Due(r, StartSession)
  /\ Settled(r[1])
  /\ \E s \in Session :
       /\ Begin(r[1], s)
       /\ FlushBuffer(r, <<FlushBuffered, Adopt(s)>>)
  /\ UNCHANGED <<uploader, store, loads, serverVars, historyVars>>

(* onSessionChange after its flush: chunkIndex is the stored number of the *)
(* session it was told of, which need not be the current one any more.     *)
ResumeAdopt(r) ==
  LET t == r[1]
  IN  \E s \in Session :
        /\ Due(r, Adopt(s))
        /\ index' = [index EXCEPT ![t] = StoredIndex(t, s)]
        /\ Proceed(r, Tail(todo[r]))
        /\ confused' = confused \union
                         ({session[t], bufSession[t]} \ {s, NoSession})
        /\ UNCHANGED <<sessionVars, buffer, bufSession, counter, cut, uploader,
                       adding, rows, store, loads, serverVars, missed, silent>>
-----------------------------------------------------------------------------
(* The awaits of a flush.                                                  *)
AddDone(r) ==
  /\ Settled(r[1])
  /\ pc[r] = "add"
  /\ \E x \in adding[r] : store' = Add(store, x)
  /\ adding' = [adding EXCEPT ![r] = {}]
  /\ Drain(r, todo[r])
  /\ UNCHANGED <<sessionVars, bufferVars, rows, loads, serverVars,
                 historyVars>>

(* The chunks the drains of the other pages have in their hands.           *)
HeldElsewhere(t) ==
  UNION {Values(rows[r]) : r \in {q \in Running : q[1] # t}}

ReadDone(r) ==
  /\ Settled(r[1])
  /\ pc[r] = "read"
  /\ LET read == GetAll(store, DrainLimit)
     IN  \/ /\ read = {}
            /\ EndDrain(r)
            /\ UNCHANGED suspect
         \/ /\ read # {}
            /\ rows' = [rows EXCEPT ![r] = read]
            /\ pc' = [pc EXCEPT ![r] = "post"]
            /\ suspect' = suspect
                            \union (Values(read) \intersect HeldElsewhere(r[1]))
            /\ UNCHANGED uploader
  /\ UNCHANGED <<sessionVars, bufferVars, adding, todo, store, loads,
                 received, dup, historyVars>>

(* The chunk under way is the oldest of those the drain still has.         *)
Oldest(r) == {x \in rows[r] : \A y \in rows[r] : x.id <= y.id}

Receive(chunks) ==
  /\ received' = received \union chunks
  /\ dup' = dup \union (chunks \intersect received)

PostOk(r) ==
  /\ Settled(r[1])
  /\ pc[r] = "post"
  /\ Receive(Values(Oldest(r)))
  /\ pc' = [pc EXCEPT ![r] = "delete"]
  /\ UNCHANGED <<sessionVars, bufferVars, uploader, adding, rows, todo, store,
                 loads, suspect, historyVars>>

PostRejected(r) ==
  /\ Settled(r[1])
  /\ pc[r] = "post"
  /\ EndDrain(r)
  /\ UNCHANGED <<sessionVars, bufferVars, adding, todo, store, loads,
                 serverVars, historyVars>>

(* No response: the chunk may or may not have reached the server.          *)
PostFailed(r) ==
  /\ Settled(r[1])
  /\ pc[r] = "post"
  /\ \/ /\ Receive(Values(Oldest(r)))
        /\ suspect' = suspect \union Values(Oldest(r))
     \/ UNCHANGED serverVars
  /\ EndDrain(r)
  /\ UNCHANGED <<sessionVars, bufferVars, adding, todo, store, loads,
                 historyVars>>

(* Mutant: the chunk that was sent stays in the store.                     *)
SentChunkKept(r) ==
  /\ Settled(r[1])
  /\ pc[r] = "delete"
  /\ EndDrain(r)
  /\ UNCHANGED <<sessionVars, bufferVars, adding, todo, store, loads,
                 serverVars, historyVars>>

(* Mutant: one upload deletes all the rows that were read.                 *)
WholeReadDeleted(r) ==
  /\ Settled(r[1])
  /\ pc[r] = "delete"
  /\ store' = DeleteMany(store, Ids(rows[r]))
  /\ EndDrain(r)
  /\ UNCHANGED <<sessionVars, bufferVars, adding, todo, loads, serverVars,
                 historyVars>>

Deleted(r) ==
  /\ Settled(r[1])
  /\ pc[r] = "delete"
  /\ store' = DeleteMany(store, Ids(Oldest(r)))
  /\ \/ /\ rows[r] = Oldest(r)
        /\ EndDrain(r)
     \/ /\ rows[r] # Oldest(r)
        /\ rows' = [rows EXCEPT ![r] = @ \ Oldest(r)]
        /\ pc' = [pc EXCEPT ![r] = "post"]
        /\ UNCHANGED uploader
  /\ UNCHANGED <<sessionVars, bufferVars, adding, todo, loads, serverVars,
                 historyVars>>
-----------------------------------------------------------------------------
(* A page load in the same tab: the buffer and the calls are gone, the     *)
(* session is refreshed and the numbering read back.  An add or a POST     *)
(* that was under way and took effect is AddDone or PostOk before the load.*)
Navigate(t) ==
  LET calls == {r \in Running : r[1] = t}
      sent == {r \in calls : pc[r] \in {"post", "delete"}}
  IN  /\ Settled(t)
      /\ loads < MaxLoads
      /\ loads' = loads + 1
      /\ \E s \in Session :
           /\ Refresh(t, s)
           /\ index' = [index EXCEPT ![t] = StoredIndex(t, s)]
      /\ missed' = missed \union buffer[t]
                     \union EventsOf(UNION {adding[r] : r \in calls})
      /\ suspect' = suspect \union UNION {Values(Oldest(r)) : r \in sent}
      /\ buffer' = [buffer EXCEPT ![t] = {}]
      /\ bufSession' = [bufSession EXCEPT ![t] = NoSession]
      /\ uploader' = [uploader EXCEPT ![t] = Nobody]
      /\ pc' = [r \in Running |-> IF r \in calls THEN "idle" ELSE pc[r]]
      /\ adding' = [r \in Running |-> IF r \in calls THEN {} ELSE adding[r]]
      /\ rows' = [r \in Running |-> IF r \in calls THEN {} ELSE rows[r]]
      /\ todo' = [r \in Running |-> IF r \in calls THEN <<>> ELSE todo[r]]
      /\ UNCHANGED <<counter, cut, store, received, dup, silent, confused>>
-----------------------------------------------------------------------------
CallStep(r) ==
  \/ ResumeFlush(r)
  \/ ResumeDrain(r)
  \/ ResumeReset(r)
  \/ ResumeAdopt(r)
  \/ AddDone(r)
  \/ ReadDone(r)
  \/ PostOk(r)
  \/ PostRejected(r)
  \/ PostFailed(r)
  \/ Deleted(r)

Start(t, c) ==
  \/ \E e \in Event : EmitCheckout(t, c, e)
  \/ Timer(t, c)
  \/ FlushHook(t, c)
  \/ Hide(t, c)
  \/ Touch(t, c)
  \/ Reset(t, c)

Next ==
  \/ \E t \in Tab : \/ \E e \in Event : Emit(t, e)
                    \/ Show(t)
                    \/ Navigate(t)
                    \/ \E c \in Call : Start(t, c)
  \/ \E r \in Running : CallStep(r)

Spec == Init /\ [][Next]_vars

-----------------------------------------------------------------------------
(***************************************************************************)
(* Properties                                                              *)
(***************************************************************************)
(* Two chunks of a session with the same number ("restarting at 0 per      *)
(* page makes chunk_index collide across page loads within one session,    *)
(* which scrambles manifests ordered by index", index.ts:174-176).         *)
Collide(x, y) == x # y /\ x.session = y.session /\ x.index = y.index

(* What the numbering does guarantee: within one tab, across its page      *)
(* loads, two chunks collide only in a session that the tab came back to   *)
(* after another one, or whose turn had come when the plugin adopted an    *)
(* older one.                                                              *)
CollisionsExplained ==
  \A x, y \in cut :
    Collide(x, y) => x.tab # y.tab \/ x.session \in confused

(* A chunk holds events of its own session only (index.ts:799: "Flush the  *)
(* buffer under the snapshot it was recorded with"), but for those         *)
(* recorded after a change of the session that the plugin was not told of. *)
Attributed ==
  \A x \in cut : \A e \in x.events : e[2] = x.session \/ e[2] \in silent

(* The server gets a second copy of a chunk only where one cannot be       *)
(* avoided: an answer that never came, a page that went away between the   *)
(* POST and the delete, or two tabs that read the same row; never from two *)
(* flushes of one page (the mutex of index.ts:714-727).                    *)
DuplicatesExplained == dup \subseteq suspect

Stored == Values(store.rows)
Adding == UNION {adding[r] : r \in Running}
Waiting == (Buffered \union EventsOf(Adding \union Stored))
             \ EventsOf(received)

(* The recorder implements at-least-once delivery of events: whatever is   *)
(* buffered, being stored or stored is pending, and only a page that goes  *)
(* away gives up what it had not stored.                                   *)
Delivery == INSTANCE AtLeastOnce
              WITH Item <- Recorded, pending <- Waiting,
                   received <- EventsOf(received), lost <- missed
ImplementsAtLeastOnce == Delivery!Spec
=============================================================================
