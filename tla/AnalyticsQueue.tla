--------------------------- MODULE AnalyticsQueue ---------------------------
(***************************************************************************)
(* The analytics queue: SankofaQueueManager (packages/browser/src/queue.ts)*)
(* over the persistent queue (packages/browser/src/storage.ts), run by     *)
(* several pages of one origin that share a single IndexedDB store.        *)
(*                                                                         *)
(* JavaScript is single threaded, so a step is the code between two        *)
(* awaits.  A transaction of the store works or falls back to the memory   *)
(* store of its page (every method of storage.ts is one try/catch); the    *)
(* constant Reach says which stores the transactions of a page end up in.  *)
(* A flush call is identified by a member of Call: any number of flush()   *)
(* promises can be under way, and which of them drives the send loop is    *)
(* what `flushInFlight` decides.                                           *)
(***************************************************************************)
EXTENDS Naturals, FiniteSets, PersistentQueue

CONSTANTS
  Tab,          \* pages of the origin, each with one queue manager
  Call,         \* identities of flush() calls within a page
  Op,           \* analytics operations (track, people, alias)
  BatchSize,    \* MAX_BATCH_SIZE
  IndexedDB,    \* the object store all pages share
  Reach,        \* Reach[t]: stores the transactions of page t may end up in
  MaxClosures,  \* bound: how many pages are closed in a behaviour
  NoCall        \* flushInFlight = null

ASSUME BatchSizeAssumption == BatchSize \in Nat \ {0}
ASSUME IndexedDBAssumption == IndexedDB \notin Tab
ASSUME ReachAssumption ==
  /\ DOMAIN Reach = Tab
  /\ \A t \in Tab : Reach[t] \in {{IndexedDB}, {t}, {IndexedDB, t}}
ASSUME NoCallAssumption == NoCall \notin Call
ASSUME MaxClosuresAssumption == MaxClosures \in Nat

VARIABLES
  store,        \* store[IndexedDB] and store[t], the memory store of page t
  \* the queue manager of each page
  inFlight,     \* flushInFlight: the call that drives the loop, or NoCall
  again,        \* needsAnotherFlush
  pc,           \* pc[<<t, c>>]: where call c of page t is
  batch,        \* batch[<<t, c>>]: `rows` of the send loop
  lastResult,   \* status.lastResult
  sent,         \* status.successfulOperations
  \* environment
  open,         \* is the page open?
  closures,     \* pages closed so far
  received,     \* operations the server has a copy of
  \* history
  accepted,     \* operations whose enqueue() has resolved
  lost,         \* operations that died with a page's memory
  dup,          \* operations the server has several copies of
  suspect       \* operations that may be sent twice, and for a good reason

managerVars == <<inFlight, again, pc, batch, lastResult, sent>>
pageVars == <<open, closures>>
historyVars == <<accepted, lost, dup, suspect>>
vars == <<store, managerVars, pageVars, received, historyVars>>

Place == Tab \union {IndexedDB}
Loop == Tab \X Call

(* idle: not running; read: awaits getAll; fetch: awaits the POST;         *)
(* delete: awaits deleteMany; settled: the loop is over and the `finally`  *)
(* that clears flushInFlight is still queued as a microtask.               *)
Stage == {"idle", "read", "fetch", "delete", "settled"}

Sending(l) == pc[l] \in {"fetch", "delete"}

Init ==
  /\ store = [p \in Place |-> EmptyStore]
  /\ inFlight = [t \in Tab |-> NoCall]
  /\ again = [t \in Tab |-> FALSE]
  /\ pc = [l \in Loop |-> "idle"]
  /\ batch = [l \in Loop |-> {}]
  /\ lastResult = [t \in Tab |-> "none"]
  /\ sent = [t \in Tab |-> 0]
  /\ open = [t \in Tab |-> TRUE]
  /\ closures = 0
  /\ received = {}
  /\ accepted = {}
  /\ lost = {}
  /\ dup = {}
  /\ suspect = {}
-----------------------------------------------------------------------------
Enqueue(t, op) ==
  /\ open[t]
  /\ op \notin accepted
  /\ \E p \in Reach[t] : store' = [store EXCEPT ![p] = Add(@, op)]
  /\ accepted' = accepted \union {op}
  /\ UNCHANGED <<managerVars, pageVars, received, lost, dup, suspect>>
-----------------------------------------------------------------------------
(* flush(): join the loop under way, or become its driver.                 *)
JoinFlush(t) ==
  /\ open[t]
  /\ inFlight[t] # NoCall
  /\ again' = [again EXCEPT ![t] = TRUE]
  /\ UNCHANGED <<store, inFlight, pc, batch, lastResult, sent,
                 pageVars, received, historyVars>>

(* Mutant: flush() does not look at flushInFlight.                         *)
StartFlushBlindly(t, c) ==
  /\ open[t]
  /\ pc[<<t, c>>] = "idle"
  /\ inFlight' = [inFlight EXCEPT ![t] = c]
  /\ again' = [again EXCEPT ![t] = FALSE]
  /\ pc' = [pc EXCEPT ![<<t, c>>] = "read"]
  /\ UNCHANGED <<store, batch, lastResult, sent, pageVars, received,
                 historyVars>>

StartFlush(t, c) ==
  /\ open[t]
  /\ inFlight[t] = NoCall
  /\ pc[<<t, c>>] = "idle"
  /\ inFlight' = [inFlight EXCEPT ![t] = c]
  /\ again' = [again EXCEPT ![t] = FALSE]
  /\ pc' = [pc EXCEPT ![<<t, c>>] = "read"]
  /\ UNCHANGED <<store, batch, lastResult, sent, pageVars, received,
                 historyVars>>

(* Leaving the inner while: `while (this.needsAnotherFlush)` decides, and  *)
(* another round begins by clearing the flag.                              *)
EndRound(t, c) ==
  /\ batch' = [batch EXCEPT ![<<t, c>>] = {}]
  /\ pc' = [pc EXCEPT ![<<t, c>>] = IF again[t] THEN "read" ELSE "settled"]
  /\ again' = [again EXCEPT ![t] = FALSE]

(* Operations another page has in its hands right now.                     *)
HeldElsewhere(t) ==
  UNION {Values(batch[l]) : l \in {k \in Loop : k[1] # t /\ Sending(k)}}

(* The rows arrive; none left ends the round, some start a POST.           *)
ReadRows(t, c) ==
  /\ pc[<<t, c>>] = "read"
  /\ \E p \in Reach[t] :
       LET rows == GetAll(store[p], BatchSize)
       IN  IF rows = {}
           THEN EndRound(t, c) /\ UNCHANGED suspect
           ELSE /\ batch' = [batch EXCEPT ![<<t, c>>] = rows]
                /\ pc' = [pc EXCEPT ![<<t, c>>] = "fetch"]
                /\ suspect' = suspect
                              \union (Values(rows) \intersect HeldElsewhere(t))
                /\ UNCHANGED again
  /\ UNCHANGED <<store, inFlight, lastResult, sent, pageVars, received,
                 accepted, lost, dup>>

(* The server takes a batch, operation by operation, known or not.         *)
Receive(ops) ==
  /\ received' = received \union ops
  /\ dup' = dup \union (ops \intersect received)

FetchOk(t, c) ==
  /\ pc[<<t, c>>] = "fetch"
  /\ Receive(Values(batch[<<t, c>>]))
  /\ pc' = [pc EXCEPT ![<<t, c>>] = "delete"]
  /\ UNCHANGED <<store, inFlight, again, batch, lastResult, sent,
                 pageVars, accepted, lost, suspect>>

(* Mutant: response.ok is not looked at.                                   *)
RejectedTakenForOk(t, c) ==
  /\ pc[<<t, c>>] = "fetch"
  /\ pc' = [pc EXCEPT ![<<t, c>>] = "delete"]
  /\ UNCHANGED <<store, inFlight, again, batch, lastResult, sent,
                 pageVars, received, historyVars>>

(* A response that is not ok: the server took nothing.                     *)
FetchRejected(t, c) ==
  /\ pc[<<t, c>>] = "fetch"
  /\ lastResult' = [lastResult EXCEPT ![t] = "error"]
  /\ EndRound(t, c)
  /\ UNCHANGED <<store, inFlight, sent, pageVars, received,
                 historyVars>>

(* No response: the request may or may not have reached the server.        *)
FetchFailed(t, c) ==
  /\ pc[<<t, c>>] = "fetch"
  /\ \/ /\ Receive(Values(batch[<<t, c>>]))
        /\ suspect' = suspect \union Values(batch[<<t, c>>])
     \/ UNCHANGED <<received, dup, suspect>>
  /\ lastResult' = [lastResult EXCEPT ![t] = "error"]
  /\ EndRound(t, c)
  /\ UNCHANGED <<store, inFlight, sent, pageVars, accepted, lost>>

(* Mutant: the rows that were sent stay in the store.                      *)
SentRowsKept(t, c) ==
  /\ pc[<<t, c>>] = "delete"
  /\ lastResult' = [lastResult EXCEPT ![t] = "ok"]
  /\ sent' = [sent EXCEPT ![t] = @ + Cardinality(batch[<<t, c>>])]
  /\ batch' = [batch EXCEPT ![<<t, c>>] = {}]
  /\ pc' = [pc EXCEPT ![<<t, c>>] = "read"]
  /\ UNCHANGED <<store, inFlight, again, pageVars, received, historyVars>>

DeleteRows(t, c) ==
  /\ pc[<<t, c>>] = "delete"
  /\ \E p \in Reach[t] :
       store' = [store EXCEPT ![p] = DeleteMany(@, Ids(batch[<<t, c>>]))]
  /\ lastResult' = [lastResult EXCEPT ![t] = "ok"]
  /\ sent' = [sent EXCEPT ![t] = @ + Cardinality(batch[<<t, c>>])]
  /\ batch' = [batch EXCEPT ![<<t, c>>] = {}]
  /\ pc' = [pc EXCEPT ![<<t, c>>] = "read"]
  /\ UNCHANGED <<inFlight, again, pageVars, received, historyVars>>

(* Mutant: the `finally` is gone.                                          *)
SettleWithoutFinally(t, c) ==
  /\ pc[<<t, c>>] = "settled"
  /\ pc' = [pc EXCEPT ![<<t, c>>] = "idle"]
  /\ UNCHANGED <<store, inFlight, again, batch, lastResult, sent, pageVars,
                 received, historyVars>>

(* The `finally` of the driving call.                                      *)
Settle(t, c) ==
  /\ pc[<<t, c>>] = "settled"
  /\ inFlight' = [inFlight EXCEPT ![t] = NoCall]
  /\ pc' = [pc EXCEPT ![<<t, c>>] = "idle"]
  /\ UNCHANGED <<store, again, batch, lastResult, sent, pageVars,
                 received, historyVars>>
-----------------------------------------------------------------------------
(* The page goes away: its memory store and its loops vanish, and a POST   *)
(* under way may still reach the server (keepalive).                       *)
ClosePage(t) ==
  /\ open[t]
  /\ closures < MaxClosures
  /\ closures' = closures + 1
  /\ open' = [open EXCEPT ![t] = FALSE]
  /\ \E landed \in SUBSET {c \in Call : pc[<<t, c>>] = "fetch"} :
       LET ops == UNION {Values(batch[<<t, c>>]) : c \in landed}
           unacknowledged ==
             ops \union UNION {Values(batch[<<t, c>>]) :
                                c \in {d \in Call : pc[<<t, d>>] = "delete"}}
       IN  /\ Receive(ops)
           /\ suspect' = suspect \union unacknowledged
           /\ lost' = lost \union
                      {op \in Values(store[t].rows) : op \notin received'}
  /\ store' = [store EXCEPT ![t] = EmptyStore]
  /\ inFlight' = [inFlight EXCEPT ![t] = NoCall]
  /\ again' = [again EXCEPT ![t] = FALSE]
  /\ pc' = [l \in Loop |-> IF l[1] = t THEN "idle" ELSE pc[l]]
  /\ batch' = [l \in Loop |-> IF l[1] = t THEN {} ELSE batch[l]]
  /\ lastResult' = [lastResult EXCEPT ![t] = "none"]
  /\ sent' = [sent EXCEPT ![t] = 0]
  /\ UNCHANGED accepted

OpenPage(t) ==
  /\ ~open[t]
  /\ open' = [open EXCEPT ![t] = TRUE]
  /\ UNCHANGED <<store, managerVars, closures, received, historyVars>>
-----------------------------------------------------------------------------
Flush(t) == JoinFlush(t) \/ \E c \in Call : StartFlush(t, c)

LoopStep(t, c) ==
  \/ ReadRows(t, c)
  \/ FetchOk(t, c)
  \/ FetchRejected(t, c)
  \/ FetchFailed(t, c)
  \/ DeleteRows(t, c)
  \/ Settle(t, c)

Next ==
  \E t \in Tab :
    \/ \E op \in Op : Enqueue(t, op)
    \/ Flush(t)
    \/ \E c \in Call : LoopStep(t, c)
    \/ ClosePage(t)
    \/ OpenPage(t)

Spec == Init /\ [][Next]_vars

(***************************************************************************)
(* The interval timer of client.init() (client.ts:199) calls flush() for   *)
(* as long as the page is open, the browser runs the continuations of an   *)
(* open page, and a server that is tried again and again answers at last.  *)
(* Nothing makes a user open or close a page.                              *)
(***************************************************************************)
Fairness ==
  \A t \in Tab :
    /\ WF_vars(Flush(t))
    /\ \A c \in Call : /\ WF_vars(LoopStep(t, c))
                       /\ SF_vars(FetchOk(t, c))

FairSpec == Spec /\ Fairness
-----------------------------------------------------------------------------
(***************************************************************************)
(* Properties                                                              *)
(***************************************************************************)
TypeOK ==
  /\ store \in [Place -> Store(Op)]
  /\ inFlight \in [Tab -> Call \union {NoCall}]
  /\ again \in [Tab -> BOOLEAN]
  /\ pc \in [Loop -> Stage]
  /\ batch \in [Loop -> SUBSET Row(Op)]
  /\ lastResult \in [Tab -> {"none", "ok", "error"}]
  /\ sent \in [Tab -> Nat]
  /\ open \in [Tab -> BOOLEAN]
  /\ closures \in 0 .. MaxClosures
  /\ received \subseteq Op
  /\ accepted \subseteq Op
  /\ lost \subseteq Op
  /\ dup \subseteq Op
  /\ suspect \subseteq Op

(* One send loop per page (queue.ts:115): the call that flushInFlight      *)
(* names is the only one of its page that is under way.                    *)
SingleFlight ==
  \A t \in Tab, c \in Call : pc[<<t, c>>] # "idle" <=> inFlight[t] = c

(* No operation is lost (queue.ts:199 deletes only what the server took):  *)
(* every accepted operation is at the server, in IndexedDB, in the memory  *)
(* of an open page, or was in the memory of a page that closed.            *)
Stored == UNION {Values(store[p].rows) : p \in Place}
NoLoss == accepted \subseteq received \union Stored \union lost

(* The server gets a second copy only where one cannot be avoided: a       *)
(* response that never came, a page closed between the POST and the        *)
(* delete, or two pages that read the same rows.                           *)
DuplicatesExplained == dup \subseteq suspect

(* Operations reach the server in the order they were stored: as long as   *)
(* an operation waits in a store, no later one of that store has been sent *)
(* past it by anybody.                                                     *)
InOrder ==
  \A p \in Place : \A r, q \in store[p].rows :
      r.value \notin received /\ r.id < q.id => q.value \notin received

(* While some page with a working IndexedDB stays open, everything that is *)
(* in IndexedDB is delivered, whoever put it there: the wake-up that a     *)
(* flush() in the settled window loses is made good by the timer.          *)
Delivered ==
  (\E t \in Tab : Reach[t] = {IndexedDB} /\ <>[]open[t])
     => \A op \in Op : (op \in Values(store[IndexedDB].rows)) ~> (op \in received)

(* The queue implements at-least-once delivery: what is stored and not yet *)
(* at the server is pending, and only a page that closes gives items up.   *)
Delivery == INSTANCE AtLeastOnce
              WITH Item <- Op, pending <- Stored \ received
ImplementsAtLeastOnce == Delivery!Spec
=============================================================================
