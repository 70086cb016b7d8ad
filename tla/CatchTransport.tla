--------------------------- MODULE CatchTransport ---------------------------
(***************************************************************************)
(* The error-event transport of Catch                                      *)
(* (packages/catch/src/transport.ts): a buffer in memory that is copied to *)
(* one localStorage slot after every change, taken whole by a flush, and   *)
(* put back at the front when the POST fails.  The slot belongs to the     *)
(* origin, so all pages, and all successive transports of a page, write    *)
(* the same one.                                                           *)
(*                                                                         *)
(* Events have the same size, so the byte cap of the slot is a number of   *)
(* events.  Everything up to the await of fetch() is one step.             *)
(***************************************************************************)
EXTENDS Naturals, FiniteSets, Sequences

CONSTANTS
  Page,         \* pages of the origin, each with a transport while it is open
  Call,         \* bound: identities of the POSTs a page can have under way
  Event,
  BatchSize,    \* batchSize
  MaxStored,    \* maxStorageBytes, in events
  SaveOutcome,  \* outcomes of setItem: {TRUE}, or BOOLEAN when it may throw;
                \* {FALSE} where there is no localStorage
  MaxClosures   \* bound: how many pages are closed in a behaviour

ASSUME BatchSizeAssumption == BatchSize \in Nat \ {0}
ASSUME MaxStoredAssumption == MaxStored \in Nat
ASSUME SaveOutcomeAssumption == SaveOutcome \in {{TRUE}, BOOLEAN, {FALSE}}
ASSUME MaxClosuresAssumption == MaxClosures \in Nat

VARIABLES
  slot,         \* localStorage[`${prefix}:catch:queue`]
  buffer,       \* buffer[p]
  post,         \* post[<<p, c>>]: the events of a POST under way, or <<>>
  alive,        \* is the page open?
  installed,    \* are the interval and the unload handlers installed?
  closures,     \* pages closed so far
  received,     \* events the server has a copy of
  \* history
  pushed,       \* the events handed over, oldest first
  capped,       \* events dropped by the cap of the slot
  rejected,     \* events the server answered with an error status
  interrupted,  \* events in the hands of a closing page or of a beacon
  dup,          \* events the server has several copies of
  suspect       \* events requeued although they had reached the server

netVars == <<received, dup>>
pageVars == <<alive, installed, closures>>
fateVars == <<capped, rejected, interrupted, suspect>>
vars == <<slot, buffer, post, pageVars, netVars, pushed, fateVars>>

Post == Page \X Call

Items(s) == {s[i] : i \in 1 .. Len(s)}

Init ==
  /\ slot = <<>>
  /\ buffer = [p \in Page |-> <<>>]
  /\ post = [l \in Post |-> <<>>]
  /\ alive = [p \in Page |-> TRUE]
  /\ installed = [p \in Page |-> TRUE]
  /\ closures = 0
  /\ received = {}
  /\ pushed = <<>>
  /\ capped = {}
  /\ rejected = {}
  /\ interrupted = {}
  /\ dup = {}
  /\ suspect = {}
-----------------------------------------------------------------------------
(* Mutant: one event more than the cap is let through.                     *)
ExcessOffByOne(b) ==
  IF Len(b) <= MaxStored + 1 THEN 0 ELSE Len(b) - MaxStored - 1

HasStorage == TRUE \in SaveOutcome

(* persist(): without localStorage it returns at once; otherwise the oldest*)
(* events go while the slot would be over its cap and more than one is     *)
(* left, and a setItem that throws leaves the slot alone.                  *)
Excess(b) ==
  IF ~HasStorage \/ Len(b) <= MaxStored THEN 0
  ELSE IF MaxStored = 0 THEN Len(b) - 1 ELSE Len(b) - MaxStored

(* Mutant: the newest events go.                                           *)
TrimNewest(b) == SubSeq(b, 1, Len(b) - Excess(b))

Trim(b) == SubSeq(b, Excess(b) + 1, Len(b))

Save(old, b) == {IF ok THEN Trim(b) ELSE old : ok \in SaveOutcome}

(* The buffer of p becomes b and is persisted over `old`.                  *)
Persist(p, old, b) ==
  /\ buffer' = [buffer EXCEPT ![p] = Trim(b)]
  /\ capped' = capped \union Items(SubSeq(b, 1, Excess(b)))
  /\ slot' \in Save(old, b)

Receive(events) ==
  /\ received' = received \union events
  /\ dup' = dup \union (events \intersect received)
-----------------------------------------------------------------------------
(* Flush by fetch(): the whole buffer goes into the POST.                  *)
StartPost(p, c, batch) ==
  /\ post[<<p, c>>] = <<>>
  /\ post' = [post EXCEPT ![<<p, c>>] = batch]

Push(p, e) ==
  /\ alive[p]
  /\ e \notin Items(pushed)
  /\ pushed' = Append(pushed, e)
  /\ LET b == Append(buffer[p], e)
     IN  \/ /\ Len(Trim(b)) < BatchSize
            /\ Persist(p, slot, b)
            /\ UNCHANGED post
         \/ /\ Len(Trim(b)) >= BatchSize
            /\ \E c \in Call : StartPost(p, c, Trim(b))
            /\ buffer' = [buffer EXCEPT ![p] = <<>>]
            /\ capped' = capped \union Items(SubSeq(b, 1, Excess(b)))
            /\ \E first \in Save(slot, b) : slot' \in Save(first, <<>>)
  /\ UNCHANGED <<pageVars, netVars, rejected, interrupted, suspect>>

(* Mutant: flush() copies the buffer instead of splicing it.               *)
FlushCopying(p) ==
  /\ alive[p]
  /\ buffer[p] # <<>>
  /\ \E c \in Call : StartPost(p, c, buffer[p])
  /\ Persist(p, slot, buffer[p])
  /\ UNCHANGED <<pageVars, netVars, pushed, rejected, interrupted, suspect>>

Flush(p) ==
  /\ alive[p]
  /\ buffer[p] # <<>>
  /\ \E c \in Call : StartPost(p, c, buffer[p])
  /\ Persist(p, slot, <<>>)
  /\ UNCHANGED <<pageVars, netVars, pushed, rejected, interrupted, suspect>>

(* Flush by sendBeacon(): the browser takes the batch, and delivers it or  *)
(* not; or it refuses, and the batch is put back.                          *)
Beacon(p) ==
  /\ alive[p]
  /\ buffer[p] # <<>>
  /\ \/ /\ Persist(p, slot, <<>>)
        /\ \/ Receive(Items(buffer[p])) /\ UNCHANGED interrupted
           \/ /\ interrupted' = interrupted \union Items(buffer[p])
              /\ UNCHANGED netVars
     \/ /\ \E first \in Save(slot, <<>>) : Persist(p, first, buffer[p])
        /\ UNCHANGED <<netVars, interrupted>>
  /\ UNCHANGED <<post, alive, closures, pushed, rejected, suspect>>

(* pagehide, beforeunload: a beacon, or a fetch where there is none.       *)
Unload(p) ==
  /\ installed[p]
  /\ \/ Beacon(p) /\ UNCHANGED installed
     \/ Flush(p)

(* shutdown(): no timer and no handlers any more, and a last flush.        *)
Shutdown(p) ==
  /\ alive[p]
  /\ installed' = [installed EXCEPT ![p] = FALSE]
  /\ \/ Beacon(p)
     \/ /\ buffer[p] # <<>>
        /\ \E c \in Call : StartPost(p, c, buffer[p])
        /\ Persist(p, slot, <<>>)
        /\ UNCHANGED <<alive, closures, netVars, pushed, rejected,
                       interrupted, suspect>>
     \/ /\ buffer[p] = <<>>
        /\ UNCHANGED <<slot, buffer, post, alive, closures, netVars, pushed,
                       fateVars>>
-----------------------------------------------------------------------------
EndPost(p, c) == post' = [post EXCEPT ![<<p, c>>] = <<>>]

FetchOk(p, c) ==
  /\ post[<<p, c>>] # <<>>
  /\ EndPost(p, c)
  /\ Receive(Items(post[<<p, c>>]))
  /\ UNCHANGED <<slot, buffer, pageVars, pushed, fateVars>>

(* fetch() resolves whatever the status is, and nothing is put back.       *)
FetchRejected(p, c) ==
  /\ post[<<p, c>>] # <<>>
  /\ EndPost(p, c)
  /\ rejected' = rejected \union Items(post[<<p, c>>])
  /\ UNCHANGED <<slot, buffer, pageVars, netVars, pushed, capped,
                 interrupted, suspect>>

(* Mutant: a failed batch is not put back.                                 *)
FailedBatchDropped(p, c) ==
  /\ post[<<p, c>>] # <<>>
  /\ EndPost(p, c)
  /\ UNCHANGED <<slot, buffer, pageVars, netVars, pushed, fateVars>>

(* Mutant: the batch is put back but not persisted.                        *)
BatchPutBackUnsaved(p, c) ==
  /\ post[<<p, c>>] # <<>>
  /\ EndPost(p, c)
  /\ buffer' = [buffer EXCEPT ![p] = post[<<p, c>>] \o @]
  /\ UNCHANGED <<slot, pageVars, netVars, pushed, fateVars>>

(* A network error; the request may have reached the server all the same.  *)
FetchFailed(p, c) ==
  /\ post[<<p, c>>] # <<>>
  /\ EndPost(p, c)
  /\ Persist(p, slot, post[<<p, c>>] \o buffer[p])
  /\ \/ /\ Receive(Items(post[<<p, c>>]))
        /\ suspect' = suspect \union Items(post[<<p, c>>])
     \/ UNCHANGED <<netVars, suspect>>
  /\ UNCHANGED <<pageVars, pushed, rejected, interrupted>>
-----------------------------------------------------------------------------
(* The page is gone, with or without a pagehide: a POST under way may      *)
(* still arrive.                                                           *)
ClosePage(p) ==
  /\ alive[p]
  /\ closures < MaxClosures
  /\ closures' = closures + 1
  /\ alive' = [alive EXCEPT ![p] = FALSE]
  /\ installed' = [installed EXCEPT ![p] = FALSE]
  /\ \E landed \in SUBSET {c \in Call : post[<<p, c>>] # <<>>} :
       Receive(UNION {Items(post[<<p, c>>]) : c \in landed})
  /\ interrupted' = interrupted
                    \union UNION {Items(post[<<p, c>>]) : c \in Call}
  /\ buffer' = [buffer EXCEPT ![p] = <<>>]
  /\ post' = [l \in Post |-> IF l[1] = p THEN <<>> ELSE post[l]]
  /\ UNCHANGED <<slot, pushed, capped, rejected, suspect>>

(* Mutant: the constructor forgets to recover the slot.                    *)
OpenWithoutRecovery(p) ==
  /\ ~alive[p]
  /\ alive' = [alive EXCEPT ![p] = TRUE]
  /\ installed' = [installed EXCEPT ![p] = TRUE]
  /\ UNCHANGED <<slot, buffer, post, closures, netVars, pushed, fateVars>>

(* A new page constructs its transport, which recovers the slot.           *)
OpenPage(p) ==
  /\ ~alive[p]
  /\ alive' = [alive EXCEPT ![p] = TRUE]
  /\ installed' = [installed EXCEPT ![p] = TRUE]
  /\ buffer' = [buffer EXCEPT ![p] = slot]
  /\ UNCHANGED <<slot, post, closures, netVars, pushed, fateVars>>
-----------------------------------------------------------------------------
FetchEnds(p, c) == FetchOk(p, c) \/ FetchRejected(p, c) \/ FetchFailed(p, c)

Next ==
  \E p \in Page :
    \/ \E e \in Event : Push(p, e)
    \/ Flush(p)
    \/ Unload(p)
    \/ Shutdown(p)
    \/ \E c \in Call : FetchEnds(p, c)
    \/ ClosePage(p)
    \/ OpenPage(p)

Spec == Init /\ [][Next]_vars

(***************************************************************************)
(* The interval of the constructor flushes every few seconds while it is   *)
(* installed, the browser settles every fetch of an open page, and a       *)
(* server that is tried again and again answers at last.                   *)
(***************************************************************************)
Fairness ==
  \A p \in Page :
    /\ WF_vars(installed[p] /\ Flush(p))
    /\ \A c \in Call : WF_vars(FetchEnds(p, c)) /\ SF_vars(FetchOk(p, c))

FairSpec == Spec /\ Fairness
-----------------------------------------------------------------------------
(***************************************************************************)
(* Properties                                                              *)
(***************************************************************************)
TypeOK ==
  /\ slot \in Seq(Event)
  /\ buffer \in [Page -> Seq(Event)]
  /\ post \in [Post -> Seq(Event)]
  /\ alive \in [Page -> BOOLEAN]
  /\ installed \in [Page -> BOOLEAN]
  /\ closures \in 0 .. MaxClosures
  /\ received \subseteq Event
  /\ pushed \in Seq(Event)
  /\ capped \subseteq Event
  /\ rejected \subseteq Event
  /\ interrupted \subseteq Event
  /\ dup \subseteq Event
  /\ suspect \subseteq Event

InFlight == UNION {Items(post[l]) : l \in Post}
Buffered == UNION {Items(buffer[p]) : p \in Page}
Held == InFlight \union Buffered \union Items(slot)

(* Every event that waits for a flush is in the slot, so a page that dies  *)
(* does not lose it (transport.ts:14).                                     *)
BufferIsSaved == \A p \in Page : Items(buffer[p]) \subseteq Items(slot)

(* No event disappears without a cause: it is at the server, in flight, in *)
(* a buffer or in the slot, unless the cap dropped it, the server answered *)
(* with an error, or its page died with the POST under way.                *)
Excused == capped \union rejected \union interrupted
NoSilentLoss == Items(pushed) \subseteq received \union Held \union Excused

(* A second copy is sent only when a POST that reached the server looked   *)
(* like a network error.                                                   *)
DuplicatesExplained == dup \subseteq suspect

(* A persistent outage cannot grow the queue (transport.ts:129-131): no    *)
(* slot and, where there is localStorage, no buffer is longer than the cap,*)
(* or than the one event persist() always keeps, however many batches are  *)
(* put back.                                                               *)
Bounded ==
  LET Fits(b) == Len(b) <= MaxStored \/ Len(b) <= 1
  IN  Fits(slot) /\ (HasStorage => \A p \in Page : Fits(buffer[p]))

(* While a page stays open with its timer running, whatever is in its      *)
(* buffer reaches the server or is dropped for a stated reason.            *)
Delivered ==
  \A p \in Page, e \in Event :
    <>[]installed[p] =>
      (e \in Items(buffer[p]) ~> e \in received \union Excused)

(* The transport implements at-least-once delivery; an event is given up   *)
(* when its last copy is gone.                                             *)
Delivery == INSTANCE AtLeastOnce
              WITH Item <- Event, pending <- Held \ received,
                   lost <- Items(pushed) \ (Held \union received)
ImplementsAtLeastOnce == Delivery!Spec
=============================================================================
