------------------------ MODULE AnalyticsQueue_proofs ------------------------
(***************************************************************************)
(* Theorems about the analytics queue, for every number of pages, flush    *)
(* calls, operations and every batch size: typing, the single send loop of *)
(* a page, and then what is safe to rely on.                               *)
(***************************************************************************)
EXTENDS AnalyticsQueue, FiniteSetTheorems, TLAPS

-----------------------------------------------------------------------------
(* The store operations keep a store a store.                              *)

(* add (storage.ts:216) grows a finite store by the one new row.           *)
LEMMA AddProperties ==
  ASSUME NEW V, NEW s \in Store(V), NEW v \in V, IsFiniteSet(s.rows)
  PROVE  /\ Add(s, v) \in Store(V)
         /\ IsFiniteSet(Add(s, v).rows)
         /\ Add(s, v).next = s.next + 1
         /\ Add(s, v).rows = s.rows \union {[id |-> s.next, value |-> v]}
<1>1. Add(s, v).rows = s.rows \union {[id |-> s.next, value |-> v]}
  BY DEF Add
<1>2. IsFiniteSet(Add(s, v).rows)
  BY <1>1, FS_AddElement
<1> QED
  BY <1>1, <1>2 DEF Add, Store, Row

(* getAll (storage.ts:128) returns rows of the store it reads.             *)
LEMMA GetAllProperties ==
  ASSUME NEW V, NEW s \in Store(V), NEW n, IsFiniteSet(s.rows)
  PROVE  /\ GetAll(s, n) \subseteq s.rows
         /\ IsFiniteSet(GetAll(s, n))
<1>1. GetAll(s, n) \subseteq s.rows
  BY DEF GetAll
<1> QED
  BY <1>1, FS_Subset

(* deleteMany (storage.ts:167) removes the rows that carry a given key,    *)
(* keeps all the others, and never gives a key free for reuse.             *)
LEMMA DeleteManyProperties ==
  ASSUME NEW V, NEW s \in Store(V), NEW ids, IsFiniteSet(s.rows)
  PROVE  /\ DeleteMany(s, ids) \in Store(V)
         /\ IsFiniteSet(DeleteMany(s, ids).rows)
         /\ DeleteMany(s, ids).next = s.next
         /\ DeleteMany(s, ids).rows = {r \in s.rows : r.id \notin ids}
<1>1. DeleteMany(s, ids).rows = {r \in s.rows : r.id \notin ids}
  BY DEF DeleteMany, Store
<1>2. DeleteMany(s, ids).next = s.next
  BY DEF DeleteMany, Store
<1>3. IsFiniteSet(DeleteMany(s, ids).rows)
  BY <1>1, FS_Subset
<1>4. DeleteMany(s, ids) \in Store(V)
  BY <1>1 DEF DeleteMany, Store
<1> QED
  BY <1>1, <1>2, <1>3, <1>4

(* The values of well-typed rows are values.                               *)
LEMMA ValuesType ==
  ASSUME NEW V, NEW rows \in SUBSET Row(V)
  PROVE  Values(rows) \subseteq V
<1>1. \A r \in rows : r.value \in V
  BY DEF Row
<1> QED
  BY <1>1 DEF Values

(* The empty store is a finite store.                                      *)
LEMMA EmptyStoreProperties ==
  ASSUME NEW V
  PROVE  EmptyStore \in Store(V) /\ IsFiniteSet(EmptyStore.rows)
  BY FS_EmptySet DEF EmptyStore, Store, Row
-----------------------------------------------------------------------------
(* Every set of rows in the system is finite, so that a count of rows is a *)
(* number.                                                                 *)
Finite ==
  /\ \A p \in Place : IsFiniteSet(store[p].rows)
  /\ \A l \in Loop : IsFiniteSet(batch[l])

TypeInv == TypeOK /\ Finite

(* A page's transactions run on stores that exist.                         *)
LEMMA ReachPlace == \A t \in Tab : Reach[t] \subseteq Place
  BY ReachAssumption DEF Place

(* Replacing one store by a finite store keeps the stores well typed.      *)
LEMMA StoreUpdateType ==
  ASSUME TypeInv, NEW p \in Place, NEW new \in Store(Op),
         IsFiniteSet(new.rows), store' = [store EXCEPT ![p] = new]
  PROVE  /\ store' \in [Place -> Store(Op)]
         /\ \A q \in Place : IsFiniteSet(store'[q].rows)
<1>1. \A q \in Place : store'[q] = IF q = p THEN new ELSE store[q]
  BY DEF TypeInv, TypeOK
<1> QED
  BY <1>1 DEF TypeInv, TypeOK, Finite

(* Ending a round of the send loop keeps the manager's types.              *)
LEMMA EndRoundType ==
  ASSUME TypeInv, NEW t \in Tab, NEW c \in Call, EndRound(t, c)
  PROVE  /\ batch' \in [Loop -> SUBSET Row(Op)]
         /\ \A l \in Loop : IsFiniteSet(batch'[l])
         /\ pc' \in [Loop -> Stage]
         /\ again' \in [Tab -> BOOLEAN]
<1>1. <<t, c>> \in Loop
  BY DEF Loop
<1>2. \A l \in Loop : batch'[l] = {} \/ batch'[l] = batch[l]
  BY <1>1 DEF EndRound, TypeInv, TypeOK
<1>3. \A l \in Loop : IsFiniteSet(batch'[l])
  BY <1>2, FS_EmptySet DEF TypeInv, Finite
<1>4. batch' \in [Loop -> SUBSET Row(Op)]
  BY <1>1 DEF EndRound, TypeInv, TypeOK
<1>5. pc' \in [Loop -> Stage]
  BY <1>1 DEF EndRound, TypeInv, TypeOK, Stage
<1>6. again' \in [Tab -> BOOLEAN]
  BY DEF EndRound, TypeInv, TypeOK
<1> QED
  BY <1>3, <1>4, <1>5, <1>6

LEMMA InitTypeInv == Init => TypeInv
  BY EmptyStoreProperties, FS_EmptySet, MaxClosuresAssumption
     DEF Init, TypeInv, TypeOK, Finite, Stage, Row

LEMMA NextTypeInv == TypeInv /\ [Next]_vars => TypeInv'
<1> SUFFICES ASSUME TypeInv, [Next]_vars PROVE TypeInv'
  OBVIOUS
<1> USE DEF TypeInv
<1>1. CASE UNCHANGED vars
  BY <1>1 DEF vars, managerVars, pageVars, historyVars, TypeOK,
              Finite
<1>2. ASSUME NEW t \in Tab, NEW op \in Op, Enqueue(t, op) PROVE TypeInv'
  <2>1. PICK p \in Reach[t] : store' = [store EXCEPT ![p] = Add(@, op)]
    BY <1>2 DEF Enqueue
  <2>2. p \in Place
    BY ReachPlace
  <2>3. store[p] \in Store(Op) /\ IsFiniteSet(store[p].rows)
    BY <2>2 DEF TypeOK, Finite
  <2>4. /\ Add(store[p], op) \in Store(Op)
        /\ IsFiniteSet(Add(store[p], op).rows)
    BY <2>3, AddProperties
  <2>5. /\ store' \in [Place -> Store(Op)]
        /\ \A q \in Place : IsFiniteSet(store'[q].rows)
    BY <2>1, <2>2, <2>4, StoreUpdateType
  <2> QED
    BY <1>2, <2>5 DEF Enqueue, managerVars, pageVars, TypeOK, Finite
<1>3. ASSUME NEW t \in Tab, JoinFlush(t) PROVE TypeInv'
  BY <1>3 DEF JoinFlush, pageVars, historyVars, TypeOK, Finite
<1>4. ASSUME NEW t \in Tab, NEW c \in Call, StartFlush(t, c) PROVE TypeInv'
  <2>1. pc' \in [Loop -> Stage]
    BY <1>4 DEF StartFlush, TypeOK, Stage
  <2> QED
    BY <1>4, <2>1 DEF StartFlush, pageVars, historyVars, TypeOK,
                      Finite
<1>5. ASSUME NEW t \in Tab, NEW c \in Call, LoopStep(t, c) PROVE TypeInv'
  <2> <<t, c>> \in Loop
    BY DEF Loop
  <2>1. CASE ReadRows(t, c)
    <3> DEFINE rows(p) == GetAll(store[p], BatchSize)
    <3>1. PICK p \in Reach[t] :
            IF rows(p) = {}
            THEN EndRound(t, c) /\ UNCHANGED suspect
            ELSE /\ batch' = [batch EXCEPT ![<<t, c>>] = rows(p)]
                 /\ pc' = [pc EXCEPT ![<<t, c>>] = "fetch"]
                 /\ suspect' = suspect \union
                               (Values(rows(p)) \intersect HeldElsewhere(t))
                 /\ UNCHANGED again
      BY <2>1 DEF ReadRows
    <3>2. /\ rows(p) \in SUBSET Row(Op)
          /\ IsFiniteSet(rows(p))
      <4>1. store[p] \in Store(Op) /\ IsFiniteSet(store[p].rows)
        BY ReachPlace DEF TypeOK, Finite
      <4> QED
        BY <4>1, GetAllProperties DEF Store
    <3> HIDE DEF rows
    <3>3. /\ batch' \in [Loop -> SUBSET Row(Op)]
          /\ \A l \in Loop : IsFiniteSet(batch'[l])
          /\ pc' \in [Loop -> Stage]
          /\ again' \in [Tab -> BOOLEAN]
          /\ suspect' \subseteq Op
      <4>1. CASE rows(p) = {}
        BY <3>1, <4>1, EndRoundType DEF TypeOK
      <4>2. CASE rows(p) # {}
        <5>1. batch' = [batch EXCEPT ![<<t, c>>] = rows(p)]
          BY <3>1, <4>2
        <5>2. Values(rows(p)) \subseteq Op
          BY <3>2, ValuesType
        <5>3. pc' \in [Loop -> Stage]
          BY <3>1, <4>2 DEF TypeOK, Stage
        <5> QED
          BY <3>1, <3>2, <4>2, <5>1, <5>2, <5>3 DEF TypeOK, Finite
      <4> QED
        BY <4>1, <4>2
    <3> QED
      BY <2>1, <3>3 DEF ReadRows, pageVars, TypeOK, Finite
  <2>2. CASE FetchOk(t, c)
    <3>1. Values(batch[<<t, c>>]) \subseteq Op
      BY ValuesType DEF TypeOK
    <3>2. pc' \in [Loop -> Stage]
      BY <2>2 DEF FetchOk, TypeOK, Stage
    <3> QED
      BY <2>2, <3>1, <3>2 DEF FetchOk, Receive, pageVars, TypeOK,
                              Finite
  <2>3. CASE FetchRejected(t, c)
    BY <2>3, EndRoundType
       DEF FetchRejected, pageVars, historyVars, TypeOK, Finite
  <2>4. CASE FetchFailed(t, c)
    <3>1. Values(batch[<<t, c>>]) \subseteq Op
      BY ValuesType DEF TypeOK
    <3>2. /\ received' \subseteq Op
          /\ dup' \subseteq Op
          /\ suspect' \subseteq Op
      BY <2>4, <3>1 DEF FetchFailed, Receive, TypeOK
    <3> QED
      BY <2>4, <3>2, EndRoundType
         DEF FetchFailed, pageVars, TypeOK, Finite
  <2>5. CASE DeleteRows(t, c)
    <3> DEFINE new(p) == DeleteMany(store[p], Ids(batch[<<t, c>>]))
    <3>1. PICK p \in Reach[t] : store' = [store EXCEPT ![p] = new(p)]
      BY <2>5 DEF DeleteRows
    <3>2. p \in Place
      BY ReachPlace
    <3>3. new(p) \in Store(Op) /\ IsFiniteSet(new(p).rows)
      <4>1. store[p] \in Store(Op) /\ IsFiniteSet(store[p].rows)
        BY <3>2 DEF TypeOK, Finite
      <4> QED
        BY <4>1, DeleteManyProperties
    <3> HIDE DEF new
    <3>9. /\ store' \in [Place -> Store(Op)]
          /\ \A q \in Place : IsFiniteSet(store'[q].rows)
      BY <3>1, <3>2, <3>3, StoreUpdateType
    <3>4. Cardinality(batch[<<t, c>>]) \in Nat
      BY FS_CardinalityType DEF Finite
    <3> DEFINE n == Cardinality(batch[<<t, c>>])
    <3>5. sent' \in [Tab -> Nat]
      <4>1. sent' = [sent EXCEPT ![t] = @ + n]
        BY <2>5 DEF DeleteRows
      <4>2. sent \in [Tab -> Nat]
        BY DEF TypeOK
      <4>3. n \in Nat
        BY <3>4
      <4> HIDE DEF n
      <4> QED
        BY <4>1, <4>2, <4>3
    <3>6. pc' \in [Loop -> Stage]
      BY <2>5 DEF DeleteRows, TypeOK, Stage
    <3>7. batch' = [batch EXCEPT ![<<t, c>>] = {}]
      BY <2>5 DEF DeleteRows
    <3>8. \A l \in Loop : IsFiniteSet(batch'[l])
      BY <3>7, FS_EmptySet DEF Finite, TypeOK
    <3> QED
      BY <2>5, <3>9, <3>5, <3>6, <3>7, <3>8
         DEF DeleteRows, pageVars, historyVars, TypeOK, Finite
  <2>6. CASE Settle(t, c)
    <3>1. pc' \in [Loop -> Stage]
      BY <2>6 DEF Settle, TypeOK, Stage
    <3> QED
      BY <2>6, <3>1
         DEF Settle, pageVars, historyVars, TypeOK, Finite
  <2> QED
    BY <1>5, <2>1, <2>2, <2>3, <2>4, <2>5, <2>6 DEF LoopStep
<1>6. ASSUME NEW t \in Tab, ClosePage(t) PROVE TypeInv'
  <2>1. PICK landed \in SUBSET {c \in Call : pc[<<t, c>>] = "fetch"} :
          LET ops == UNION {Values(batch[<<t, c>>]) : c \in landed}
              unacknowledged ==
                ops \union UNION {Values(batch[<<t, c>>]) :
                                   c \in {d \in Call : pc[<<t, d>>] = "delete"}}
          IN  /\ Receive(ops)
              /\ suspect' = suspect \union unacknowledged
              /\ lost' = lost \union
                         {op \in Values(store[t].rows) : op \notin received'}
    BY <1>6 DEF ClosePage
  <2>2. \A c \in Call : Values(batch[<<t, c>>]) \subseteq Op
    <3> TAKE c \in Call
    <3>1. <<t, c>> \in Loop
      BY DEF Loop
    <3>2. batch[<<t, c>>] \in SUBSET Row(Op)
      BY <3>1 DEF TypeOK
    <3> QED
      BY <3>2, ValuesType
  <2>3. Values(store[t].rows) \subseteq Op
    <3>1. store[t] \in Store(Op)
      BY DEF TypeOK, Place
    <3>2. store[t].rows \in SUBSET Row(Op)
      BY <3>1 DEF Store
    <3> QED
      BY <3>2, ValuesType
  <2>4. /\ received' \subseteq Op
        /\ dup' \subseteq Op
        /\ suspect' \subseteq Op
        /\ lost' \subseteq Op
    <3>1. PICK ops :
            /\ ops \in SUBSET UNION {Values(batch[<<t, c>>]) :
                                     c \in {d \in Call : pc[<<t, d>>] = "fetch"}}
            /\ Receive(ops)
            /\ suspect' = suspect \union ops
                            \union UNION {Values(batch[<<t, c>>]) :
                                          c \in {d \in Call : pc[<<t, d>>] = "delete"}}
      BY <2>1
    <3>2. /\ ops \subseteq Op
          /\ UNION {Values(batch[<<t, c>>]) :
                    c \in {d \in Call : pc[<<t, d>>] = "delete"}} \subseteq Op
      BY <2>2, <3>1
    <3>3. received' \subseteq Op /\ dup' \subseteq Op
      BY <3>1, <3>2 DEF Receive, TypeOK
    <3>4. suspect' \subseteq Op
      BY <3>1, <3>2 DEF TypeOK
    <3>5. lost' \subseteq Op
      BY <2>1, <2>3 DEF TypeOK
    <3> QED
      BY <3>3, <3>4, <3>5
  <2>5. /\ store' \in [Place -> Store(Op)]
        /\ \A p \in Place : IsFiniteSet(store'[p].rows)
    <3>1. store' = [store EXCEPT ![t] = EmptyStore]
      BY <1>6 DEF ClosePage
    <3>2. t \in Place
      BY DEF Place
    <3> QED
      BY <3>1, <3>2, EmptyStoreProperties, StoreUpdateType
  <2>6. \A l \in Loop : batch'[l] = {} \/ batch'[l] = batch[l]
    BY <1>6 DEF ClosePage
  <2>7. \A l \in Loop : IsFiniteSet(batch'[l])
    BY <2>6, FS_EmptySet DEF Finite
  <2>8. batch' \in [Loop -> SUBSET Row(Op)]
    BY <1>6 DEF ClosePage, TypeOK
  <2>9. pc' \in [Loop -> Stage]
    BY <1>6 DEF ClosePage, TypeOK, Stage
  <2>10. closures' \in 0 .. MaxClosures
    <3>1. closures < MaxClosures /\ closures' = closures + 1
      BY <1>6 DEF ClosePage
    <3>2. closures \in 0 .. MaxClosures
      BY DEF TypeOK
    <3> QED
      BY <3>1, <3>2, MaxClosuresAssumption
  <2> QED
    BY <1>6, <2>4, <2>5, <2>7, <2>8, <2>9, <2>10 DEF ClosePage, TypeOK, Finite
<1>7. ASSUME NEW t \in Tab, OpenPage(t) PROVE TypeInv'
  BY <1>7 DEF OpenPage, managerVars, historyVars, TypeOK, Finite
<1> QED
  BY <1>1, <1>2, <1>3, <1>4, <1>5, <1>6, <1>7 DEF Next, Flush

(* Type correctness of the queue: no reachable state has an ill-typed      *)
(* variable, and every count of rows is a count of a finite set.           *)
THEOREM TypeCorrect == Spec => []TypeOK
<1>1. Init => TypeInv
  BY InitTypeInv
<1>2. TypeInv /\ [Next]_vars => TypeInv'
  BY NextTypeInv
<1>3. TypeInv => TypeOK
  BY DEF TypeInv
<1> QED
  BY <1>1, <1>2, <1>3, PTL DEF Spec
-----------------------------------------------------------------------------
(***************************************************************************)
(* The safety theorems of the analytics queue for pages whose IndexedDB    *)
(* works, or does not work, for as long as they are open: no operation is  *)
(* lost, every second copy is explained, and stored order is sent order.   *)
(* With a store that fails now and then NoLoss is false (run queue_flaky). *)
(***************************************************************************)

Consistent == \A t \in Tab : Reach[t] \in {{IndexedDB}, {t}}

(* Keys: fresh keys are above all keys in use, and a key names one row, in *)
(* a store and in the batches read from it.                                *)
KeysInStore ==
  \A p \in Place : \A r \in store[p].rows :
    /\ r.id < store[p].next
    /\ \A q \in store[p].rows : q.id = r.id => q = r
KeysInBatch ==
  \A l \in Loop : \A p \in Reach[l[1]] : \A r \in batch[l] :
    /\ r.id < store[p].next
    /\ \A q \in store[p].rows : q.id = r.id => q = r

(* Operations: only accepted ones are about, each in one row of one store, *)
(* the store its page deletes from.                                        *)
OnlyAccepted ==
  /\ received \subseteq accepted
  /\ \A p \in Place : \A r \in store[p].rows : r.value \in accepted
  /\ \A l \in Loop : \A r \in batch[l] : r.value \in accepted
OneRow ==
  \A p, o \in Place : \A r \in store[p].rows, q \in store[o].rows :
    r.value = q.value => p = o /\ r = q
OneRowInBatch ==
  \A l \in Loop : \A r \in batch[l] : \A p \in Place : \A q \in store[p].rows :
    r.value = q.value => p \in Reach[l[1]] /\ r = q

(* Loops: only a sending loop has rows, and it deletes what the server has.*)
BatchStage == \A l \in Loop : batch[l] # {} => Sending(l)
DeletesReceived ==
  \A l \in Loop : pc[l] = "delete" => \A r \in batch[l] : r.value \in received

(* Copies: an operation the server already has is sent or kept only where  *)
(* it is suspect, or about to be deleted.                                  *)
ResentIsSuspect ==
  \A l \in Loop : pc[l] = "fetch" =>
    \A r \in batch[l] : r.value \in received => r.value \in suspect
SharedIsSuspect ==
  \A l, k \in Loop : \A r \in batch[l], q \in batch[k] :
    l # k /\ r.value = q.value => r.value \in suspect
KeptIsSuspect ==
  \A p \in Place : \A r \in store[p].rows :
    r.value \in received =>
      \/ r.value \in suspect
      \/ \E l \in Loop : pc[l] = "delete" /\ r \in batch[l]

(* Order: a batch leaves no earlier row behind that still waits.           *)
BatchIsOldest ==
  \A l \in Loop : \A p \in Reach[l[1]] : \A r \in batch[l] :
    \A q \in store[p].rows :
      q.id < r.id => q \in batch[l] \/ q.value \in received

RowsInv ==
  /\ KeysInStore
  /\ KeysInBatch
  /\ OnlyAccepted
  /\ OneRow
  /\ OneRowInBatch
  /\ BatchStage
  /\ DeletesReceived
  /\ ResentIsSuspect
  /\ SharedIsSuspect
  /\ KeptIsSuspect
  /\ BatchIsOldest
  /\ NoLoss
  /\ DuplicatesExplained
  /\ InOrder

IInv == TypeInv /\ SingleFlight /\ RowsInv
-----------------------------------------------------------------------------
(* The single flight of a page.                                            *)

LEMMA InitSingleFlight == Init => SingleFlight
  BY NoCallAssumption DEF Init, SingleFlight, Loop

LEMMA NextSingleFlight ==
  TypeInv /\ SingleFlight /\ [Next]_vars => SingleFlight'
<1> SUFFICES ASSUME TypeInv, SingleFlight, [Next]_vars PROVE SingleFlight'
  OBVIOUS
<1> USE NoCallAssumption DEF SingleFlight
<1>0. /\ pc \in [Loop -> Stage]
      /\ inFlight \in [Tab -> Call \union {NoCall}]
      /\ \A t \in Tab, c \in Call : <<t, c>> \in Loop
  BY DEF TypeInv, TypeOK, Loop
<1>1. CASE UNCHANGED <<pc, inFlight>>
  BY <1>1
<1>2. ASSUME NEW t \in Tab, NEW c \in Call, StartFlush(t, c)
      PROVE  SingleFlight'
  <2>1. /\ inFlight' = [inFlight EXCEPT ![t] = c]
        /\ pc' = [pc EXCEPT ![<<t, c>>] = "read"]
        /\ inFlight[t] = NoCall
    BY <1>2 DEF StartFlush
  <2>2. \A u \in Tab, d \in Call :
          /\ inFlight'[u] = IF u = t THEN c ELSE inFlight[u]
          /\ pc'[<<u, d>>] = IF u = t /\ d = c THEN "read" ELSE pc[<<u, d>>]
    BY <1>0, <2>1
  <2>3. \A d \in Call : pc[<<t, d>>] = "idle"
    BY <2>1
  <2>4. SUFFICES ASSUME NEW u \in Tab, NEW d \in Call
                 PROVE  pc'[<<u, d>>] # "idle" <=> inFlight'[u] = d
    OBVIOUS
  <2>5. CASE u = t
    BY <2>2, <2>3, <2>5
  <2>6. CASE u # t
    <3>1. pc'[<<u, d>>] = pc[<<u, d>>] /\ inFlight'[u] = inFlight[u]
      BY <2>2, <2>6
    <3> QED
      BY <3>1
  <2> QED
    BY <2>5, <2>6
<1>3. ASSUME NEW t \in Tab, NEW c \in Call, pc[<<t, c>>] # "idle",
             NEW s \in Stage, s # "idle",
             pc' = [pc EXCEPT ![<<t, c>>] = s], UNCHANGED inFlight
      PROVE  SingleFlight'
  BY <1>0, <1>3
<1>4. ASSUME NEW t \in Tab, NEW c \in Call, LoopStep(t, c)
      PROVE  SingleFlight'
  <2>1. CASE Settle(t, c)
    <3>1. /\ inFlight' = [inFlight EXCEPT ![t] = NoCall]
          /\ pc' = [pc EXCEPT ![<<t, c>>] = "idle"]
          /\ pc[<<t, c>>] # "idle"
      BY <2>1 DEF Settle
    <3>2. \A u \in Tab, d \in Call :
            /\ inFlight'[u] = IF u = t THEN NoCall ELSE inFlight[u]
            /\ pc'[<<u, d>>] = IF u = t /\ d = c THEN "idle" ELSE pc[<<u, d>>]
      BY <1>0, <3>1
    <3>3. \A d \in Call : pc[<<t, d>>] # "idle" => d = c
      BY <3>1
    <3>4. SUFFICES ASSUME NEW u \in Tab, NEW d \in Call
                   PROVE  pc'[<<u, d>>] # "idle" <=> inFlight'[u] = d
      OBVIOUS
    <3>5. CASE u = t
      BY <3>2, <3>3, <3>5
    <3>6. CASE u # t
      <4>1. pc'[<<u, d>>] = pc[<<u, d>>] /\ inFlight'[u] = inFlight[u]
        BY <3>2, <3>6
      <4> QED
        BY <4>1
    <3> QED
      BY <3>5, <3>6
  <2>2. CASE EndRound(t, c) /\ pc[<<t, c>>] # "idle" /\ UNCHANGED inFlight
    <3>1. CASE again[t]
      <4>1. pc' = [pc EXCEPT ![<<t, c>>] = "read"]
        BY <2>2, <3>1 DEF EndRound
      <4> QED
        BY <1>3, <2>2, <4>1 DEF Stage
    <3>2. CASE ~again[t]
      <4>1. pc' = [pc EXCEPT ![<<t, c>>] = "settled"]
        BY <2>2, <3>2 DEF EndRound
      <4> QED
        BY <1>3, <2>2, <4>1 DEF Stage
    <3> QED
      BY <3>1, <3>2
  <2>3. CASE ReadRows(t, c)
    <3>1. CASE EndRound(t, c)
      BY <2>2, <2>3, <3>1 DEF ReadRows
    <3>2. CASE pc' = [pc EXCEPT ![<<t, c>>] = "fetch"]
      <4>1. pc[<<t, c>>] # "idle" /\ UNCHANGED inFlight
        BY <2>3 DEF ReadRows
      <4> QED
        BY <1>3, <3>2, <4>1 DEF Stage
    <3> QED
      BY <2>3, <3>1, <3>2 DEF ReadRows
  <2>4. CASE FetchOk(t, c)
    BY <1>3, <2>4 DEF FetchOk, Stage
  <2>5. CASE FetchRejected(t, c) \/ FetchFailed(t, c)
    BY <2>2, <2>5 DEF FetchRejected, FetchFailed
  <2>6. CASE DeleteRows(t, c)
    BY <1>3, <2>6 DEF DeleteRows, Stage
  <2> QED
    BY <1>4, <2>1, <2>3, <2>4, <2>5, <2>6 DEF LoopStep
<1>5. ASSUME NEW t \in Tab, ClosePage(t) PROVE SingleFlight'
  <2>1. /\ inFlight' = [inFlight EXCEPT ![t] = NoCall]
        /\ pc' = [l \in Loop |-> IF l[1] = t THEN "idle" ELSE pc[l]]
    BY <1>5 DEF ClosePage
  <2> QED
    BY <1>0, <2>1
<1>6. CASE UNCHANGED vars
  BY <1>1, <1>6 DEF vars, managerVars
<1> QED
  <2>1. ASSUME NEW t \in Tab, NEW op \in Op, Enqueue(t, op)
        PROVE  UNCHANGED <<pc, inFlight>>
    BY <2>1 DEF Enqueue, managerVars
  <2>2. ASSUME NEW t \in Tab, JoinFlush(t)
        PROVE  UNCHANGED <<pc, inFlight>>
    BY <2>2 DEF JoinFlush
  <2>3. ASSUME NEW t \in Tab, OpenPage(t)
        PROVE  UNCHANGED <<pc, inFlight>>
    BY <2>3 DEF OpenPage, managerVars
  <2> QED
    BY <1>1, <1>2, <1>4, <1>5, <1>6, <2>1, <2>2, <2>3 DEF Next, Flush

(* At most one send loop runs on a page, and it is the one whose promise   *)
(* flush() hands out (queue.ts:115), whatever the store does.              *)
THEOREM OneLoopPerPage == Spec => []SingleFlight
<1>1. Init => TypeInv /\ SingleFlight
  BY InitTypeInv, InitSingleFlight
<1>2. TypeInv /\ SingleFlight /\ [Next]_vars => (TypeInv /\ SingleFlight)'
  BY NextTypeInv, NextSingleFlight
<1> QED
  BY <1>1, <1>2, PTL DEF Spec
-----------------------------------------------------------------------------
(* The rows, action by action.                                             *)

(* What the type invariant says of a row, in the words the steps need.     *)
LEMMA RowFacts ==
  ASSUME TypeInv
  PROVE  /\ \A p \in Place : /\ store[p] \in Store(Op)
                             /\ store[p].next \in Nat
                             /\ \A r \in store[p].rows :
                                  r.id \in Nat /\ r.value \in Op
         /\ \A l \in Loop : \A r \in batch[l] : r.id \in Nat /\ r.value \in Op
         /\ \A l \in Loop : l[1] \in Tab
         /\ \A l \in Loop : Reach[l[1]] \subseteq Place
<1>1. \A l \in Loop : l[1] \in Tab
  BY DEF Loop
<1>2. \A l \in Loop : Reach[l[1]] \subseteq Place
  BY <1>1, ReachPlace
<1>3. \A l \in Loop : \A r \in batch[l] : r \in Row(Op)
  BY DEF TypeInv, TypeOK
<1>4. \A p \in Place : store[p] \in Store(Op)
  BY DEF TypeInv, TypeOK
<1> QED
  BY <1>1, <1>2, <1>3, <1>4 DEF Store, Row

LEMMA InitRows == Init => RowsInv
<1> SUFFICES ASSUME Init PROVE RowsInv
  OBVIOUS
<1>1. \A p \in Place : store[p].rows = {}
  BY DEF Init, EmptyStore
<1>2. \A l \in Loop : batch[l] = {} /\ pc[l] = "idle"
  BY DEF Init
<1>3. accepted = {} /\ received = {} /\ dup = {}
  BY DEF Init
<1>4. KeysInStore /\ KeysInBatch /\ OneRow /\ OneRowInBatch
  BY <1>1, <1>2 DEF KeysInStore, KeysInBatch, OneRow, OneRowInBatch
<1>5. OnlyAccepted /\ BatchStage /\ DeletesReceived
  BY <1>1, <1>2, <1>3 DEF OnlyAccepted, BatchStage, DeletesReceived
<1>6. ResentIsSuspect /\ SharedIsSuspect /\ KeptIsSuspect /\ BatchIsOldest
  BY <1>1, <1>2
     DEF ResentIsSuspect, SharedIsSuspect, KeptIsSuspect, BatchIsOldest
<1>7. NoLoss /\ DuplicatesExplained /\ InOrder
  BY <1>1, <1>3 DEF NoLoss, DuplicatesExplained, InOrder
<1> QED
  BY <1>4, <1>5, <1>6, <1>7 DEF RowsInv

(* A step that leaves the rows alone and lets go of batches at most.       *)
LEMMA ReleaseKeepsRows ==
  ASSUME IInv,
         UNCHANGED <<store, received, accepted, lost, dup, suspect>>,
         \A k \in Loop :
           \/ /\ batch'[k] = batch[k]
              /\ pc'[k] = "fetch" <=> pc[k] = "fetch"
              /\ pc'[k] = "delete" <=> pc[k] = "delete"
           \/ /\ batch'[k] = {}
              /\ pc[k] # "delete"
              /\ pc'[k] \notin {"fetch", "delete"}
  PROVE  RowsInv'
<1> USE DEF IInv, RowsInv
<1>1. KeysInStore' /\ OneRow'
  BY DEF KeysInStore, OneRow
<1>2. KeysInBatch'
  BY DEF KeysInBatch
<1>3. OnlyAccepted'
  BY DEF OnlyAccepted
<1>4. OneRowInBatch'
  BY DEF OneRowInBatch
<1>5. BatchStage'
  BY DEF BatchStage, Sending
<1>6. DeletesReceived'
  BY DEF DeletesReceived
<1>7. ResentIsSuspect'
  BY DEF ResentIsSuspect
<1>8. SharedIsSuspect'
  BY DEF SharedIsSuspect
<1>9. KeptIsSuspect'
  BY DEF KeptIsSuspect
<1>10. BatchIsOldest'
  BY DEF BatchIsOldest
<1>11. NoLoss' /\ DuplicatesExplained' /\ InOrder'
  BY DEF NoLoss, Stored, DuplicatesExplained, InOrder
<1> QED
  BY <1>1, <1>2, <1>3, <1>4, <1>5, <1>6, <1>7, <1>8, <1>9, <1>10, <1>11

(* A new operation gets a key above all others and one row of its own.     *)
LEMMA EnqueueKeepsRows ==
  ASSUME IInv, NEW t \in Tab, NEW op \in Op, Enqueue(t, op)
  PROVE  RowsInv'
<1> USE DEF IInv, RowsInv
<1>1. PICK p \in Reach[t] : store' = [store EXCEPT ![p] = Add(@, op)]
  BY DEF Enqueue
<1>2. p \in Place /\ store[p] \in Store(Op) /\ IsFiniteSet(store[p].rows)
  BY ReachPlace DEF TypeInv, TypeOK, Finite
<1> DEFINE new == [id |-> store[p].next, value |-> op]
<1>3. /\ \A o \in Place : o # p => store'[o] = store[o]
      /\ store'[p].rows = store[p].rows \union {new}
      /\ store'[p].next = store[p].next + 1
  BY <1>1, <1>2, AddProperties DEF TypeInv, TypeOK
<1>4. new.id = store[p].next /\ new.value = op
  OBVIOUS
<1> HIDE DEF new
<1>5. /\ op \notin accepted
      /\ accepted' = accepted \union {op}
      /\ UNCHANGED <<batch, pc, received, lost, dup, suspect>>
  BY DEF Enqueue, managerVars
<1>6. \A o \in Place : \A r \in store'[o].rows :
        r \in store[o].rows \/ (o = p /\ r = new)
  BY <1>3
<1>7. \A o \in Place : /\ store[o].rows \subseteq store'[o].rows
                       /\ store[o].next \in Nat
                       /\ store[o].next <= store'[o].next
  BY <1>2, <1>3, RowFacts
<1>8. KeysInStore'
  BY <1>3, <1>4, <1>6, <1>7, RowFacts DEF KeysInStore
<1>9. KeysInBatch'
  <2> SUFFICES ASSUME NEW l \in Loop, NEW o \in Reach[l[1]], NEW r \in batch[l]
               PROVE  /\ r.id < store'[o].next
                      /\ \A q \in store'[o].rows : q.id = r.id => q = r
    BY <1>5 DEF KeysInBatch
  <2>1. o \in Place /\ r.id \in Nat
    BY RowFacts
  <2>2. /\ r.id < store[o].next
        /\ \A q \in store[o].rows : q.id = r.id => q = r
    BY DEF KeysInBatch
  <2>3. r.id < store'[o].next
    BY <1>3, <1>7, <2>1, <2>2
  <2> QED
    BY <1>4, <1>6, <1>7, <2>1, <2>2, <2>3
<1>10. OnlyAccepted'
  BY <1>4, <1>5, <1>6 DEF OnlyAccepted
<1>11. OneRow'
  BY <1>4, <1>5, <1>6 DEF OneRow, OnlyAccepted
<1>12. OneRowInBatch'
  BY <1>4, <1>5, <1>6 DEF OneRowInBatch, OnlyAccepted
<1>13. BatchStage' /\ DeletesReceived' /\ ResentIsSuspect' /\ SharedIsSuspect'
  BY <1>5 DEF BatchStage, Sending, DeletesReceived, ResentIsSuspect,
              SharedIsSuspect
<1>14. KeptIsSuspect'
  BY <1>4, <1>5, <1>6 DEF KeptIsSuspect, OnlyAccepted
<1>15. BatchIsOldest'
  <2> SUFFICES ASSUME NEW l \in Loop, NEW o \in Reach[l[1]], NEW r \in batch[l],
                      NEW q \in store'[o].rows, q.id < r.id
               PROVE  q \in batch[l] \/ q.value \in received
    BY <1>5 DEF BatchIsOldest
  <2>1. o \in Place /\ r.id \in Nat /\ r.id < store[o].next
    BY RowFacts DEF KeysInBatch
  <2>2. q \in store[o].rows
    BY <1>4, <1>6, <1>7, <2>1
  <2> QED
    BY <2>2 DEF BatchIsOldest
<1>16. NoLoss'
  <2> SUFFICES ASSUME NEW x \in accepted'
               PROVE  \/ x \in received \/ x \in lost
                      \/ \E o \in Place : \E r \in store'[o].rows : r.value = x
    BY <1>5 DEF NoLoss, Stored, Values
  <2>1. CASE x = op
    BY <1>2, <1>3, <1>4, <2>1
  <2>2. CASE x \in accepted
    BY <1>7, <2>2 DEF NoLoss, Stored, Values
  <2> QED
    BY <1>5, <2>1, <2>2
<1>17. DuplicatesExplained'
  BY <1>5 DEF DuplicatesExplained
<1>18. InOrder'
  <2> SUFFICES ASSUME NEW o \in Place,
                      NEW r \in store'[o].rows, NEW q \in store'[o].rows,
                      r.value \notin received, r.id < q.id
               PROVE  q.value \notin received
    BY <1>5 DEF InOrder
  <2>1. CASE q \in store[o].rows
    <3>1. q.id < store[o].next /\ q.id \in Nat
      BY <2>1, RowFacts DEF KeysInStore
    <3>2. r \in store[o].rows
      BY <1>4, <1>6, <1>7, <3>1
    <3> QED
      BY <2>1, <3>2 DEF InOrder
  <2>2. CASE q = new
    BY <1>4, <1>5, <2>2 DEF OnlyAccepted
  <2> QED
    BY <1>6, <2>1, <2>2
<1> QED
  BY <1>8, <1>9, <1>10, <1>11, <1>12, <1>13, <1>14, <1>15, <1>16, <1>17, <1>18

(* A read takes the oldest rows of the page's store; rows another page has *)
(* in its hands become suspect.                                            *)
LEMMA ReadKeepsRows ==
  ASSUME Consistent, IInv, NEW t \in Tab, NEW c \in Call, NEW p \in Reach[t],
         pc[<<t, c>>] = "read",
         batch' = [batch EXCEPT ![<<t, c>>] = GetAll(store[p], BatchSize)],
         pc' = [pc EXCEPT ![<<t, c>>] = "fetch"],
         suspect' = suspect \union (Values(GetAll(store[p], BatchSize))
                                    \intersect HeldElsewhere(t)),
         UNCHANGED <<store, received, accepted, lost, dup>>
  PROVE  RowsInv'
<1> USE DEF IInv, RowsInv
<1> DEFINE rows == GetAll(store[p], BatchSize)
           me == <<t, c>>
<1>1. me \in Loop /\ me[1] = t /\ p \in Place /\ Reach[t] = {p}
  BY ReachPlace DEF Loop, Consistent
<1>2. rows \subseteq store[p].rows
  BY DEF GetAll
<1>3. \A r \in rows, q \in store[p].rows : q.id < r.id => q \in rows
  <2> SUFFICES ASSUME NEW r \in rows, NEW q \in store[p].rows, q.id < r.id
               PROVE  q \in rows
    OBVIOUS
  <2> DEFINE below(x) == {y \in store[p].rows : y.id < x.id}
  <2>1. IsFiniteSet(below(r)) /\ IsFiniteSet(below(q))
    <3>1. IsFiniteSet(store[p].rows)
      BY <1>1 DEF TypeInv, Finite
    <3> QED
      BY <3>1, FS_Subset
  <2>2. below(q) \subseteq below(r)
    <3>1. \A y \in store[p].rows : y.id \in Nat
      BY <1>1, RowFacts
    <3> QED
      BY <1>2, <3>1
  <2>3. Cardinality(below(q)) <= Cardinality(below(r))
    BY <2>1, <2>2, FS_Subset
  <2>4. Cardinality(below(q)) \in Nat /\ Cardinality(below(r)) \in Nat
    BY <2>1, FS_CardinalityType
  <2>5. Cardinality(below(r)) < BatchSize
    BY DEF GetAll
  <2>6. Cardinality(below(q)) < BatchSize
    BY <2>3, <2>4, <2>5, BatchSizeAssumption
  <2> QED
    BY <2>6 DEF GetAll
<1> HIDE DEF rows
<1>4. \A l \in Loop : /\ l # me => batch'[l] = batch[l] /\ pc'[l] = pc[l]
                      /\ l = me => batch'[l] = rows /\ pc'[l] = "fetch"
  BY <1>1 DEF rows, TypeInv, TypeOK
<1>5. /\ suspect \subseteq suspect'
      /\ \A r \in rows, l \in Loop : \A q \in batch[l] :
           l[1] # t /\ q.value = r.value => r.value \in suspect'
  BY DEF rows, HeldElsewhere, Values, BatchStage
<1>6. \A l \in Loop : l[1] = t => batch[l] = {}
  <2> SUFFICES ASSUME NEW d \in Call PROVE batch[<<t, d>>] = {}
    BY DEF Loop
  <2>1. inFlight[t] = c
    BY DEF SingleFlight
  <2>2. d # c => pc[<<t, d>>] = "idle"
    BY <2>1 DEF SingleFlight
  <2>3. <<t, d>> \in Loop
    BY DEF Loop
  <2> QED
    BY <2>2, <2>3 DEF BatchStage, Sending
<1>7. KeysInStore' /\ OneRow'
  BY DEF KeysInStore, OneRow
<1>8. KeysInBatch'
  BY <1>1, <1>2, <1>4 DEF KeysInBatch, KeysInStore
<1>9. OnlyAccepted'
  BY <1>1, <1>2, <1>4 DEF OnlyAccepted
<1>10. OneRowInBatch'
  BY <1>1, <1>2, <1>4 DEF OneRowInBatch, OneRow
<1>11. BatchStage' /\ DeletesReceived'
  BY <1>4 DEF BatchStage, Sending, DeletesReceived
<1>12. ResentIsSuspect'
  <2>1. \A r \in rows : r.value \in received => r.value \in suspect'
    <3> SUFFICES ASSUME NEW r \in rows, r.value \in received, r.value \notin suspect
                 PROVE  r.value \in suspect'
      BY <1>5
    <3>1. PICK l \in Loop : r \in batch[l]
      BY <1>1, <1>2 DEF KeptIsSuspect
    <3> QED
      BY <1>5, <1>6, <3>1
  <2> QED
    BY <1>4, <1>5, <2>1 DEF ResentIsSuspect
<1>13. SharedIsSuspect'
  <2>1. \A l \in Loop : \A r \in rows, q \in batch[l] :
          q.value = r.value => r.value \in suspect'
    BY <1>5, <1>6
  <2> QED
    BY <1>4, <1>5, <2>1 DEF SharedIsSuspect
<1>14. KeptIsSuspect'
  <2>1. \A l \in Loop : pc[l] = "delete" => pc'[l] = "delete" /\ batch'[l] = batch[l]
    BY <1>4
  <2> QED
    BY <1>5, <2>1 DEF KeptIsSuspect
<1>15. BatchIsOldest'
  BY <1>1, <1>3, <1>4 DEF BatchIsOldest
<1>16. NoLoss' /\ InOrder'
  BY DEF NoLoss, Stored, InOrder
<1>17. DuplicatesExplained'
  BY <1>5 DEF DuplicatesExplained
<1> QED
  BY <1>7, <1>8, <1>9, <1>10, <1>11, <1>12, <1>13, <1>14, <1>15, <1>16, <1>17

(* Batches that reach the server do not overtake older rows.               *)
LEMMA ReceiptInOrder ==
  ASSUME IInv, NEW landed \in SUBSET Loop,
         received' = received \union UNION {Values(batch[l]) : l \in landed},
         NEW p \in Place, NEW r \in store[p].rows, NEW q \in store[p].rows,
         r.value \notin received', r.id < q.id
  PROVE  q.value \notin received'
<1> USE DEF IInv, RowsInv
<1> SUFFICES ASSUME q.value \in received' PROVE FALSE
  OBVIOUS
<1>1. q.value \notin received
  BY DEF InOrder
<1>2. PICK l \in landed : \E s \in batch[l] : s.value = q.value
  BY <1>1 DEF Values
<1>3. q \in batch[l] /\ p \in Reach[l[1]]
  BY <1>2 DEF OneRowInBatch
<1>4. r \in batch[l] \/ r.value \in received
  BY <1>3 DEF BatchIsOldest
<1> QED
  BY <1>4 DEF Values

(* The server takes a batch: its rows may be deleted from now on.          *)
LEMMA FetchOkKeepsRows ==
  ASSUME IInv, NEW t \in Tab, NEW c \in Call, FetchOk(t, c)
  PROVE  RowsInv'
<1> USE DEF IInv, RowsInv
<1> DEFINE me == <<t, c>>
<1>1. me \in Loop
  BY DEF Loop
<1>2. /\ received' = received \union Values(batch[me])
      /\ dup' = dup \union (Values(batch[me]) \intersect received)
      /\ pc[me] = "fetch"
      /\ pc' = [pc EXCEPT ![me] = "delete"]
      /\ UNCHANGED <<store, batch, accepted, lost, suspect>>
  BY DEF FetchOk, Receive
<1>3. \A l \in Loop : /\ l # me => pc'[l] = pc[l]
                      /\ l = me => pc'[l] = "delete"
  BY <1>1, <1>2 DEF TypeInv, TypeOK
<1> HIDE DEF me
<1>4. received \subseteq received'
  BY <1>2
<1>5. \A x : x \in received' <=>
            x \in received \/ \E r \in batch[me] : r.value = x
  BY <1>2 DEF Values
<1>6. KeysInStore' /\ KeysInBatch' /\ OneRow' /\ OneRowInBatch'
  BY <1>2 DEF KeysInStore, KeysInBatch, OneRow, OneRowInBatch
<1>7. OnlyAccepted'
  BY <1>1, <1>2, <1>5 DEF OnlyAccepted
<1>8. BatchStage'
  BY <1>2, <1>3 DEF BatchStage, Sending
<1>9. DeletesReceived'
  BY <1>2, <1>3, <1>5 DEF DeletesReceived
<1>10. ResentIsSuspect'
  BY <1>1, <1>2, <1>3, <1>5 DEF ResentIsSuspect, SharedIsSuspect
<1>11. SharedIsSuspect'
  BY <1>2 DEF SharedIsSuspect
<1>12. KeptIsSuspect'
  <2> SUFFICES ASSUME NEW p \in Place, NEW r \in store[p].rows,
                      r.value \in received'
               PROVE  \/ r.value \in suspect
                      \/ \E l \in Loop : pc'[l] = "delete" /\ r \in batch[l]
    BY <1>2 DEF KeptIsSuspect
  <2>1. CASE r.value \in received
    <3>1. CASE r.value \in suspect
      BY <3>1
    <3>2. ASSUME NEW l \in Loop, pc[l] = "delete", r \in batch[l]
          PROVE  pc'[l] = "delete"
      BY <1>3, <3>2
    <3> QED
      BY <2>1, <3>1, <3>2 DEF KeptIsSuspect
  <2>2. CASE \E q \in batch[me] : q.value = r.value
    <3>1. r \in batch[me]
      BY <1>1, <2>2 DEF OneRowInBatch
    <3> QED
      BY <1>1, <1>3, <3>1
  <2> QED
    BY <1>5, <2>1, <2>2
<1>13. BatchIsOldest'
  BY <1>2, <1>4 DEF BatchIsOldest
<1>14. NoLoss'
  BY <1>2, <1>4 DEF NoLoss, Stored
<1>15. DuplicatesExplained'
  <2>1. \A r \in batch[me] : r.value \in received => r.value \in suspect
    BY <1>1, <1>2 DEF ResentIsSuspect
  <2> QED
    BY <1>2, <2>1 DEF DuplicatesExplained, Values
<1>16. InOrder'
  <2> SUFFICES ASSUME NEW p \in Place,
                      NEW r \in store[p].rows, NEW q \in store[p].rows,
                      r.value \notin received', r.id < q.id
               PROVE  q.value \notin received'
    BY <1>2 DEF InOrder
  <2> DEFINE landed == {me}
  <2>1. landed \in SUBSET Loop
    BY <1>1
  <2>2. UNION {Values(batch[l]) : l \in landed} = Values(batch[me])
    OBVIOUS
  <2>3. received' = received \union UNION {Values(batch[l]) : l \in landed}
    BY <1>2, <2>2
  <2> HIDE DEF landed
  <2> QED
    BY <2>1, <2>3, ReceiptInOrder
<1> QED
  BY <1>6, <1>7, <1>8, <1>9, <1>10, <1>11, <1>12, <1>13, <1>14, <1>15, <1>16

(* A POST that reached the server although no response came back: its rows *)
(* stay where they are, and are suspect.                                   *)
LEMMA FetchFailedKeepsRows ==
  ASSUME IInv, NEW t \in Tab, NEW c \in Call, pc[<<t, c>>] = "fetch",
         Receive(Values(batch[<<t, c>>])),
         suspect' = suspect \union Values(batch[<<t, c>>]),
         EndRound(t, c),
         UNCHANGED <<store, accepted, lost>>
  PROVE  RowsInv'
<1> USE DEF IInv, RowsInv
<1> DEFINE me == <<t, c>>
           ops == Values(batch[me])
<1>1. me \in Loop
  BY DEF Loop
<1>2. received' = received \union ops /\ dup' = dup \union (ops \intersect received)
  BY DEF Receive
<1>3. \A l \in Loop :
        /\ l # me => batch'[l] = batch[l] /\ pc'[l] = pc[l]
        /\ l = me => batch'[l] = {} /\ pc'[l] \notin {"fetch", "delete"}
  BY <1>1 DEF EndRound, TypeInv, TypeOK
<1>4. /\ received \subseteq received'
      /\ suspect \subseteq suspect'
      /\ ops \subseteq suspect'
      /\ \A x \in received' : x \in received \/ x \in suspect'
  BY <1>2
<1>5. \A r \in batch[me] : r.value \in ops
  BY DEF Values
<1>6. \A x \in ops : \E r \in batch[me] : r.value = x
  BY DEF Values
<1>7. \A x \in received' : x \in accepted
  BY <1>1, <1>2, <1>6 DEF OnlyAccepted
<1>8. InOrder'
  <2> SUFFICES ASSUME NEW p \in Place,
                      NEW r \in store[p].rows, NEW q \in store[p].rows,
                      r.value \notin received', r.id < q.id
               PROVE  q.value \notin received'
    BY DEF InOrder
  <2> DEFINE landed == {me}
  <2>1. landed \in SUBSET Loop
    BY <1>1
  <2>2. UNION {Values(batch[l]) : l \in landed} = ops
    OBVIOUS
  <2>3. received' = received \union UNION {Values(batch[l]) : l \in landed}
    BY <1>2, <2>2
  <2> HIDE DEF landed
  <2> QED
    BY <2>1, <2>3, ReceiptInOrder
<1> HIDE DEF me, ops
<1>9. KeysInStore' /\ OneRow'
  BY DEF KeysInStore, OneRow
<1>10. KeysInBatch'
  BY <1>3 DEF KeysInBatch
<1>11. OnlyAccepted'
  BY <1>3, <1>7 DEF OnlyAccepted
<1>12. OneRowInBatch'
  BY <1>3 DEF OneRowInBatch
<1>13. BatchStage' /\ DeletesReceived'
  BY <1>3, <1>4 DEF BatchStage, Sending, DeletesReceived
<1>14. ResentIsSuspect'
  BY <1>3, <1>4 DEF ResentIsSuspect
<1>15. SharedIsSuspect'
  BY <1>3, <1>4 DEF SharedIsSuspect
<1>16. KeptIsSuspect'
  <2>1. pc[me] = "fetch"
    BY DEF me
  <2>2. \A l \in Loop : pc[l] = "delete" => pc'[l] = "delete" /\ batch'[l] = batch[l]
    BY <1>3, <2>1
  <2> QED
    BY <1>4, <2>2 DEF KeptIsSuspect
<1>17. BatchIsOldest'
  BY <1>3, <1>4 DEF BatchIsOldest
<1>18. NoLoss'
  BY <1>4 DEF NoLoss, Stored
<1>19. DuplicatesExplained'
  BY <1>2, <1>4 DEF DuplicatesExplained
<1> QED
  BY <1>8, <1>9, <1>10, <1>11, <1>12, <1>13, <1>14, <1>15, <1>16, <1>17, <1>18,
     <1>19

(* Deleting a batch removes its own rows from the page's store, and        *)
(* nothing the server does not have.                                       *)
LEMMA DeleteKeepsRows ==
  ASSUME Consistent, IInv, NEW t \in Tab, NEW c \in Call, DeleteRows(t, c)
  PROVE  RowsInv'
<1> USE DEF IInv, RowsInv
<1> DEFINE me == <<t, c>>
<1>1. me \in Loop /\ me[1] = t
  BY DEF Loop
<1>2. PICK p \in Reach[t] :
        store' = [store EXCEPT ![p] = DeleteMany(@, Ids(batch[me]))]
  BY DEF DeleteRows
<1>3. p \in Place /\ Reach[t] = {p} /\ store[p] \in Store(Op)
      /\ IsFiniteSet(store[p].rows)
  BY ReachPlace DEF Consistent, TypeInv, TypeOK, Finite
<1>4. /\ \A o \in Place : o # p => store'[o] = store[o]
      /\ store'[p].rows = {r \in store[p].rows : r.id \notin Ids(batch[me])}
      /\ store'[p].next = store[p].next
  BY <1>2, <1>3, DeleteManyProperties DEF TypeInv, TypeOK
<1>5. /\ pc[me] = "delete"
      /\ batch' = [batch EXCEPT ![me] = {}]
      /\ pc' = [pc EXCEPT ![me] = "read"]
      /\ UNCHANGED <<received, accepted, lost, dup, suspect>>
  BY DEF DeleteRows, historyVars
<1>6. \A l \in Loop :
        /\ l # me => batch'[l] = batch[l] /\ pc'[l] = pc[l]
        /\ l = me => batch'[l] = {} /\ pc'[l] = "read"
  BY <1>1, <1>5 DEF TypeInv, TypeOK
<1> HIDE DEF me
<1>7. \A o \in Place : /\ store'[o].rows \subseteq store[o].rows
                       /\ store'[o].next = store[o].next
  BY <1>4
<1>8. \A r \in store[p].rows : r \in store'[p].rows \/ r \in batch[me]
  <2> SUFFICES ASSUME NEW r \in store[p].rows, r.id \in Ids(batch[me])
               PROVE  r \in batch[me]
    BY <1>4
  <2>1. PICK q \in batch[me] : q.id = r.id
    BY DEF Ids
  <2> QED
    BY <1>1, <1>3, <2>1 DEF KeysInBatch
<1>9. \A o \in Place : \A r \in store'[o].rows : r \notin batch[me]
  <2> SUFFICES ASSUME NEW o \in Place, NEW r \in store'[o].rows, r \in batch[me]
               PROVE  FALSE
    OBVIOUS
  <2>1. o = p
    BY <1>1, <1>3, <1>7 DEF OneRowInBatch
  <2>2. r.id \in Ids(batch[me])
    BY DEF Ids
  <2> QED
    BY <1>4, <2>1, <2>2
<1>10. KeysInStore' /\ OneRow'
  BY <1>7 DEF KeysInStore, OneRow
<1>11. KeysInBatch'
  BY <1>6, <1>7, RowFacts DEF KeysInBatch
<1>12. OnlyAccepted'
  BY <1>5, <1>6, <1>7 DEF OnlyAccepted
<1>13. OneRowInBatch'
  BY <1>6, <1>7 DEF OneRowInBatch
<1>14. BatchStage' /\ DeletesReceived'
  BY <1>5, <1>6 DEF BatchStage, Sending, DeletesReceived
<1>15. ResentIsSuspect'
  BY <1>5, <1>6 DEF ResentIsSuspect
<1>16. SharedIsSuspect'
  BY <1>5, <1>6 DEF SharedIsSuspect
<1>17. KeptIsSuspect'
  <2> SUFFICES ASSUME NEW o \in Place, NEW r \in store'[o].rows,
                      r.value \in received, r.value \notin suspect
               PROVE  \E l \in Loop : pc'[l] = "delete" /\ r \in batch'[l]
    BY <1>5 DEF KeptIsSuspect
  <2>1. PICK l \in Loop : pc[l] = "delete" /\ r \in batch[l]
    BY <1>7 DEF KeptIsSuspect
  <2>2. l # me
    BY <1>9, <2>1
  <2> QED
    BY <1>6, <2>1, <2>2
<1>18. BatchIsOldest'
  BY <1>5, <1>6, <1>7, RowFacts DEF BatchIsOldest
<1>19. NoLoss'
  <2> SUFFICES ASSUME NEW x \in accepted, x \notin received, x \notin lost
               PROVE  \E o \in Place : \E r \in store'[o].rows : r.value = x
    BY <1>5 DEF NoLoss, Stored, Values
  <2>1. PICK o \in Place : \E r \in store[o].rows : r.value = x
    BY DEF NoLoss, Stored, Values
  <2>2. PICK r \in store[o].rows : r.value = x
    BY <2>1
  <2>3. r \notin batch[me]
    BY <1>1, <1>5, <2>2 DEF DeletesReceived
  <2> QED
    BY <1>4, <1>8, <2>2, <2>3
<1>20. DuplicatesExplained'
  BY <1>5 DEF DuplicatesExplained
<1>21. InOrder'
  BY <1>5, <1>7 DEF InOrder
<1> QED
  BY <1>10, <1>11, <1>12, <1>13, <1>14, <1>15, <1>16, <1>17, <1>18, <1>19, <1>20,
     <1>21

(* A page that closes takes its memory store and its batches along.  What  *)
(* its requests brought to the server, or its deletes did not finish, is   *)
(* suspect.                                                                *)
LEMMA CloseKeepsRows ==
  ASSUME IInv, NEW t \in Tab, ClosePage(t)
  PROVE  RowsInv'
<1> USE DEF IInv, RowsInv
<1>1. PICK landed \in SUBSET {c \in Call : pc[<<t, c>>] = "fetch"} :
        LET ops == UNION {Values(batch[<<t, c>>]) : c \in landed}
            unacknowledged ==
              ops \union UNION {Values(batch[<<t, c>>]) :
                                 c \in {d \in Call : pc[<<t, d>>] = "delete"}}
        IN  /\ Receive(ops)
            /\ suspect' = suspect \union unacknowledged
            /\ lost' = lost \union
                       {op \in Values(store[t].rows) : op \notin received'}
  BY DEF ClosePage
<1> DEFINE sent_ == {<<t, c>> : c \in landed}
           ops_ == UNION {Values(batch[l]) : l \in sent_}
<1>2. sent_ \in SUBSET Loop
  BY DEF Loop
<1>3. UNION {Values(batch[<<t, c>>]) : c \in landed} = ops_
  OBVIOUS
<1>4. /\ received' = received \union ops_
      /\ dup' = dup \union (ops_ \intersect received)
      /\ ops_ \subseteq suspect'
      /\ suspect \subseteq suspect'
      /\ lost \subseteq lost'
      /\ \A r \in store[t].rows : r.value \in received' \/ r.value \in lost'
  BY <1>1, <1>3 DEF Receive, Values
<1>5. \A l \in Loop : l[1] = t /\ pc[l] = "delete" =>
        \A r \in batch[l] : r.value \in suspect'
  BY <1>1 DEF Values, Loop
<1>6. /\ t \in Place
      /\ store' = [store EXCEPT ![t] = EmptyStore]
      /\ pc' = [l \in Loop |-> IF l[1] = t THEN "idle" ELSE pc[l]]
      /\ batch' = [l \in Loop |-> IF l[1] = t THEN {} ELSE batch[l]]
      /\ UNCHANGED accepted
  BY DEF ClosePage, Place
<1>7. /\ store'[t].rows = {}
      /\ \A p \in Place : p # t => store'[p] = store[p]
      /\ \A p \in Place : store'[p].rows \subseteq store[p].rows
  BY <1>6 DEF EmptyStore, TypeInv, TypeOK
<1>8. \A l \in Loop :
        /\ l[1] = t => batch'[l] = {} /\ pc'[l] = "idle"
        /\ l[1] # t => batch'[l] = batch[l] /\ pc'[l] = pc[l]
  BY <1>6
<1>9. \A l \in Loop : l[1] # t => t \notin Reach[l[1]]
  BY RowFacts, ReachAssumption, IndexedDBAssumption
<1>10. \A x \in ops_ : \E l \in Loop : \E r \in batch[l] : r.value = x
  BY <1>2 DEF Values
<1>11. InOrder'
  <2> SUFFICES ASSUME NEW p \in Place,
                      NEW r \in store[p].rows, NEW q \in store[p].rows,
                      r.value \notin received', r.id < q.id
               PROVE  q.value \notin received'
    BY <1>7 DEF InOrder
  <2> HIDE DEF sent_
  <2> QED
    BY <1>2, <1>4, ReceiptInOrder
<1> HIDE DEF sent_, ops_
<1>12. KeysInStore' /\ OneRow'
  BY <1>7 DEF KeysInStore, OneRow
<1>13. KeysInBatch'
  <2> SUFFICES ASSUME NEW l \in Loop, NEW p \in Reach[l[1]], NEW r \in batch'[l]
               PROVE  /\ r.id < store'[p].next
                      /\ \A q \in store'[p].rows : q.id = r.id => q = r
    BY DEF KeysInBatch
  <2>1. l[1] # t /\ r \in batch[l]
    BY <1>8
  <2>2. store'[p] = store[p]
    BY <1>7, <1>9, <2>1, RowFacts
  <2> QED
    BY <2>1, <2>2 DEF KeysInBatch
<1>14. OnlyAccepted'
  <2>1. \A x \in received' : x \in accepted
    BY <1>4, <1>10 DEF OnlyAccepted
  <2> QED
    BY <1>6, <1>7, <1>8, <2>1 DEF OnlyAccepted
<1>15. OneRowInBatch'
  BY <1>7, <1>8 DEF OneRowInBatch
<1>16. BatchStage' /\ DeletesReceived'
  BY <1>4, <1>8 DEF BatchStage, Sending, DeletesReceived
<1>17. ResentIsSuspect'
  BY <1>4, <1>8 DEF ResentIsSuspect
<1>18. SharedIsSuspect'
  BY <1>4, <1>8 DEF SharedIsSuspect
<1>19. KeptIsSuspect'
  <2> SUFFICES ASSUME NEW p \in Place, NEW r \in store[p].rows,
                      r.value \in received, r.value \notin suspect'
               PROVE  \E l \in Loop : pc'[l] = "delete" /\ r \in batch'[l]
    BY <1>4, <1>7 DEF KeptIsSuspect
  <2>1. PICK l \in Loop : pc[l] = "delete" /\ r \in batch[l]
    BY <1>4 DEF KeptIsSuspect
  <2>2. l[1] # t
    BY <1>5, <2>1
  <2> QED
    BY <1>8, <2>1, <2>2
<1>20. BatchIsOldest'
  <2> SUFFICES ASSUME NEW l \in Loop, NEW p \in Reach[l[1]], NEW r \in batch'[l],
                      NEW q \in store'[p].rows, q.id < r.id
               PROVE  q \in batch'[l] \/ q.value \in received'
    BY DEF BatchIsOldest
  <2>1. l[1] # t /\ batch'[l] = batch[l]
    BY <1>8
  <2>2. q \in store[p].rows
    BY <1>7, RowFacts
  <2> QED
    BY <1>4, <2>1, <2>2 DEF BatchIsOldest
<1>21. NoLoss'
  <2> SUFFICES ASSUME NEW x \in accepted, x \notin received', x \notin lost'
               PROVE  \E p \in Place : \E r \in store'[p].rows : r.value = x
    BY <1>6 DEF NoLoss, Stored, Values
  <2>1. PICK p \in Place : \E r \in store[p].rows : r.value = x
    BY <1>4 DEF NoLoss, Stored, Values
  <2>2. p # t
    BY <1>4, <2>1
  <2> QED
    BY <1>7, <2>1, <2>2
<1>22. DuplicatesExplained'
  BY <1>4 DEF DuplicatesExplained
<1> QED
  BY <1>11, <1>12, <1>13, <1>14, <1>15, <1>16, <1>17, <1>18, <1>19, <1>20, <1>21,
     <1>22
-----------------------------------------------------------------------------
LEMMA NextRows == Consistent /\ IInv /\ [Next]_vars => RowsInv'
<1> SUFFICES ASSUME Consistent, IInv, [Next]_vars PROVE RowsInv'
  OBVIOUS
<1>0. \A t \in Tab, c \in Call : <<t, c>> \in Loop
  BY DEF Loop
<1>1. ASSUME UNCHANGED <<store, batch, received, accepted, lost, dup, suspect>>,
             \A k \in Loop : /\ pc'[k] = "fetch" <=> pc[k] = "fetch"
                             /\ pc'[k] = "delete" <=> pc[k] = "delete"
      PROVE  RowsInv'
  BY <1>1, ReleaseKeepsRows
<1>2. ASSUME NEW t \in Tab, NEW c \in Call, EndRound(t, c),
             pc[<<t, c>>] # "delete",
             UNCHANGED <<store, received, accepted, lost, dup, suspect>>
      PROVE  RowsInv'
  <2>1. \A k \in Loop :
          /\ k # <<t, c>> => batch'[k] = batch[k] /\ pc'[k] = pc[k]
          /\ k = <<t, c>> => batch'[k] = {} /\ pc'[k] \notin {"fetch", "delete"}
    BY <1>0, <1>2 DEF EndRound, IInv, TypeInv, TypeOK
  <2> QED
    BY <1>2, <2>1, ReleaseKeepsRows
<1>3. CASE UNCHANGED vars
  BY <1>1, <1>3 DEF vars, managerVars, historyVars
<1>4. ASSUME NEW t \in Tab, JoinFlush(t) PROVE RowsInv'
  BY <1>1, <1>4 DEF JoinFlush, historyVars
<1>5. ASSUME NEW t \in Tab, OpenPage(t) PROVE RowsInv'
  BY <1>1, <1>5 DEF OpenPage, managerVars, historyVars
<1>6. ASSUME NEW t \in Tab, NEW c \in Call, StartFlush(t, c) PROVE RowsInv'
  <2>1. \A k \in Loop : /\ pc'[k] = "fetch" <=> pc[k] = "fetch"
                        /\ pc'[k] = "delete" <=> pc[k] = "delete"
    BY <1>0, <1>6 DEF StartFlush, IInv, TypeInv, TypeOK
  <2> QED
    BY <1>1, <1>6, <2>1 DEF StartFlush, historyVars
<1>7. ASSUME NEW t \in Tab, NEW c \in Call, LoopStep(t, c) PROVE RowsInv'
  <2>1. CASE ReadRows(t, c)
    <3>1. PICK p \in Reach[t] :
            IF GetAll(store[p], BatchSize) = {}
            THEN EndRound(t, c) /\ UNCHANGED suspect
            ELSE /\ batch' = [batch EXCEPT ![<<t, c>>] = GetAll(store[p], BatchSize)]
                 /\ pc' = [pc EXCEPT ![<<t, c>>] = "fetch"]
                 /\ suspect' = suspect \union (Values(GetAll(store[p], BatchSize))
                                               \intersect HeldElsewhere(t))
                 /\ UNCHANGED again
      BY <2>1 DEF ReadRows
    <3>2. /\ pc[<<t, c>>] = "read"
          /\ UNCHANGED <<store, received, accepted, lost, dup>>
      BY <2>1 DEF ReadRows
    <3>3. CASE GetAll(store[p], BatchSize) = {}
      BY <1>2, <3>1, <3>2, <3>3
    <3>4. CASE GetAll(store[p], BatchSize) # {}
      BY <3>1, <3>2, <3>4, ReadKeepsRows
    <3> QED
      BY <3>3, <3>4
  <2>2. CASE FetchOk(t, c)
    BY <2>2, FetchOkKeepsRows
  <2>3. CASE FetchRejected(t, c)
    BY <1>2, <2>3 DEF FetchRejected, historyVars
  <2>4. CASE FetchFailed(t, c)
    <3>1. /\ pc[<<t, c>>] = "fetch"
          /\ EndRound(t, c)
          /\ UNCHANGED <<store, accepted, lost>>
      BY <2>4 DEF FetchFailed
    <3>2. CASE UNCHANGED <<received, dup, suspect>>
      BY <1>2, <3>1, <3>2
    <3>3. CASE /\ Receive(Values(batch[<<t, c>>]))
               /\ suspect' = suspect \union Values(batch[<<t, c>>])
      BY <3>1, <3>3, FetchFailedKeepsRows
    <3> QED
      BY <2>4, <3>2, <3>3 DEF FetchFailed
  <2>5. CASE DeleteRows(t, c)
    BY <2>5, DeleteKeepsRows
  <2>6. CASE Settle(t, c)
    <3>1. \A k \in Loop : /\ pc'[k] = "fetch" <=> pc[k] = "fetch"
                          /\ pc'[k] = "delete" <=> pc[k] = "delete"
      BY <1>0, <2>6 DEF Settle, IInv, TypeInv, TypeOK
    <3> QED
      BY <1>1, <2>6, <3>1 DEF Settle, historyVars
  <2> QED
    BY <1>7, <2>1, <2>2, <2>3, <2>4, <2>5, <2>6 DEF LoopStep
<1> QED
  BY <1>3, <1>4, <1>5, <1>6, <1>7, EnqueueKeepsRows, CloseKeepsRows DEF Next, Flush

(* The queue's safety, for pages that reach one store for as long as they  *)
(* live: no accepted operation is lost, the server gets a second copy only *)
(* where one cannot be avoided, and operations arrive in stored order.     *)
THEOREM QueueIsSafe ==
  ASSUME Consistent
  PROVE  Spec => [](NoLoss /\ DuplicatesExplained /\ InOrder)
<1>1. Init => IInv
  BY InitTypeInv, InitSingleFlight, InitRows DEF IInv
<1>2. IInv /\ [Next]_vars => IInv'
  BY NextTypeInv, NextSingleFlight, NextRows DEF IInv
<1>3. IInv => NoLoss /\ DuplicatesExplained /\ InOrder
  BY DEF IInv, RowsInv
<1> QED
  BY <1>1, <1>2, <1>3, PTL DEF Spec

(* One by one: operations arrive in stored order, across any number of     *)
(* flushes, retries and pages (queue.ts:126, 199).                         *)
THEOREM StoredOrderKept ==
  ASSUME Consistent
  PROVE  Spec => []InOrder
  BY QueueIsSafe, PTL

(* The server gets a second copy only where one cannot be avoided.         *)
THEOREM DuplicatesHaveACause ==
  ASSUME Consistent
  PROVE  Spec => []DuplicatesExplained
  BY QueueIsSafe, PTL
-----------------------------------------------------------------------------
(***************************************************************************)
(* The refinement, for the same pages.  What a closing page takes with it  *)
(* is gone for good: it is in no store and no batch, and the server never  *)
(* gets it.  A step then either takes one operation in, or moves           *)
(* operations from the stores to the server or to the lost ones.           *)
(***************************************************************************)
LostIsGone ==
  /\ lost \subseteq accepted
  /\ lost \intersect received = {}
  /\ \A p \in Place : \A r \in store[p].rows : r.value \notin lost
  /\ \A l \in Loop : \A r \in batch[l] : r.value \notin lost

TakesIn(op) ==
  /\ op \notin accepted
  /\ UNCHANGED <<received, lost>>
  /\ Stored' = Stored \union {op}

Moves(dropped) ==
  /\ received \subseteq received'
  /\ received' \subseteq received \union Stored
  /\ dropped \subseteq Stored \ received'
  /\ lost' = lost \union dropped
  /\ Stored' \ received' = (Stored \ received') \ dropped

KeepsPromise ==
  /\ LostIsGone'
  /\ (\E op \in Op : TakesIn(op)) \/ (\E dropped : Moves(dropped))

LEMMA StoredRows ==
  \A x : /\ x \in Stored <=> \E p \in Place : \E r \in store[p].rows : r.value = x
         /\ x \in Stored' <=> \E p \in Place : \E r \in store'[p].rows : r.value = x
  BY DEF Stored, Values

(* An operation in a batch is at the server or still in a store.           *)
LEMMA BatchIsSomewhere ==
  ASSUME IInv, LostIsGone, NEW l \in Loop, NEW r \in batch[l]
  PROVE  r.value \in received \union Stored
<1>1. r.value \in accepted /\ r.value \notin lost
  BY DEF IInv, RowsInv, OnlyAccepted, LostIsGone
<1> QED
  BY <1>1 DEF IInv, RowsInv, NoLoss

LEMMA InitLostIsGone == Init => LostIsGone
  BY DEF Init, LostIsGone, EmptyStore

LEMMA EnqueueTakesIn ==
  ASSUME IInv, LostIsGone, NEW t \in Tab, NEW op \in Op, Enqueue(t, op)
  PROVE  TakesIn(op) /\ LostIsGone'
<1>1. PICK p \in Reach[t] : store' = [store EXCEPT ![p] = Add(@, op)]
  BY DEF Enqueue
<1>2. p \in Place /\ store[p] \in Store(Op) /\ IsFiniteSet(store[p].rows)
  BY ReachPlace DEF IInv, TypeInv, TypeOK, Finite
<1> DEFINE new == [id |-> store[p].next, value |-> op]
<1>3. /\ \A o \in Place : o # p => store'[o] = store[o]
      /\ store'[p].rows = store[p].rows \union {new}
      /\ new.value = op
  BY <1>1, <1>2, AddProperties DEF IInv, TypeInv, TypeOK
<1> HIDE DEF new
<1>4. /\ op \notin accepted
      /\ accepted' = accepted \union {op}
      /\ UNCHANGED <<batch, received, lost>>
  BY DEF Enqueue, managerVars
<1>5. \A x : x \in Stored' <=> x \in Stored \union {op}
  <2>1. \A x : x \in Stored' => x \in Stored \union {op}
    BY <1>3, StoredRows
  <2>2. \A x \in Stored : x \in Stored'
    BY <1>3, StoredRows
  <2>3. op \in Stored'
    BY <1>2, <1>3, StoredRows
  <2> QED
    BY <2>1, <2>2, <2>3
<1>6. LostIsGone'
  <2>1. \A o \in Place : \A r \in store'[o].rows : r.value \notin lost'
    <3> SUFFICES ASSUME NEW o \in Place, NEW r \in store'[o].rows
                 PROVE  r.value \notin lost
      BY <1>4
    <3>1. r \in store[o].rows \/ r = new
      BY <1>3
    <3> QED
      BY <1>3, <1>4, <3>1 DEF LostIsGone
  <2> QED
    BY <1>4, <2>1 DEF LostIsGone
<1> QED
  BY <1>4, <1>5, <1>6 DEF TakesIn

(* Steps that leave the stores alone: the rows of a batch may reach the    *)
(* server, and a batch is read from a store.                               *)
LEMMA StoreKeptMoves ==
  ASSUME IInv, LostIsGone, UNCHANGED <<store, lost, accepted>>,
         received \subseteq received',
         \A x \in received' : x \in received \/ \E l \in Loop : \E r \in batch[l] : r.value = x,
         \A l \in Loop : \A r \in batch'[l] :
            r \in batch[l] \/ \E p \in Place : r \in store[p].rows
  PROVE  Moves({}) /\ LostIsGone'
<1>1. received' \subseteq received \union Stored
  BY BatchIsSomewhere
<1>2. Stored' = Stored
  BY DEF Stored
<1>3. LostIsGone'
  BY DEF LostIsGone
<1> QED
  BY <1>1, <1>2, <1>3 DEF Moves

LEMMA DeleteMoves ==
  ASSUME Consistent, IInv, LostIsGone, NEW t \in Tab, NEW c \in Call,
         DeleteRows(t, c)
  PROVE  Moves({}) /\ LostIsGone'
<1> DEFINE me == <<t, c>>
<1>1. me \in Loop /\ me[1] = t
  BY DEF Loop
<1>2. PICK p \in Reach[t] :
        store' = [store EXCEPT ![p] = DeleteMany(@, Ids(batch[me]))]
  BY DEF DeleteRows
<1>3. p \in Place /\ store[p] \in Store(Op) /\ IsFiniteSet(store[p].rows)
  BY ReachPlace DEF IInv, TypeInv, TypeOK, Finite
<1>4. /\ \A o \in Place : o # p => store'[o] = store[o]
      /\ store'[p].rows = {r \in store[p].rows : r.id \notin Ids(batch[me])}
  BY <1>2, <1>3, DeleteManyProperties DEF IInv, TypeInv, TypeOK
<1>5. /\ pc[me] = "delete"
      /\ batch' = [batch EXCEPT ![me] = {}]
      /\ UNCHANGED <<received, accepted, lost>>
  BY DEF DeleteRows, historyVars
<1>6. \A l \in Loop : \A r \in batch'[l] : r \in batch[l]
  BY <1>1, <1>5 DEF IInv, TypeInv, TypeOK
<1> HIDE DEF me
<1>7. \A o \in Place : \A r \in store[o].rows :
        r \in store'[o].rows \/ r.value \in received
  <2> SUFFICES ASSUME NEW o \in Place, NEW r \in store[o].rows,
                      r \notin store'[o].rows
               PROVE  r.value \in received
    OBVIOUS
  <2>1. o = p /\ r.id \in Ids(batch[me])
    BY <1>4
  <2>2. PICK q \in batch[me] : q.id = r.id
    BY <2>1 DEF Ids
  <2>3. r = q
    BY <1>1, <2>1, <2>2 DEF IInv, RowsInv, KeysInBatch
  <2> QED
    BY <1>1, <1>5, <2>3 DEF IInv, RowsInv, DeletesReceived
<1>8. Stored' \ received = Stored \ received
  <2>1. \A x : x \in Stored' => x \in Stored
    BY <1>4, StoredRows
  <2>2. \A x \in Stored : x \in Stored' \/ x \in received
    BY <1>7, StoredRows
  <2> QED
    BY <2>1, <2>2
<1>9. LostIsGone'
  BY <1>4, <1>5, <1>6 DEF LostIsGone
<1> QED
  BY <1>5, <1>8, <1>9 DEF Moves

(* A closing page: what was only in its memory and did not get out is lost.*)
LEMMA CloseMoves ==
  ASSUME IInv, LostIsGone, NEW t \in Tab, ClosePage(t)
  PROVE  (\E dropped : Moves(dropped)) /\ LostIsGone'
<1> DEFINE dropped == {op \in Values(store[t].rows) : op \notin received'}
<1>1. /\ t \in Place
      /\ store' = [store EXCEPT ![t] = EmptyStore]
      /\ batch' = [l \in Loop |-> IF l[1] = t THEN {} ELSE batch[l]]
      /\ UNCHANGED accepted
  BY DEF ClosePage, Place
<1>2. /\ store'[t].rows = {}
      /\ \A p \in Place : p # t => store'[p] = store[p]
  BY <1>1 DEF EmptyStore, IInv, TypeInv, TypeOK
<1>3. \A l \in Loop : batch'[l] = IF l[1] = t THEN {} ELSE batch[l]
  BY <1>1
<1>4. lost' = lost \union dropped
  BY DEF ClosePage
<1>5. /\ received \subseteq received'
      /\ \A x \in received' :
           x \in received \/ \E l \in Loop : \E r \in batch[l] : r.value = x
  <2>1. PICK landed \in SUBSET Call :
          Receive(UNION {Values(batch[<<t, c>>]) : c \in landed})
    BY DEF ClosePage
  <2>2. \A c \in landed : <<t, c>> \in Loop
    BY DEF Loop
  <2> QED
    BY <2>1, <2>2 DEF Receive, Values
<1>6. received' \subseteq received \union Stored
  BY <1>5, BatchIsSomewhere
<1>7. \A x : x \in dropped <=>
               x \notin received' /\ \E r \in store[t].rows : r.value = x
  BY DEF Values
<1> HIDE DEF dropped
<1>8. dropped \subseteq Stored \ received'
  BY <1>1, <1>7, StoredRows
<1>9. \A p \in Place : \A r \in store'[p].rows : r.value \notin dropped
  <2> SUFFICES ASSUME NEW p \in Place, NEW r \in store'[p].rows,
                      r.value \in dropped
               PROVE  FALSE
    OBVIOUS
  <2>1. p # t /\ r \in store[p].rows
    BY <1>2
  <2>2. PICK q \in store[t].rows : q.value = r.value
    BY <1>7
  <2> QED
    BY <1>1, <2>1, <2>2 DEF IInv, RowsInv, OneRow
<1>10. Stored' \ received' = (Stored \ received') \ dropped
  <2>1. \A x \in Stored' : x \in Stored /\ x \notin dropped
    <3> TAKE x \in Stored'
    <3>1. PICK p \in Place : \E r \in store'[p].rows : r.value = x
      BY StoredRows
    <3>2. p # t
      BY <1>2, <3>1
    <3> QED
      BY <1>2, <1>9, <3>1, <3>2, StoredRows
  <2>2. ASSUME NEW x \in Stored, x \notin received', x \notin dropped
        PROVE  x \in Stored'
    <3>1. PICK p \in Place : \E r \in store[p].rows : r.value = x
      BY StoredRows
    <3>2. p # t
      BY <1>7, <2>2, <3>1
    <3> QED
      BY <1>2, <3>1, <3>2, StoredRows
  <2> QED
    BY <2>1, <2>2
<1>11. LostIsGone'
  <2>1. lost' \subseteq accepted'
    <3>1. \A x \in dropped : x \in accepted
      BY <1>1, <1>7 DEF IInv, RowsInv, OnlyAccepted
    <3> QED
      BY <1>1, <1>4, <3>1 DEF LostIsGone
  <2>2. lost' \intersect received' = {}
    BY <1>4, <1>5, <1>7 DEF LostIsGone
  <2>3. \A p \in Place : \A r \in store'[p].rows : r.value \notin lost'
    BY <1>2, <1>4, <1>9 DEF LostIsGone
  <2>4. \A l \in Loop : \A r \in batch'[l] : r.value \notin lost'
    <3> SUFFICES ASSUME NEW l \in Loop, NEW r \in batch'[l], r.value \in dropped
                 PROVE  FALSE
      BY <1>3, <1>4 DEF LostIsGone
    <3>1. l[1] # t /\ r \in batch[l]
      BY <1>3
    <3>2. PICK q \in store[t].rows : q.value = r.value
      BY <1>7
    <3>3. t \in Reach[l[1]]
      BY <1>1, <3>1, <3>2 DEF IInv, RowsInv, OneRowInBatch
    <3>4. l[1] \in Tab
      BY DEF Loop
    <3> QED
      BY <3>1, <3>3, <3>4, ReachAssumption, IndexedDBAssumption
  <2> QED
    BY <2>1, <2>2, <2>3, <2>4 DEF LostIsGone
<1> QED
  BY <1>4, <1>5, <1>6, <1>8, <1>10, <1>11 DEF Moves

LEMMA StepShape ==
  ASSUME Consistent, IInv, LostIsGone, [Next]_vars
  PROVE  KeepsPromise
<1> USE DEF KeepsPromise
<1>0. \A t \in Tab, c \in Call : <<t, c>> \in Loop
  BY DEF Loop
<1>1. ASSUME UNCHANGED <<store, batch, received, lost, accepted>> PROVE KeepsPromise
  BY <1>1, StoreKeptMoves
<1>2. ASSUME NEW t \in Tab, NEW c \in Call, EndRound(t, c)
      PROVE  \A l \in Loop : batch'[l] \subseteq batch[l]
  BY <1>0, <1>2 DEF EndRound, IInv, TypeInv, TypeOK
<1>3. ASSUME NEW t \in Tab, NEW c \in Call, EndRound(t, c),
             UNCHANGED <<store, lost, accepted>>,
             \/ UNCHANGED received
             \/ received' = received \union Values(batch[<<t, c>>])
      PROVE  KeepsPromise
  <2>1. \A l \in Loop : \A r \in batch'[l] : r \in batch[l]
    BY <1>2, <1>3
  <2>2. \A x \in received' :
          x \in received \/ \E l \in Loop : \E r \in batch[l] : r.value = x
    BY <1>0, <1>3 DEF Values
  <2> QED
    BY <1>3, <2>1, <2>2, StoreKeptMoves
<1>4. CASE UNCHANGED vars
  BY <1>1, <1>4 DEF vars, managerVars, historyVars
<1>5. ASSUME NEW t \in Tab, JoinFlush(t) \/ OpenPage(t) PROVE KeepsPromise
  BY <1>1, <1>5 DEF JoinFlush, OpenPage, managerVars, historyVars
<1>6. ASSUME NEW t \in Tab, NEW c \in Call, StartFlush(t, c) \/ Settle(t, c)
      PROVE  KeepsPromise
  BY <1>1, <1>6 DEF StartFlush, Settle, historyVars
<1>7. ASSUME NEW t \in Tab, NEW c \in Call, ReadRows(t, c) PROVE KeepsPromise
  <2>1. PICK p \in Reach[t] :
          \/ EndRound(t, c)
          \/ batch' = [batch EXCEPT ![<<t, c>>] = GetAll(store[p], BatchSize)]
    BY <1>7 DEF ReadRows
  <2>2. UNCHANGED <<store, received, accepted, lost>>
    BY <1>7 DEF ReadRows
  <2>3. CASE EndRound(t, c)
    BY <1>3, <2>2, <2>3
  <2>4. CASE batch' = [batch EXCEPT ![<<t, c>>] = GetAll(store[p], BatchSize)]
    <3>1. p \in Place
      BY ReachPlace
    <3>2. \A r \in GetAll(store[p], BatchSize) : r \in store[p].rows
      BY DEF GetAll
    <3>3. \A l \in Loop : batch'[l] = IF l = <<t, c>> THEN GetAll(store[p], BatchSize)
                                      ELSE batch[l]
      BY <1>0, <2>4 DEF IInv, TypeInv, TypeOK
    <3>4. \A l \in Loop : \A r \in batch'[l] :
            r \in batch[l] \/ \E o \in Place : r \in store[o].rows
      BY <3>1, <3>2, <3>3
    <3> QED
      BY <2>2, <3>4, StoreKeptMoves
  <2> QED
    BY <2>1, <2>3, <2>4
<1>8. ASSUME NEW t \in Tab, NEW c \in Call, FetchOk(t, c) PROVE KeepsPromise
  <2>1. /\ received' = received \union Values(batch[<<t, c>>])
        /\ UNCHANGED <<store, batch, accepted, lost>>
    BY <1>8 DEF FetchOk, Receive
  <2>2. \A x \in received' :
          x \in received \/ \E l \in Loop : \E r \in batch[l] : r.value = x
    BY <1>0, <2>1 DEF Values
  <2> QED
    BY <2>1, <2>2, StoreKeptMoves
<1>9. ASSUME NEW t \in Tab, NEW c \in Call, FetchRejected(t, c) \/ FetchFailed(t, c)
      PROVE  KeepsPromise
  BY <1>3, <1>9 DEF FetchRejected, FetchFailed, Receive, historyVars
<1>10. ASSUME NEW t \in Tab, NEW c \in Call, DeleteRows(t, c) PROVE KeepsPromise
  BY <1>10, DeleteMoves
<1>11. ASSUME NEW t \in Tab, ClosePage(t) PROVE KeepsPromise
  BY <1>11, CloseMoves
<1>12. ASSUME NEW t \in Tab, NEW op \in Op, Enqueue(t, op) PROVE KeepsPromise
  BY <1>12, EnqueueTakesIn
<1> HIDE DEF KeepsPromise
<1>13. ASSUME NEW t \in Tab, NEW c \in Call, LoopStep(t, c) PROVE KeepsPromise
  BY <1>6, <1>7, <1>8, <1>9, <1>10, <1>13 DEF LoopStep
<1>14. CASE Next
  <2>1. PICK t \in Tab :
          \/ \E op \in Op : Enqueue(t, op)
          \/ JoinFlush(t)
          \/ \E c \in Call : StartFlush(t, c)
          \/ \E c \in Call : LoopStep(t, c)
          \/ ClosePage(t)
          \/ OpenPage(t)
    BY <1>14 DEF Next, Flush
  <2> QED
    BY <2>1, <1>5, <1>6, <1>11, <1>12, <1>13
<1> QED
  BY <1>4, <1>14

LEMMA RefinementStep ==
  ASSUME Consistent, IInv, LostIsGone, [Next]_vars
  PROVE  [Delivery!Next]_(Delivery!vars)
<1>1. ASSUME NEW op \in Op, TakesIn(op) PROVE Delivery!Next
  <2>1. op \notin Stored \union received \union lost
    <3>1. op \notin Stored
      BY <1>1, StoredRows DEF TakesIn, IInv, RowsInv, OnlyAccepted
    <3> QED
      BY <1>1, <3>1 DEF TakesIn, IInv, RowsInv, OnlyAccepted, LostIsGone
  <2>2. Delivery!Accept(op, {})
    BY <1>1, <2>1 DEF TakesIn, Delivery!Accept
  <2> QED
    BY <2>2 DEF Delivery!Next
<1>2. ASSUME NEW dropped, Moves(dropped) PROVE Delivery!Next
  <2>1. Delivery!Resolve(received' \ received, dropped)
    BY <1>2 DEF Moves, Delivery!Resolve
  <2>2. /\ received' \ received \in SUBSET (Stored \ received)
        /\ dropped \in SUBSET (Stored \ received)
    BY <1>2 DEF Moves
  <2> QED
    BY <2>1, <2>2 DEF Delivery!Next
<1> QED
  BY <1>1, <1>2, StepShape DEF KeepsPromise

(* The queue implements at-least-once delivery (queue.ts:126): an accepted *)
(* operation waits until the server has it or the memory it is in dies, it *)
(* is never revived, and nothing is sent that was not enqueued.            *)
THEOREM QueueDelivers ==
  ASSUME Consistent
  PROVE  Spec => ImplementsAtLeastOnce
<1>1. Init => Delivery!Init
  <2> SUFFICES ASSUME Init PROVE Delivery!Init
    OBVIOUS
  <2>1. Stored = {}
    BY DEF Init, Stored, Values, EmptyStore
  <2> QED
    BY <2>1 DEF Init, Delivery!Init
<1>2. Spec => []IInv
  <2>1. Init => IInv
    BY InitTypeInv, InitSingleFlight, InitRows DEF IInv
  <2>2. IInv /\ [Next]_vars => IInv'
    BY NextTypeInv, NextSingleFlight, NextRows DEF IInv
  <2> QED
    BY <2>1, <2>2, PTL DEF Spec
<1>3. IInv /\ LostIsGone /\ [Next]_vars => LostIsGone'
  BY StepShape DEF KeepsPromise
<1>4. Spec => [](IInv /\ LostIsGone)
  BY <1>2, <1>3, InitLostIsGone, PTL DEF Spec
<1>5. IInv /\ LostIsGone /\ [Next]_vars => [Delivery!Next]_(Delivery!vars)
  BY RefinementStep
<1> QED
  BY <1>1, <1>4, <1>5, PTL DEF Spec, ImplementsAtLeastOnce, Delivery!Spec
=============================================================================
