------------------------- MODULE ReplayChunks_proofs -------------------------
(***************************************************************************)
(* Theorems about the chunks of the session replay, for every number of    *)
(* tabs, calls, sessions, events and page loads: typing, the attribution   *)
(* and the numbering of the chunks, at-least-once delivery of the events,  *)
(* and what a second copy of a chunk comes from.                           *)
(***************************************************************************)
EXTENDS ReplayChunks, FiniteSetTheorems, TLAPS

-----------------------------------------------------------------------------
(* Types.                                                                  *)
SessionsTyped ==
  /\ session \in [Tab -> Session]
  /\ saved \in [id : Session, background : BOOLEAN]
  /\ used \in SUBSET Session

BuffersTyped ==
  /\ buffer \in [Tab -> SUBSET Recorded]
  /\ bufSession \in [Tab -> Session \union {NoSession}]
  /\ index \in [Tab -> Nat]
  /\ counter \in [Tab \X Session -> Nat]
  /\ cut \in SUBSET Chunk

CallsTyped ==
  /\ uploader \in [Tab -> Call \union {Nobody}]
  /\ pc \in [Running -> Stage]
  /\ adding \in [Running -> SUBSET Chunk]
  /\ rows \in [Running -> SUBSET Row(Chunk)]
  /\ todo \in [Running -> Seq(Step)]

HistoryTyped ==
  /\ loads \in 0 .. MaxLoads
  /\ received \in SUBSET Chunk
  /\ dup \in SUBSET Chunk
  /\ suspect \in SUBSET Chunk
  /\ missed \in SUBSET Recorded
  /\ silent \in SUBSET Session
  /\ confused \in SUBSET Session

(* A buffer with events knows its session, and a call that is due has a    *)
(* step to take.                                                           *)
Known ==
  /\ \A t \in Tab : (bufSession[t] = NoSession) <=> (buffer[t] = {})
  /\ \A r \in Running : pc[r] = "next" => todo[r] # <<>>

TypeInv ==
  /\ SessionsTyped
  /\ BuffersTyped
  /\ CallsTyped
  /\ store \in Store(Chunk)
  /\ HistoryTyped
  /\ Known

-----------------------------------------------------------------------------
(* The operators.                                                          *)

(* add (storage.ts:216) appends a row, getAll (:128) reads rows of the     *)
(* store, deleteMany (:167) keeps the rows whose key is not given.         *)
LEMMA StoreOperations ==
  ASSUME NEW V, NEW s \in Store(V), NEW v \in V, NEW n, NEW ids
  PROVE  /\ Add(s, v) \in Store(V)
         /\ Add(s, v).next = s.next + 1
         /\ Add(s, v).rows = s.rows \union {[id |-> s.next, value |-> v]}
         /\ GetAll(s, n) \subseteq s.rows
         /\ DeleteMany(s, ids) \in Store(V)
         /\ DeleteMany(s, ids).next = s.next
         /\ DeleteMany(s, ids).rows = {r \in s.rows : r.id \notin ids}
<1>1. Add(s, v) \in Store(V)
  BY DEF Add, Store, Row
<1>2. /\ Add(s, v).next = s.next + 1
      /\ Add(s, v).rows = s.rows \union {[id |-> s.next, value |-> v]}
  BY DEF Add
<1>3. GetAll(s, n) \subseteq s.rows
  BY DEF GetAll
<1>4. DeleteMany(s, ids).rows = {r \in s.rows : r.id \notin ids}
  BY DEF DeleteMany, Store
<1>5. DeleteMany(s, ids).next = s.next
  BY DEF DeleteMany, Store
<1>6. DeleteMany(s, ids) \in Store(V)
  BY <1>4 DEF DeleteMany, Store
<1> QED
  BY <1>1, <1>2, <1>3, <1>4, <1>5, <1>6

LEMMA ValuesType ==
  ASSUME NEW V, NEW some \in SUBSET Row(V)
  PROVE  Values(some) \subseteq V
<1>1. \A r \in some : r.value \in V
  BY DEF Row
<1> QED
  BY <1>1 DEF Values

(* What follows the first step of a call is again a list of steps.         *)
LEMMA TailType ==
  ASSUME CallsTyped, Known, NEW r \in Running, pc[r] = "next"
  PROVE  /\ Tail(todo[r]) \in Seq(Step)
         /\ Head(todo[r]) \in Step
<1>1. todo[r] \in Seq(Step) /\ todo[r] # <<>>
  BY DEF CallsTyped, Known
<1> QED
  BY <1>1

(* The lists of steps the entry points leave for later.                    *)
LEMMA StepLists ==
  /\ <<>> \in Seq(Step)
  /\ <<FlushPersisted>> \in Seq(Step)
  /\ <<FlushPersisted, StartSession>> \in Seq(Step)
  /\ \A s \in Session : <<Adopt(s)>> \in Seq(Step)
  /\ \A s \in Session : <<FlushBuffered, Adopt(s)>> \in Seq(Step)
<1>1. /\ FlushPersisted \in Step /\ StartSession \in Step
      /\ FlushBuffered \in Step
      /\ \A s \in Session : Adopt(s) \in Step
  BY DEF Step
<1> QED
  BY <1>1

LEMMA PlaceOf ==
  ASSUME NEW t \in Tab, NEW c \in Call
  PROVE  /\ <<t, c>> \in Running
         /\ <<t, c>>[1] = t
         /\ <<t, c>>[2] = c
  BY DEF Running

(* A call belongs to a page.                                               *)
LEMMA PageOf ==
  ASSUME NEW r \in Running
  PROVE  r[1] \in Tab /\ r[2] \in Call
  BY DEF Running

LEMMA ProceedType ==
  ASSUME CallsTyped, Known, NEW r \in Running, NEW rest \in Seq(Step),
         Proceed(r, rest)
  PROVE  /\ pc' \in [Running -> Stage]
         /\ todo' \in [Running -> Seq(Step)]
         /\ \A q \in Running : pc'[q] = "next" => todo'[q] # <<>>
<1>1. /\ pc' = [pc EXCEPT ![r] = IF rest = <<>> THEN "idle" ELSE "next"]
      /\ todo' = [todo EXCEPT ![r] = rest]
  BY DEF Proceed
<1>2. pc' \in [Running -> Stage]
  BY <1>1 DEF CallsTyped, Stage
<1>3. todo' \in [Running -> Seq(Step)]
  BY <1>1 DEF CallsTyped
<1>4. \A q \in Running : pc'[q] = "next" => todo'[q] # <<>>
  BY <1>1 DEF CallsTyped, Known
<1> QED
  BY <1>2, <1>3, <1>4

(* Cutting a chunk of a buffer with events.                                *)
LEMMA CutChunkType ==
  ASSUME BuffersTyped, CallsTyped, Known, NEW r \in Running,
         NEW b \in SUBSET Recorded, NEW s \in Session,
         NEW rest \in Seq(Step), CutChunk(r, b, s, rest)
  PROVE  /\ index' \in [Tab -> Nat]
         /\ counter' \in [Tab \X Session -> Nat]
         /\ cut' \in SUBSET Chunk
         /\ pc' \in [Running -> Stage]
         /\ adding' \in [Running -> SUBSET Chunk]
         /\ rows' \in [Running -> SUBSET Row(Chunk)]
         /\ todo' \in [Running -> Seq(Step)]
         /\ \A q \in Running : pc'[q] = "next" => todo'[q] # <<>>
<1> DEFINE t == r[1]
           new == [tab |-> t, session |-> s, index |-> index[t], events |-> b]
<1>1. t \in Tab /\ index[t] \in Nat
  BY PageOf DEF BuffersTyped
<1>2. new \in Chunk
  BY <1>1 DEF Chunk
<1>3. /\ index' = [index EXCEPT ![t] = @ + 1]
      /\ counter' = [counter EXCEPT ![<<t, s>>] = index[t] + 1]
      /\ cut' = cut \union {new}
      /\ pc' = [pc EXCEPT ![r] = "add"]
      /\ adding' = [adding EXCEPT ![r] = {new}]
      /\ todo' = [todo EXCEPT ![r] = rest]
      /\ rows' = rows
  BY DEF CutChunk
<1> HIDE DEF t, new
<1>4. index' \in [Tab -> Nat]
  BY <1>1, <1>3 DEF BuffersTyped
<1>5. counter' \in [Tab \X Session -> Nat]
  BY <1>1, <1>3 DEF BuffersTyped
<1>6. cut' \in SUBSET Chunk /\ adding' \in [Running -> SUBSET Chunk]
  BY <1>2, <1>3 DEF BuffersTyped, CallsTyped
<1>7. pc' \in [Running -> Stage]
  BY <1>3 DEF CallsTyped, Stage
<1>8. todo' \in [Running -> Seq(Step)]
  BY <1>3 DEF CallsTyped
<1>9. \A q \in Running : pc'[q] = "next" => todo'[q] # <<>>
  BY <1>3 DEF CallsTyped, Known
<1> QED
  BY <1>3, <1>4, <1>5, <1>6, <1>7, <1>8, <1>9 DEF CallsTyped

(* flushBufferedChunk (index.ts:590) leaves the buffer of its page empty,  *)
(* and every other one alone.                                              *)
LEMMA FlushBufferType ==
  ASSUME BuffersTyped, CallsTyped, Known, NEW r \in Running,
         NEW rest \in Seq(Step), FlushBuffer(r, rest)
  PROVE  /\ BuffersTyped'
         /\ pc' \in [Running -> Stage]
         /\ adding' \in [Running -> SUBSET Chunk]
         /\ rows' \in [Running -> SUBSET Row(Chunk)]
         /\ todo' \in [Running -> Seq(Step)]
         /\ Known'
<1> DEFINE t == r[1]
<1>1. t \in Tab
  BY PageOf
<1>2. CASE /\ buffer[t] # {}
           /\ CutChunk(r, buffer[t], bufSession[t], rest)
           /\ buffer' = [buffer EXCEPT ![t] = {}]
           /\ bufSession' = [bufSession EXCEPT ![t] = NoSession]
  <2>1. buffer[t] \in SUBSET Recorded /\ bufSession[t] \in Session
    BY <1>1, <1>2 DEF BuffersTyped, Known
  <2>2. CutChunk(r, buffer[t], bufSession[t], rest)
    BY <1>2
  <2> HIDE DEF t
  <2>3. /\ index' \in [Tab -> Nat]
        /\ counter' \in [Tab \X Session -> Nat]
        /\ cut' \in SUBSET Chunk
        /\ pc' \in [Running -> Stage]
        /\ adding' \in [Running -> SUBSET Chunk]
        /\ rows' \in [Running -> SUBSET Row(Chunk)]
        /\ todo' \in [Running -> Seq(Step)]
        /\ \A q \in Running : pc'[q] = "next" => todo'[q] # <<>>
    BY <2>1, <2>2, CutChunkType
  <2>4. /\ buffer' \in [Tab -> SUBSET Recorded]
        /\ bufSession' \in [Tab -> Session \union {NoSession}]
        /\ \A u \in Tab : (bufSession'[u] = NoSession) <=> (buffer'[u] = {})
    BY <1>1, <1>2 DEF BuffersTyped, Known
  <2> QED
    BY <2>3, <2>4 DEF BuffersTyped, Known
<1>3. CASE /\ buffer[t] = {}
           /\ Proceed(r, rest)
           /\ UNCHANGED <<bufferVars, adding, rows>>
  BY <1>3, ProceedType DEF bufferVars, BuffersTyped, CallsTyped, Known
<1> QED
  BY <1>2, <1>3 DEF FlushBuffer

(* flushPersistedChunks (index.ts:721).                                    *)
LEMMA DrainType ==
  ASSUME CallsTyped, Known, NEW r \in Running, NEW rest \in Seq(Step),
         Drain(r, rest)
  PROVE  /\ uploader' \in [Tab -> Call \union {Nobody}]
         /\ pc' \in [Running -> Stage]
         /\ todo' \in [Running -> Seq(Step)]
         /\ \A q \in Running : pc'[q] = "next" => todo'[q] # <<>>
<1>1. r[1] \in Tab /\ r[2] \in Call
  BY PageOf
<1>2. /\ todo' = [todo EXCEPT ![r] = rest]
      /\ \/ /\ uploader' = [uploader EXCEPT ![r[1]] = r[2]]
            /\ pc' = [pc EXCEPT ![r] = "read"]
         \/ /\ pc' = [pc EXCEPT ![r] = "wait"]
            /\ uploader' = uploader
  BY DEF Drain
<1>3. uploader' \in [Tab -> Call \union {Nobody}]
  BY <1>1, <1>2 DEF CallsTyped
<1>4. pc' \in [Running -> Stage]
  BY <1>2 DEF CallsTyped, Stage
<1>5. todo' \in [Running -> Seq(Step)]
  BY <1>2 DEF CallsTyped
<1>6. \A q \in Running : pc'[q] = "next" => todo'[q] # <<>>
  BY <1>2 DEF CallsTyped, Known
<1> QED
  BY <1>3, <1>4, <1>5, <1>6

(* The end of a drain (index.ts:722).                                      *)
LEMMA EndDrainType ==
  ASSUME CallsTyped, Known, NEW r \in Running, EndDrain(r), todo' = todo
  PROVE  /\ uploader' \in [Tab -> Call \union {Nobody}]
         /\ rows' \in [Running -> SUBSET Row(Chunk)]
         /\ pc' \in [Running -> Stage]
         /\ \A q \in Running : pc'[q] = "next" => todo'[q] # <<>>
<1> DEFINE over == {w \in Running : w[1] = r[1] /\ (w = r \/ pc[w] = "wait")}
<1>1. /\ uploader' = [uploader EXCEPT ![r[1]] = Nobody]
      /\ rows' = [rows EXCEPT ![r] = {}]
      /\ pc' = [w \in Running |->
                  IF w \notin over THEN pc[w]
                  ELSE IF todo[w] = <<>> THEN "idle" ELSE "next"]
  BY DEF EndDrain
<1> HIDE DEF over
<1>2. uploader' \in [Tab -> Call \union {Nobody}]
  BY <1>1 DEF CallsTyped
<1>3. rows' \in [Running -> SUBSET Row(Chunk)]
  BY <1>1 DEF CallsTyped
<1>4. pc' \in [Running -> Stage]
  BY <1>1 DEF CallsTyped, Stage
<1>5. \A q \in Running : pc'[q] = "next" => todo'[q] # <<>>
  BY <1>1 DEF Known
<1> QED
  BY <1>2, <1>3, <1>4, <1>5
-----------------------------------------------------------------------------
(* Typing.                                                                 *)

LEMMA BeginType ==
  ASSUME SessionsTyped, NEW t \in Tab, NEW s \in Session, Begin(t, s)
  PROVE  SessionsTyped'
<1>1. /\ session' = [session EXCEPT ![t] = s]
      /\ saved' = [id |-> s, background |-> FALSE]
      /\ used' = used \union {s}
  BY DEF Begin
<1> QED
  BY <1>1 DEF SessionsTyped

LEMMA RefreshType ==
  ASSUME SessionsTyped, NEW t \in Tab, NEW s \in Session, Refresh(t, s)
  PROVE  SessionsTyped'
<1>1. CASE /\ session' = [session EXCEPT ![t] = s]
           /\ UNCHANGED <<saved, used>>
  BY <1>1 DEF SessionsTyped
<1>2. CASE Begin(t, s)
  BY <1>2, BeginType
<1> QED
  BY <1>1, <1>2 DEF Refresh

LEMMA InitTypeInv == Init => TypeInv
<1> SUFFICES ASSUME Init PROVE TypeInv
  OBVIOUS
<1>1. PICK s \in Session :
        /\ session = [t \in Tab |-> s]
        /\ saved = [id |-> s, background |-> FALSE]
        /\ used = {s}
  BY DEF Init
<1>2. SessionsTyped
  BY <1>1 DEF SessionsTyped
<1>3. BuffersTyped
  BY DEF Init, BuffersTyped
<1>4. CallsTyped
  <2>1. <<>> \in Seq(Step) /\ "idle" \in Stage
    BY StepLists DEF Stage
  <2> QED
    BY <2>1 DEF Init, CallsTyped
<1>5. store \in Store(Chunk)
  BY DEF Init, EmptyStore, Store
<1>6. HistoryTyped
  BY MaxLoadsAssumption DEF Init, HistoryTyped
<1>7. Known
  BY DEF Init, Known
<1> QED
  BY <1>2, <1>3, <1>4, <1>5, <1>6, <1>7 DEF TypeInv

LEMMA StartTypeInv ==
  ASSUME TypeInv, NEW t \in Tab, NEW c \in Call, Start(t, c)
  PROVE  TypeInv'
<1> DEFINE r == <<t, c>>
<1> USE DEF TypeInv
<1>0. r \in Running /\ r[1] = t
  BY PlaceOf
<1>1. ASSUME NEW rest \in Seq(Step), FlushBuffer(r, rest), SessionsTyped',
             store' = store, uploader' = uploader, HistoryTyped'
      PROVE  TypeInv'
  <2>1. /\ BuffersTyped'
        /\ pc' \in [Running -> Stage]
        /\ adding' \in [Running -> SUBSET Chunk]
        /\ rows' \in [Running -> SUBSET Row(Chunk)]
        /\ todo' \in [Running -> Seq(Step)]
        /\ Known'
    BY <1>0, <1>1, FlushBufferType
  <2>2. CallsTyped'
    BY <1>1, <2>1 DEF CallsTyped
  <2> QED
    BY <1>1, <2>1, <2>2
<1>2. ASSUME NEW e \in Event, EmitCheckout(t, c, e) PROVE TypeInv'
  <2>1. /\ buffer[t] # {}
        /\ CutChunk(r, buffer[t], bufSession[t], <<>>)
        /\ buffer' = [buffer EXCEPT ![t] = {<<e, session[t]>>}]
        /\ bufSession' = [bufSession EXCEPT ![t] = session[t]]
        /\ UNCHANGED <<sessionVars, uploader, store, loads, serverVars,
                       historyVars>>
    BY <1>2 DEF EmitCheckout
  <2>2. /\ buffer[t] \in SUBSET Recorded /\ bufSession[t] \in Session
        /\ session[t] \in Session /\ <<e, session[t]>> \in Recorded
        /\ session[t] # NoSession
    BY <2>1, NoSessionAssumption
       DEF BuffersTyped, Known, SessionsTyped, Recorded
  <2> HIDE DEF r
  <2>3. /\ index' \in [Tab -> Nat]
        /\ counter' \in [Tab \X Session -> Nat]
        /\ cut' \in SUBSET Chunk
        /\ pc' \in [Running -> Stage]
        /\ adding' \in [Running -> SUBSET Chunk]
        /\ rows' \in [Running -> SUBSET Row(Chunk)]
        /\ todo' \in [Running -> Seq(Step)]
        /\ \A q \in Running : pc'[q] = "next" => todo'[q] # <<>>
    BY <1>0, <2>1, <2>2, StepLists, CutChunkType
  <2>4. /\ buffer' \in [Tab -> SUBSET Recorded]
        /\ bufSession' \in [Tab -> Session \union {NoSession}]
        /\ \A u \in Tab : (bufSession'[u] = NoSession) <=> (buffer'[u] = {})
    BY <2>1, <2>2 DEF BuffersTyped, Known
  <2>5. BuffersTyped' /\ Known'
    BY <2>3, <2>4 DEF BuffersTyped, Known
  <2>6. CallsTyped'
    BY <2>1, <2>3 DEF CallsTyped
  <2>7. SessionsTyped' /\ HistoryTyped' /\ (store \in Store(Chunk))'
    BY <2>1 DEF sessionVars, serverVars, historyVars, SessionsTyped,
                HistoryTyped
  <2> QED
    BY <2>5, <2>6, <2>7
<1>3. ASSUME NEW rest \in Seq(Step), FlushBuffer(r, rest),
             UNCHANGED <<sessionVars, uploader, store, loads, serverVars,
                         historyVars>>
      PROVE  TypeInv'
  <2>1. SessionsTyped' /\ HistoryTyped' /\ store' = store
        /\ uploader' = uploader
    BY <1>3 DEF sessionVars, serverVars, historyVars, SessionsTyped,
                HistoryTyped
  <2> HIDE DEF r
  <2> QED
    BY <1>1, <1>3, <2>1
<1>4. ASSUME Timer(t, c) \/ FlushHook(t, c) \/ Reset(t, c) PROVE TypeInv'
  <2>1. PICK rest \in Seq(Step) :
          /\ FlushBuffer(r, rest)
          /\ UNCHANGED <<sessionVars, uploader, store, loads, serverVars,
                         historyVars>>
    BY <1>4, StepLists DEF Timer, FlushHook, Reset
  <2> HIDE DEF r
  <2> QED
    BY <2>1, <1>3
<1>5. ASSUME Hide(t, c) PROVE TypeInv'
  <2>1. /\ saved' = [id |-> session[t], background |-> TRUE]
        /\ FlushBuffer(r, <<FlushPersisted>>)
        /\ UNCHANGED <<session, used, uploader, store, loads, serverVars,
                       historyVars>>
    BY <1>5 DEF Hide
  <2>2. SessionsTyped'
    BY <2>1 DEF SessionsTyped
  <2>3. HistoryTyped' /\ store' = store /\ uploader' = uploader
    BY <2>1 DEF serverVars, historyVars, HistoryTyped
  <2> HIDE DEF r
  <2> QED
    BY <2>1, <2>2, <2>3, <1>1, StepLists
<1>6. ASSUME Touch(t, c) PROVE TypeInv'
  <2>1. PICK s \in Session :
          /\ Refresh(t, s)
          /\ FlushBuffer(r, <<Adopt(s)>>)
          /\ confused' = confused \union Returned(t, s)
          /\ UNCHANGED <<uploader, store, loads, serverVars, missed, silent>>
    BY <1>6 DEF Touch
  <2>2. SessionsTyped'
    BY <2>1, RefreshType
  <2>3. HistoryTyped' /\ store' = store /\ uploader' = uploader
    BY <2>1 DEF serverVars, HistoryTyped, Returned
  <2>4. <<Adopt(s)>> \in Seq(Step)
    BY StepLists
  <2> HIDE DEF r
  <2> QED
    BY <2>1, <2>2, <2>3, <2>4, <1>1
<1> QED
  BY <1>2, <1>4, <1>5, <1>6 DEF Start

(* The chunk a drain sends is one it read.                                 *)
LEMMA OldestType ==
  ASSUME TypeInv, NEW r \in Running
  PROVE  /\ Oldest(r) \subseteq rows[r]
         /\ Values(Oldest(r)) \subseteq Values(rows[r])
         /\ Values(Oldest(r)) \subseteq Chunk
<1>1. Oldest(r) \subseteq rows[r]
  BY DEF Oldest
<1>2. rows[r] \in SUBSET Row(Chunk)
  BY DEF TypeInv, CallsTyped
<1> QED
  BY <1>1, <1>2, ValuesType DEF Values

LEMMA CallTypeInv ==
  ASSUME TypeInv, NEW r \in Running, CallStep(r)
  PROVE  TypeInv'
<1> USE DEF TypeInv
<1>1. CASE ResumeFlush(r)
  <2>1. pc[r] = "next"
    BY <1>1 DEF ResumeFlush, Due
  <2>2. Tail(todo[r]) \in Seq(Step)
    BY <2>1, TailType
  <2>3. /\ BuffersTyped'
        /\ pc' \in [Running -> Stage]
        /\ adding' \in [Running -> SUBSET Chunk]
        /\ rows' \in [Running -> SUBSET Row(Chunk)]
        /\ todo' \in [Running -> Seq(Step)]
        /\ Known'
    BY <1>1, <2>2, FlushBufferType DEF ResumeFlush
  <2>4. UNCHANGED <<sessionVars, uploader, store, loads, serverVars,
                    historyVars>>
    BY <1>1 DEF ResumeFlush
  <2> QED
    BY <2>3, <2>4 DEF SessionsTyped, CallsTyped, HistoryTyped, sessionVars,
                      serverVars, historyVars
<1>2. CASE ResumeDrain(r)
  <2>1. pc[r] = "next"
    BY <1>2 DEF ResumeDrain, Due
  <2>2. Tail(todo[r]) \in Seq(Step)
    BY <2>1, TailType
  <2>3. /\ uploader' \in [Tab -> Call \union {Nobody}]
        /\ pc' \in [Running -> Stage]
        /\ todo' \in [Running -> Seq(Step)]
        /\ \A q \in Running : pc'[q] = "next" => todo'[q] # <<>>
    BY <1>2, <2>2, DrainType DEF ResumeDrain
  <2>4. UNCHANGED <<sessionVars, bufferVars, adding, rows, store, loads,
                    serverVars, historyVars>>
    BY <1>2 DEF ResumeDrain
  <2> QED
    BY <2>3, <2>4 DEF SessionsTyped, BuffersTyped, CallsTyped, HistoryTyped,
                      Known, sessionVars, bufferVars, serverVars, historyVars
<1>3. CASE ResumeReset(r)
  <2>1. PICK s \in Session : /\ Begin(r[1], s)
                             /\ FlushBuffer(r, <<FlushBuffered, Adopt(s)>>)
    BY <1>3 DEF ResumeReset
  <2>2. SessionsTyped'
    BY <2>1, PageOf, BeginType
  <2>3. <<FlushBuffered, Adopt(s)>> \in Seq(Step)
    BY StepLists
  <2>4. /\ BuffersTyped'
        /\ pc' \in [Running -> Stage]
        /\ adding' \in [Running -> SUBSET Chunk]
        /\ rows' \in [Running -> SUBSET Row(Chunk)]
        /\ todo' \in [Running -> Seq(Step)]
        /\ Known'
    BY <2>1, <2>3, FlushBufferType
  <2>5. UNCHANGED <<uploader, store, loads, serverVars, historyVars>>
    BY <1>3 DEF ResumeReset
  <2> QED
    BY <2>2, <2>4, <2>5 DEF CallsTyped, HistoryTyped, serverVars, historyVars
<1>4. CASE ResumeAdopt(r)
  <2>1. PICK s \in Session :
          /\ Due(r, Adopt(s))
          /\ index' = [index EXCEPT ![r[1]] = StoredIndex(r[1], s)]
          /\ Proceed(r, Tail(todo[r]))
          /\ confused' = confused \union
                         ({session[r[1]], bufSession[r[1]]} \ {s, NoSession})
          /\ UNCHANGED <<sessionVars, buffer, bufSession, counter, cut,
                         uploader, adding, rows, store, loads, serverVars,
                         missed, silent>>
    BY <1>4 DEF ResumeAdopt
  <2>2. Tail(todo[r]) \in Seq(Step)
    BY <2>1, TailType DEF Due
  <2>3. /\ pc' \in [Running -> Stage]
        /\ todo' \in [Running -> Seq(Step)]
        /\ \A q \in Running : pc'[q] = "next" => todo'[q] # <<>>
    BY <2>1, <2>2, ProceedType
  <2>4. BuffersTyped'
    <3>1. r[1] \in Tab /\ StoredIndex(r[1], s) \in Nat
      BY PageOf DEF StoredIndex, BuffersTyped
    <3> QED
      BY <2>1, <3>1 DEF BuffersTyped
  <2>5. HistoryTyped'
    <3>1. {session[r[1]], bufSession[r[1]]} \ {s, NoSession} \subseteq Session
      BY PageOf DEF SessionsTyped, BuffersTyped
    <3> QED
      BY <2>1, <3>1 DEF HistoryTyped, serverVars
  <2>6. SessionsTyped' /\ (store \in Store(Chunk))'
    BY <2>1 DEF SessionsTyped, sessionVars
  <2>7. CallsTyped' /\ Known'
    BY <2>1, <2>3 DEF CallsTyped, Known
  <2> QED
    BY <2>4, <2>5, <2>6, <2>7
<1>5. CASE AddDone(r)
  <2>1. PICK x \in adding[r] : store' = Add(store, x)
    BY <1>5 DEF AddDone
  <2>2. x \in Chunk
    BY DEF CallsTyped
  <2>3. store' \in Store(Chunk)
    BY <2>1, <2>2, StoreOperations
  <2>4. /\ adding' = [adding EXCEPT ![r] = {}]
        /\ Drain(r, todo[r])
        /\ UNCHANGED <<sessionVars, bufferVars, rows, loads, serverVars,
                       historyVars>>
    BY <1>5 DEF AddDone
  <2>5. todo[r] \in Seq(Step)
    BY DEF CallsTyped
  <2>6. /\ uploader' \in [Tab -> Call \union {Nobody}]
        /\ pc' \in [Running -> Stage]
        /\ todo' \in [Running -> Seq(Step)]
        /\ \A q \in Running : pc'[q] = "next" => todo'[q] # <<>>
    BY <2>4, <2>5, DrainType
  <2>7. CallsTyped'
    BY <2>4, <2>6 DEF CallsTyped
  <2> QED
    BY <2>3, <2>4, <2>6, <2>7
       DEF SessionsTyped, BuffersTyped, HistoryTyped,
           Known, sessionVars, bufferVars, serverVars, historyVars
<1>6. CASE ReadDone(r)
  <2> DEFINE read == GetAll(store, DrainLimit)
  <2>1. /\ \/ /\ EndDrain(r)
              /\ UNCHANGED suspect
           \/ /\ rows' = [rows EXCEPT ![r] = read]
              /\ pc' = [pc EXCEPT ![r] = "post"]
              /\ suspect' = suspect \union
                              (Values(read) \intersect HeldElsewhere(r[1]))
              /\ UNCHANGED uploader
        /\ UNCHANGED <<sessionVars, bufferVars, adding, todo, store, loads,
                       received, dup, historyVars>>
    BY <1>6 DEF ReadDone
  <2>2. read \in SUBSET Row(Chunk)
    <3>1. read \subseteq store.rows
      BY DEF GetAll
    <3> QED
      BY <3>1 DEF Store
  <2>3. Values(read) \subseteq Chunk
    BY <2>2, ValuesType
  <2> HIDE DEF read
  <2>4. suspect' \in SUBSET Chunk
    BY <2>1, <2>3 DEF HistoryTyped
  <2>5. /\ uploader' \in [Tab -> Call \union {Nobody}]
        /\ rows' \in [Running -> SUBSET Row(Chunk)]
        /\ pc' \in [Running -> Stage]
        /\ \A q \in Running : pc'[q] = "next" => todo'[q] # <<>>
    <3>1. CASE EndDrain(r)
      BY <2>1, <3>1, EndDrainType
    <3>2. CASE /\ rows' = [rows EXCEPT ![r] = read]
               /\ pc' = [pc EXCEPT ![r] = "post"]
               /\ UNCHANGED uploader
      BY <2>1, <2>2, <3>2 DEF CallsTyped, Known, Stage
    <3> QED
      BY <2>1, <3>1, <3>2
  <2> QED
    BY <2>1, <2>4, <2>5
       DEF SessionsTyped, BuffersTyped, CallsTyped, HistoryTyped,
           Known, sessionVars, bufferVars, historyVars
<1>7. CASE PostOk(r)
  <2>1. /\ received' = received \union Values(Oldest(r))
        /\ dup' = dup \union (Values(Oldest(r)) \intersect received)
        /\ pc' = [pc EXCEPT ![r] = "delete"]
        /\ UNCHANGED <<sessionVars, bufferVars, uploader, adding, rows, todo,
                       store, loads, suspect, historyVars>>
    BY <1>7 DEF PostOk, Receive
  <2>2. received' \in SUBSET Chunk /\ dup' \in SUBSET Chunk
    BY <2>1, OldestType DEF HistoryTyped
  <2>3. pc' \in [Running -> Stage]
    BY <2>1 DEF CallsTyped, Stage
  <2>4. Known'
    BY <2>1 DEF Known, CallsTyped, bufferVars
  <2> QED
    BY <2>1, <2>2, <2>3, <2>4
       DEF SessionsTyped, BuffersTyped, CallsTyped, HistoryTyped,
           sessionVars, bufferVars, historyVars
<1>8. CASE PostRejected(r) \/ PostFailed(r)
  <2>1. /\ EndDrain(r)
        /\ received' \in SUBSET Chunk
        /\ dup' \in SUBSET Chunk
        /\ suspect' \in SUBSET Chunk
        /\ UNCHANGED <<sessionVars, bufferVars, adding, todo, store, loads,
                       historyVars>>
    <3>1. CASE PostRejected(r)
      BY <3>1 DEF PostRejected, serverVars, HistoryTyped
    <3>2. CASE PostFailed(r)
      BY <3>2, OldestType DEF PostFailed, Receive, serverVars, HistoryTyped
    <3> QED
      BY <1>8, <3>1, <3>2
  <2>2. /\ uploader' \in [Tab -> Call \union {Nobody}]
        /\ rows' \in [Running -> SUBSET Row(Chunk)]
        /\ pc' \in [Running -> Stage]
        /\ \A q \in Running : pc'[q] = "next" => todo'[q] # <<>>
    BY <2>1, EndDrainType
  <2> QED
    BY <2>1, <2>2
       DEF SessionsTyped, BuffersTyped, CallsTyped, HistoryTyped,
           Known, sessionVars, bufferVars, historyVars
<1>9. CASE Deleted(r)
  <2>1. /\ store' = DeleteMany(store, Ids(Oldest(r)))
        /\ \/ EndDrain(r)
           \/ /\ rows' = [rows EXCEPT ![r] = @ \ Oldest(r)]
              /\ pc' = [pc EXCEPT ![r] = "post"]
              /\ UNCHANGED uploader
        /\ UNCHANGED <<sessionVars, bufferVars, adding, todo, loads,
                       serverVars, historyVars>>
    BY <1>9 DEF Deleted
  <2>2. store' \in Store(Chunk)
    <3>1. DeleteMany(store, Ids(Oldest(r))).rows
            = {x \in store.rows : x.id \notin Ids(Oldest(r))}
      BY DEF DeleteMany, Store
    <3>2. DeleteMany(store, Ids(Oldest(r))) \in Store(Chunk)
      BY <3>1 DEF DeleteMany, Store
    <3> QED
      BY <2>1, <3>2
  <2>3. /\ uploader' \in [Tab -> Call \union {Nobody}]
        /\ rows' \in [Running -> SUBSET Row(Chunk)]
        /\ pc' \in [Running -> Stage]
        /\ \A q \in Running : pc'[q] = "next" => todo'[q] # <<>>
    <3>1. CASE EndDrain(r)
      BY <2>1, <3>1, EndDrainType
    <3>2. CASE /\ rows' = [rows EXCEPT ![r] = @ \ Oldest(r)]
               /\ pc' = [pc EXCEPT ![r] = "post"]
               /\ UNCHANGED uploader
      BY <2>1, <3>2 DEF CallsTyped, Known, Stage
    <3> QED
      BY <2>1, <3>1, <3>2
  <2> QED
    BY <2>1, <2>2, <2>3
       DEF SessionsTyped, BuffersTyped, CallsTyped, HistoryTyped,
           Known, sessionVars, bufferVars, serverVars, historyVars
<1> QED
  BY <1>1, <1>2, <1>3, <1>4, <1>5, <1>6, <1>7, <1>8, <1>9 DEF CallStep
(* The two ways an event is taken in without a checkout (index.ts:430):    *)
(* the buffer grows, or the grown buffer is cut.  A buffer that held       *)
(* nothing does not fill up at the first event.                            *)
LEMMA EmitKinds ==
  ASSUME TypeInv, NEW t \in Tab, NEW e \in Event, Emit(t, e)
  PROVE  \/ /\ buffer' = [buffer EXCEPT ![t] = @ \union {<<e, session[t]>>}]
            /\ bufSession' = [bufSession EXCEPT
                                ![t] = IF buffer[t] = {} THEN session[t] ELSE @]
            /\ UNCHANGED <<index, counter, cut, callVars>>
         \/ \E c \in Call :
              /\ buffer[t] # {}
              /\ pc[<<t, c>>] = "idle"
              /\ CutChunk(<<t, c>>, buffer[t] \union {<<e, session[t]>>},
                          bufSession[t], <<>>)
              /\ buffer' = [buffer EXCEPT ![t] = {}]
              /\ bufSession' = [bufSession EXCEPT ![t] = NoSession]
<1> DEFINE b == buffer[t] \union {<<e, session[t]>>}
           s == IF buffer[t] = {} THEN session[t] ELSE bufSession[t]
<1>1. \/ /\ buffer' = [buffer EXCEPT ![t] = b]
         /\ bufSession' = [bufSession EXCEPT ![t] = s]
         /\ UNCHANGED <<index, counter, cut, callVars>>
      \/ /\ Cardinality(b) >= MaxEvents
         /\ \E c \in Call : /\ pc[<<t, c>>] = "idle"
                            /\ CutChunk(<<t, c>>, b, s, <<>>)
         /\ buffer' = [buffer EXCEPT ![t] = {}]
         /\ bufSession' = [bufSession EXCEPT ![t] = NoSession]
  BY DEF Emit
<1>2. ASSUME buffer[t] = {} PROVE ~(Cardinality(b) >= MaxEvents)
  <2>1. b = {<<e, session[t]>>}
    BY <1>2
  <2>2. Cardinality(b) = 1
    BY <2>1, FS_Singleton
  <2> QED
    BY <2>2, MaxEventsAssumption
<1>3. CASE /\ buffer' = [buffer EXCEPT ![t] = b]
           /\ bufSession' = [bufSession EXCEPT ![t] = s]
           /\ UNCHANGED <<index, counter, cut, callVars>>
  <2>1. buffer' = [buffer EXCEPT ![t] = @ \union {<<e, session[t]>>}]
    BY <1>3 DEF TypeInv, BuffersTyped
  <2>2. bufSession' = [bufSession EXCEPT
                         ![t] = IF buffer[t] = {} THEN session[t] ELSE @]
    BY <1>3 DEF TypeInv, BuffersTyped
  <2> QED
    BY <1>3, <2>1, <2>2
<1>4. CASE /\ Cardinality(b) >= MaxEvents
           /\ \E c \in Call : /\ pc[<<t, c>>] = "idle"
                              /\ CutChunk(<<t, c>>, b, s, <<>>)
           /\ buffer' = [buffer EXCEPT ![t] = {}]
           /\ bufSession' = [bufSession EXCEPT ![t] = NoSession]
  <2>1. buffer[t] # {}
    BY <1>2, <1>4
  <2>2. s = bufSession[t]
    BY <2>1
  <2> QED
    BY <1>4, <2>1, <2>2
<1> QED
  BY <1>1, <1>3, <1>4

LEMMA EmitTypeInv ==
  ASSUME TypeInv, NEW t \in Tab, NEW e \in Event, Emit(t, e)
  PROVE  TypeInv'
<1> USE DEF TypeInv
<1>1. /\ session[t] \in Session
      /\ session[t] # NoSession
      /\ <<e, session[t]>> \in Recorded
  BY NoSessionAssumption DEF SessionsTyped, Recorded
<1>2. UNCHANGED <<sessionVars, uploader, store, loads, serverVars,
                  historyVars>>
  BY DEF Emit
<1>3. SessionsTyped' /\ HistoryTyped' /\ (store \in Store(Chunk))'
  BY <1>2 DEF sessionVars, serverVars, historyVars, SessionsTyped,
              HistoryTyped
<1>4. CASE /\ buffer' = [buffer EXCEPT ![t] = @ \union {<<e, session[t]>>}]
           /\ bufSession' = [bufSession EXCEPT
                               ![t] = IF buffer[t] = {} THEN session[t] ELSE @]
           /\ UNCHANGED <<index, counter, cut, callVars>>
  <2>1. buffer' \in [Tab -> SUBSET Recorded]
    BY <1>1, <1>4 DEF BuffersTyped
  <2>2. bufSession' \in [Tab -> Session \union {NoSession}]
    BY <1>1, <1>4 DEF BuffersTyped
  <2>3. \A u \in Tab : (bufSession'[u] = NoSession) <=> (buffer'[u] = {})
    BY <1>1, <1>4 DEF BuffersTyped, Known
  <2> QED
    BY <1>2, <1>3, <1>4, <2>1, <2>2, <2>3
       DEF BuffersTyped, CallsTyped, Known, callVars
<1>5. CASE \E c \in Call :
             /\ buffer[t] # {}
             /\ pc[<<t, c>>] = "idle"
             /\ CutChunk(<<t, c>>, buffer[t] \union {<<e, session[t]>>},
                         bufSession[t], <<>>)
             /\ buffer' = [buffer EXCEPT ![t] = {}]
             /\ bufSession' = [bufSession EXCEPT ![t] = NoSession]
  <2> DEFINE b == buffer[t] \union {<<e, session[t]>>}
  <2>1. PICK c \in Call :
          /\ buffer[t] # {}
          /\ CutChunk(<<t, c>>, b, bufSession[t], <<>>)
          /\ buffer' = [buffer EXCEPT ![t] = {}]
          /\ bufSession' = [bufSession EXCEPT ![t] = NoSession]
    BY <1>5
  <2>2. b \in SUBSET Recorded /\ bufSession[t] \in Session
    BY <1>1, <2>1 DEF BuffersTyped, Known
  <2> HIDE DEF b
  <2>3. /\ index' \in [Tab -> Nat]
        /\ counter' \in [Tab \X Session -> Nat]
        /\ cut' \in SUBSET Chunk
        /\ pc' \in [Running -> Stage]
        /\ adding' \in [Running -> SUBSET Chunk]
        /\ rows' \in [Running -> SUBSET Row(Chunk)]
        /\ todo' \in [Running -> Seq(Step)]
        /\ \A q \in Running : pc'[q] = "next" => todo'[q] # <<>>
    BY <2>1, <2>2, PlaceOf, StepLists, CutChunkType
  <2>4. /\ buffer' \in [Tab -> SUBSET Recorded]
        /\ bufSession' \in [Tab -> Session \union {NoSession}]
        /\ \A u \in Tab : (bufSession'[u] = NoSession) <=> (buffer'[u] = {})
    BY <2>1 DEF BuffersTyped, Known
  <2> QED
    BY <1>2, <1>3, <2>3, <2>4 DEF BuffersTyped, CallsTyped, Known
<1> QED
  BY <1>4, <1>5, EmitKinds

LEMMA ShowTypeInv ==
  ASSUME TypeInv, NEW t \in Tab, Show(t)
  PROVE  TypeInv'
<1> USE DEF TypeInv
<1>1. PICK s \in Session : /\ Refresh(t, s)
                           /\ silent' = silent \union {s}
                           /\ confused' = confused \union Returned(t, s)
  BY DEF Show
<1>2. UNCHANGED <<bufferVars, uploader, callVars, store, loads, serverVars,
                  missed>>
  BY DEF Show
<1>3. SessionsTyped'
  BY <1>1, RefreshType
<1>4. HistoryTyped'
  BY <1>1, <1>2 DEF HistoryTyped, Returned, serverVars
<1> QED
  BY <1>2, <1>3, <1>4
     DEF BuffersTyped, CallsTyped, Known, bufferVars, callVars

(* A page load forgets what the page had and nothing else.                 *)
LEMMA NavigateEffect ==
  ASSUME TypeInv, NEW t \in Tab, Navigate(t)
  PROVE  /\ \E s \in Session :
              /\ Refresh(t, s)
              /\ index' = [index EXCEPT ![t] = StoredIndex(t, s)]
         /\ buffer' = [buffer EXCEPT ![t] = {}]
         /\ bufSession' = [bufSession EXCEPT ![t] = NoSession]
         /\ uploader' = [uploader EXCEPT ![t] = Nobody]
         /\ pc' = [r \in Running |-> IF r[1] = t THEN "idle" ELSE pc[r]]
         /\ adding' = [r \in Running |-> IF r[1] = t THEN {} ELSE adding[r]]
         /\ rows' = [r \in Running |-> IF r[1] = t THEN {} ELSE rows[r]]
         /\ todo' = [r \in Running |-> IF r[1] = t THEN <<>> ELSE todo[r]]
         /\ UNCHANGED <<counter, cut, store, received, dup, silent, confused>>
<1> DEFINE calls == {r \in Running : r[1] = t}
<1>1. \A r \in Running : r \in calls <=> r[1] = t
  OBVIOUS
<1>2. /\ pc' = [r \in Running |-> IF r \in calls THEN "idle" ELSE pc[r]]
      /\ adding' = [r \in Running |-> IF r \in calls THEN {} ELSE adding[r]]
      /\ rows' = [r \in Running |-> IF r \in calls THEN {} ELSE rows[r]]
      /\ todo' = [r \in Running |-> IF r \in calls THEN <<>> ELSE todo[r]]
  BY DEF Navigate
<1> HIDE DEF calls
<1>3. /\ pc' = [r \in Running |-> IF r[1] = t THEN "idle" ELSE pc[r]]
      /\ adding' = [r \in Running |-> IF r[1] = t THEN {} ELSE adding[r]]
      /\ rows' = [r \in Running |-> IF r[1] = t THEN {} ELSE rows[r]]
      /\ todo' = [r \in Running |-> IF r[1] = t THEN <<>> ELSE todo[r]]
  BY <1>1, <1>2
<1> QED
  BY <1>3 DEF Navigate

LEMMA NavigateTypeInv ==
  ASSUME TypeInv, NEW t \in Tab, Navigate(t)
  PROVE  TypeInv'
<1> USE DEF TypeInv
<1>1. PICK s \in Session :
        /\ Refresh(t, s)
        /\ index' = [index EXCEPT ![t] = StoredIndex(t, s)]
  BY NavigateEffect
<1>2. /\ buffer' = [buffer EXCEPT ![t] = {}]
      /\ bufSession' = [bufSession EXCEPT ![t] = NoSession]
      /\ uploader' = [uploader EXCEPT ![t] = Nobody]
      /\ pc' = [r \in Running |-> IF r[1] = t THEN "idle" ELSE pc[r]]
      /\ adding' = [r \in Running |-> IF r[1] = t THEN {} ELSE adding[r]]
      /\ rows' = [r \in Running |-> IF r[1] = t THEN {} ELSE rows[r]]
      /\ todo' = [r \in Running |-> IF r[1] = t THEN <<>> ELSE todo[r]]
      /\ UNCHANGED <<counter, cut, store, received, dup, silent, confused>>
  BY NavigateEffect
<1>3. SessionsTyped'
  BY <1>1, RefreshType
<1>4. BuffersTyped'
  <2>1. StoredIndex(t, s) \in Nat
    BY DEF StoredIndex, BuffersTyped
  <2> QED
    BY <1>1, <1>2, <2>1 DEF BuffersTyped
<1>5. CallsTyped'
  <2>1. pc' \in [Running -> Stage]
    BY <1>2 DEF CallsTyped, Stage
  <2>2. todo' \in [Running -> Seq(Step)]
    BY <1>2, StepLists DEF CallsTyped
  <2>3. rows' \in [Running -> SUBSET Row(Chunk)]
    BY <1>2 DEF CallsTyped
  <2>4. adding' \in [Running -> SUBSET Chunk]
    BY <1>2 DEF CallsTyped
  <2> QED
    BY <1>2, <2>1, <2>2, <2>3, <2>4 DEF CallsTyped
<1>6. Known'
  <2>1. \A u \in Tab : (bufSession'[u] = NoSession) <=> (buffer'[u] = {})
    BY <1>2 DEF Known, BuffersTyped
  <2>2. \A r \in Running : pc'[r] = "next" => todo'[r] # <<>>
    BY <1>2 DEF Known
  <2> QED
    BY <2>1, <2>2 DEF Known
<1>7. HistoryTyped'
  <2> DEFINE calls == {r \in Running : r[1] = t}
             sent == {r \in calls : pc[r] \in {"post", "delete"}}
  <2>1. /\ loads < MaxLoads
        /\ loads' = loads + 1
        /\ missed' = missed \union buffer[t]
                       \union EventsOf(UNION {adding[r] : r \in calls})
        /\ suspect' = suspect \union UNION {Values(Oldest(r)) : r \in sent}
    BY DEF Navigate
  <2>2. loads' \in 0 .. MaxLoads
    BY <2>1, MaxLoadsAssumption DEF HistoryTyped
  <2>3. UNION {Values(Oldest(r)) : r \in sent} \subseteq Chunk
    <3>1. \A r \in sent : Values(Oldest(r)) \subseteq Chunk
      BY OldestType
    <3> QED
      BY <3>1
  <2>4. EventsOf(UNION {adding[r] : r \in calls}) \subseteq Recorded
    <3>1. \A r \in calls : \A x \in adding[r] : x.events \subseteq Recorded
      BY DEF CallsTyped, Chunk
    <3> QED
      BY <3>1 DEF EventsOf
  <2> HIDE DEF calls, sent
  <2>5. missed' \in SUBSET Recorded /\ suspect' \in SUBSET Chunk
    BY <2>1, <2>3, <2>4 DEF HistoryTyped, BuffersTyped
  <2> QED
    BY <1>2, <2>2, <2>5 DEF HistoryTyped
<1> QED
  BY <1>2, <1>3, <1>4, <1>5, <1>6, <1>7

LEMMA NextTypeInv == TypeInv /\ [Next]_vars => TypeInv'
<1> SUFFICES ASSUME TypeInv, [Next]_vars PROVE TypeInv'
  OBVIOUS
<1>1. CASE UNCHANGED vars
  BY <1>1 DEF vars, sessionVars, bufferVars, callVars, serverVars,
              historyVars, TypeInv, SessionsTyped, BuffersTyped, CallsTyped,
              HistoryTyped, Known
<1> QED
  BY <1>1, EmitTypeInv, ShowTypeInv, NavigateTypeInv, StartTypeInv,
     CallTypeInv DEF Next

(* The invariant the later sections build on.                              *)
LEMMA AlwaysTyped == Spec => []TypeInv
  BY InitTypeInv, NextTypeInv, PTL DEF Spec
-----------------------------------------------------------------------------
(* Attribution.  An event in a buffer that is not of the session of the    *)
(* buffer came after a change of the session that the plugin was not told  *)
(* of; every other change flushes the buffer first.                        *)
AttributionInv ==
  /\ Attributed
  /\ \A t \in Tab : \A e \in buffer[t] :
       e[2] = bufSession[t] \/ e[2] \in silent
  /\ \A t \in Tab :
       buffer[t] # {} => session[t] = bufSession[t] \/ session[t] \in silent

(* What a flush does to the chunks and to the buffer of its page.          *)
LEMMA FlushBufferEffect ==
  ASSUME TypeInv, NEW r \in Running, NEW rest, FlushBuffer(r, rest)
  PROVE  /\ \A u \in Tab : u # r[1] => /\ buffer'[u] = buffer[u]
                                       /\ bufSession'[u] = bufSession[u]
         /\ buffer'[r[1]] = {}
         /\ bufSession'[r[1]] = NoSession
         /\ \/ /\ buffer[r[1]] # {}
               /\ CutChunk(r, buffer[r[1]], bufSession[r[1]], rest)
            \/ /\ buffer[r[1]] = {}
               /\ UNCHANGED <<bufferVars, adding, rows>>
               /\ Proceed(r, rest)
<1>1. r[1] \in Tab
  BY PageOf
<1>2. CASE /\ buffer[r[1]] # {}
           /\ CutChunk(r, buffer[r[1]], bufSession[r[1]], rest)
           /\ buffer' = [buffer EXCEPT ![r[1]] = {}]
           /\ bufSession' = [bufSession EXCEPT ![r[1]] = NoSession]
  BY <1>1, <1>2 DEF TypeInv, BuffersTyped
<1>3. CASE /\ buffer[r[1]] = {}
           /\ Proceed(r, rest)
           /\ UNCHANGED <<bufferVars, adding, rows>>
  BY <1>1, <1>3 DEF TypeInv, Known, bufferVars
<1> QED
  BY <1>2, <1>3 DEF FlushBuffer

(* The calls a flush of the buffer is part of: what else such a call does  *)
(* concerns the session of its own page only.                              *)
Flushing(r, rest) ==
  /\ FlushBuffer(r, rest)
  /\ \A u \in Tab : u # r[1] => session'[u] = session[u]
  /\ UNCHANGED <<uploader, store, loads, serverVars, missed, silent>>

LEMMA RefreshEffect ==
  ASSUME SessionsTyped, NEW t \in Tab, NEW s \in Session, Refresh(t, s)
  PROVE  /\ \A u \in Tab : u # t => session'[u] = session[u]
         /\ session'[t] = s
         /\ used \subseteq used'
         /\ used' \subseteq used \union {s}
         /\ \/ s = saved.id /\ saved' = saved
            \/ s \notin used /\ saved'.id = s /\ s \in used'
  BY DEF Refresh, Begin, SessionsTyped

(* Every step is a flush, a change of the recording, a change of the       *)
(* session, or the work of a drain, which leaves the recorder alone.       *)
RecorderKept == UNCHANGED <<sessionVars, bufferVars, missed, silent, confused>>

LEMMA StartKinds ==
  ASSUME TypeInv, NEW t \in Tab, NEW c \in Call, Start(t, c)
  PROVE  \/ \E e \in Event : EmitCheckout(t, c, e)
         \/ /\ pc[<<t, c>>] = "idle"
            /\ \E rest \in Seq(Step) : Flushing(<<t, c>>, rest)
<1> DEFINE r == <<t, c>>
<1>0. r \in Running /\ r[1] = t
  BY PlaceOf
<1>1. ASSUME Timer(t, c) \/ FlushHook(t, c) \/ Reset(t, c)
      PROVE  pc[r] = "idle" /\ \E rest \in Seq(Step) : Flushing(r, rest)
  <2>1. PICK rest \in Seq(Step) :
          /\ FlushBuffer(r, rest)
          /\ UNCHANGED <<sessionVars, uploader, store, loads, serverVars,
                         historyVars>>
    BY <1>1, StepLists DEF Timer, FlushHook, Reset
  <2>2. pc[r] = "idle"
    BY <1>1 DEF Timer, FlushHook, Reset
  <2> QED
    BY <2>1, <2>2 DEF Flushing, sessionVars, historyVars
<1>2. ASSUME Hide(t, c)
      PROVE  pc[r] = "idle" /\ \E rest \in Seq(Step) : Flushing(r, rest)
  BY <1>2, StepLists DEF Hide, Flushing, historyVars
<1>3. ASSUME Touch(t, c)
      PROVE  pc[r] = "idle" /\ \E rest \in Seq(Step) : Flushing(r, rest)
  <2>1. PICK s \in Session :
          /\ Refresh(t, s)
          /\ FlushBuffer(r, <<Adopt(s)>>)
          /\ UNCHANGED <<uploader, store, loads, serverVars, missed, silent>>
    BY <1>3 DEF Touch
  <2>2. \A u \in Tab : u # t => session'[u] = session[u]
    BY <2>1, RefreshEffect DEF TypeInv
  <2>3. <<Adopt(s)>> \in Seq(Step)
    BY StepLists
  <2>4. pc[r] = "idle"
    BY <1>3 DEF Touch
  <2> QED
    BY <1>0, <2>1, <2>2, <2>3, <2>4 DEF Flushing
<1> QED
  BY <1>1, <1>2, <1>3 DEF Start

LEMMA ResumeFlushes ==
  ASSUME TypeInv, NEW r \in Running, ResumeFlush(r) \/ ResumeReset(r)
  PROVE  \E rest \in Seq(Step) : Flushing(r, rest) /\ pc[r] = "next"
<1>1. CASE ResumeFlush(r)
  <2>1. pc[r] = "next"
    BY <1>1 DEF ResumeFlush, Due
  <2>2. Tail(todo[r]) \in Seq(Step)
    BY <2>1, TailType DEF TypeInv
  <2> QED
    BY <1>1, <2>1, <2>2 DEF ResumeFlush, Flushing, sessionVars, historyVars
<1>2. CASE ResumeReset(r)
  <2>1. PICK s \in Session : /\ Begin(r[1], s)
                             /\ FlushBuffer(r, <<FlushBuffered, Adopt(s)>>)
    BY <1>2 DEF ResumeReset
  <2>2. \A u \in Tab : u # r[1] => session'[u] = session[u]
    BY <2>1 DEF Begin, TypeInv, SessionsTyped
  <2>3. <<FlushBuffered, Adopt(s)>> \in Seq(Step)
    BY StepLists
  <2> QED
    BY <1>2, <2>1, <2>2, <2>3 DEF ResumeReset, Due, Flushing, historyVars
<1> QED
  BY <1>1, <1>2

LEMMA CallKinds ==
  ASSUME TypeInv, NEW r \in Running, CallStep(r)
  PROVE  \/ /\ pc[r] = "next"
            /\ \E rest \in Seq(Step) : Flushing(r, rest)
         \/ ResumeAdopt(r)
         \/ RecorderKept
<1>1. CASE ResumeFlush(r) \/ ResumeReset(r)
  BY <1>1, ResumeFlushes
<1>2. CASE \/ ResumeDrain(r)
           \/ AddDone(r)
           \/ ReadDone(r)
           \/ PostOk(r)
           \/ PostRejected(r)
           \/ PostFailed(r)
           \/ Deleted(r)
  BY <1>2 DEF ResumeDrain, AddDone, ReadDone, PostOk, PostRejected,
              PostFailed, Deleted, RecorderKept, historyVars
<1> QED
  BY <1>1, <1>2 DEF CallStep

(* A chunk of events the invariant speaks of keeps it.                     *)
LEMMA CutIsAttributed ==
  ASSUME TypeInv, AttributionInv, NEW r \in Running, NEW b, NEW s, NEW rest,
         CutChunk(r, b, s, rest), silent \subseteq silent',
         \A e \in b : e[2] = s \/ e[2] \in silent
  PROVE  Attributed'
<1> DEFINE new == [tab |-> r[1], session |-> s, index |-> index[r[1]],
                   events |-> b]
<1>1. cut' = cut \union {new}
  BY DEF CutChunk
<1>2. new.events = b /\ new.session = s
  OBVIOUS
<1> HIDE DEF new
<1>3. \A x \in cut : \A e \in x.events : e[2] = x.session \/ e[2] \in silent
  BY DEF AttributionInv, Attributed
<1>4. \A x \in cut' : \A e \in x.events : e[2] = x.session \/ e[2] \in silent'
  BY <1>1, <1>2, <1>3
<1> QED
  BY <1>4 DEF Attributed

LEMMA FlushKeepsAttribution ==
  ASSUME TypeInv, AttributionInv, NEW r \in Running, NEW rest,
         Flushing(r, rest)
  PROVE  AttributionInv'
<1>1. r[1] \in Tab /\ silent' = silent
  BY PageOf DEF Flushing
<1>2. /\ \A u \in Tab : u # r[1] => /\ buffer'[u] = buffer[u]
                                    /\ bufSession'[u] = bufSession[u]
                                    /\ session'[u] = session[u]
      /\ buffer'[r[1]] = {}
  BY FlushBufferEffect DEF Flushing
<1>3. Attributed'
  <2>1. CASE CutChunk(r, buffer[r[1]], bufSession[r[1]], rest)
    BY <1>1, <2>1, CutIsAttributed DEF AttributionInv
  <2>2. CASE UNCHANGED <<bufferVars, adding, rows>>
    BY <1>1, <2>2 DEF AttributionInv, Attributed, bufferVars
  <2> QED
    BY <2>1, <2>2, FlushBufferEffect DEF Flushing
<1>4. /\ \A t \in Tab : \A e \in buffer'[t] :
           e[2] = bufSession'[t] \/ e[2] \in silent'
      /\ \A t \in Tab :
           buffer'[t] # {} => session'[t] = bufSession'[t]
                              \/ session'[t] \in silent'
  BY <1>1, <1>2 DEF AttributionInv
<1> QED
  BY <1>3, <1>4 DEF AttributionInv

LEMMA NextAttribution ==
  TypeInv /\ AttributionInv /\ [Next]_vars => AttributionInv'
<1> SUFFICES ASSUME TypeInv, AttributionInv, [Next]_vars
             PROVE  AttributionInv'
  OBVIOUS
<1>1. ASSUME UNCHANGED <<session, buffer, bufSession, cut, silent>>
      PROVE  AttributionInv'
  BY <1>1 DEF AttributionInv, Attributed
<1>2. CASE UNCHANGED vars
  BY <1>1, <1>2 DEF vars, sessionVars, bufferVars, historyVars
<1>3. ASSUME NEW t \in Tab, NEW e \in Event, Emit(t, e)
      PROVE  AttributionInv'
  <2>1. session' = session /\ silent' = silent
    BY <1>3 DEF Emit, sessionVars, historyVars
  <2>2. <<e, session[t]>>[2] = session[t]
    OBVIOUS
  <2>3. CASE /\ buffer' = [buffer EXCEPT ![t] = @ \union {<<e, session[t]>>}]
             /\ bufSession' = [bufSession EXCEPT
                                 ![t] = IF buffer[t] = {} THEN session[t]
                                        ELSE @]
             /\ UNCHANGED <<index, counter, cut, callVars>>
    <3>1. Attributed'
      BY <2>1, <2>3 DEF AttributionInv, Attributed
    <3>2. /\ \A u \in Tab : u # t => /\ buffer'[u] = buffer[u]
                                     /\ bufSession'[u] = bufSession[u]
          /\ buffer'[t] = buffer[t] \union {<<e, session[t]>>}
          /\ bufSession'[t] = IF buffer[t] = {} THEN session[t]
                              ELSE bufSession[t]
      BY <2>3 DEF TypeInv, BuffersTyped
    <3>3. \A u \in Tab : \A x \in buffer'[u] :
            x[2] = bufSession'[u] \/ x[2] \in silent'
      BY <2>1, <2>2, <3>2 DEF AttributionInv
    <3>4. \A u \in Tab : buffer'[u] # {} => session'[u] = bufSession'[u]
                                            \/ session'[u] \in silent'
      BY <2>1, <3>2 DEF AttributionInv
    <3> QED
      BY <3>1, <3>3, <3>4 DEF AttributionInv
  <2>4. CASE \E c \in Call :
               /\ buffer[t] # {}
               /\ pc[<<t, c>>] = "idle"
               /\ CutChunk(<<t, c>>, buffer[t] \union {<<e, session[t]>>},
                           bufSession[t], <<>>)
               /\ buffer' = [buffer EXCEPT ![t] = {}]
               /\ bufSession' = [bufSession EXCEPT ![t] = NoSession]
    <3> DEFINE b == buffer[t] \union {<<e, session[t]>>}
    <3>1. PICK c \in Call : CutChunk(<<t, c>>, b, bufSession[t], <<>>)
      BY <2>4
    <3>2. \A x \in b : x[2] = bufSession[t] \/ x[2] \in silent
      BY <2>2, <2>4 DEF AttributionInv
    <3> HIDE DEF b
    <3>3. Attributed'
      BY <2>1, <3>1, <3>2, PlaceOf, CutIsAttributed
    <3>4. /\ \A u \in Tab : u # t => /\ buffer'[u] = buffer[u]
                                     /\ bufSession'[u] = bufSession[u]
          /\ buffer'[t] = {}
      BY <2>4 DEF TypeInv, BuffersTyped
    <3> QED
      BY <2>1, <3>3, <3>4 DEF AttributionInv
  <2> QED
    BY <1>3, <2>3, <2>4, EmitKinds
<1>4. ASSUME NEW t \in Tab, NEW c \in Call, NEW e \in Event,
             EmitCheckout(t, c, e)
      PROVE  AttributionInv'
  <2>1. /\ CutChunk(<<t, c>>, buffer[t], bufSession[t], <<>>)
        /\ buffer' = [buffer EXCEPT ![t] = {<<e, session[t]>>}]
        /\ bufSession' = [bufSession EXCEPT ![t] = session[t]]
        /\ session' = session /\ silent' = silent
    BY <1>4 DEF EmitCheckout, sessionVars, historyVars
  <2>2. Attributed'
    BY <2>1, PlaceOf, CutIsAttributed DEF AttributionInv
  <2>3. /\ \A u \in Tab : u # t => /\ buffer'[u] = buffer[u]
                                   /\ bufSession'[u] = bufSession[u]
        /\ buffer'[t] = {<<e, session[t]>>}
        /\ bufSession'[t] = session[t]
    BY <2>1 DEF TypeInv, BuffersTyped
  <2>4. <<e, session[t]>>[2] = session[t]
    OBVIOUS
  <2>5. \A u \in Tab : \A x \in buffer'[u] :
          x[2] = bufSession'[u] \/ x[2] \in silent'
    BY <2>1, <2>3, <2>4 DEF AttributionInv
  <2>6. \A u \in Tab : buffer'[u] # {} => session'[u] = bufSession'[u]
                                          \/ session'[u] \in silent'
    BY <2>1, <2>3 DEF AttributionInv
  <2> QED
    BY <2>2, <2>5, <2>6 DEF AttributionInv
<1>5. ASSUME NEW t \in Tab, Show(t) PROVE AttributionInv'
  <2>1. PICK s \in Session : Refresh(t, s) /\ silent' = silent \union {s}
    BY <1>5 DEF Show
  <2>2. /\ \A u \in Tab : u # t => session'[u] = session[u]
        /\ session'[t] = s
    BY <2>1, RefreshEffect DEF TypeInv
  <2>3. UNCHANGED <<buffer, bufSession, cut>>
    BY <1>5 DEF Show, bufferVars
  <2>4. Attributed'
    BY <2>1, <2>3 DEF AttributionInv, Attributed
  <2> QED
    BY <2>1, <2>2, <2>3, <2>4 DEF AttributionInv
<1>6. ASSUME NEW t \in Tab, Navigate(t) PROVE AttributionInv'
  <2>1. PICK s \in Session : Refresh(t, s)
    BY <1>6, NavigateEffect
  <2>2. \A u \in Tab : u # t => session'[u] = session[u]
    BY <2>1, RefreshEffect DEF TypeInv
  <2>3. /\ \A u \in Tab : u # t => /\ buffer'[u] = buffer[u]
                                   /\ bufSession'[u] = bufSession[u]
        /\ buffer'[t] = {}
        /\ cut' = cut /\ silent' = silent
    BY <1>6, NavigateEffect DEF TypeInv, BuffersTyped
  <2>4. Attributed'
    BY <2>3 DEF AttributionInv, Attributed
  <2> QED
    BY <2>2, <2>3, <2>4 DEF AttributionInv
<1>7. ASSUME NEW t \in Tab, NEW c \in Call, Start(t, c)
      PROVE  AttributionInv'
  BY <1>4, <1>7, StartKinds, PlaceOf, FlushKeepsAttribution
<1>8. ASSUME NEW r \in Running, CallStep(r) PROVE AttributionInv'
  <2>1. CASE ResumeAdopt(r)
    BY <1>1, <2>1 DEF ResumeAdopt, sessionVars
  <2>2. CASE RecorderKept
    BY <1>1, <2>2 DEF RecorderKept, sessionVars, bufferVars
  <2> QED
    BY <1>8, <2>1, <2>2, CallKinds, FlushKeepsAttribution
<1> QED
  BY <1>2, <1>3, <1>5, <1>6, <1>7, <1>8 DEF Next

(* A chunk carries the events of its own session, whatever the tabs, the   *)
(* page loads, the resets and the flushes under way did in between; the    *)
(* only exception are events recorded after a session the plugin was not   *)
(* told of had begun (flushBufferedChunk, index.ts:590, and the two hooks  *)
(* at index.ts:798 and :806).                                              *)
THEOREM ChunksAttributed == Spec => []Attributed
<1>1. Init => AttributionInv
  BY DEF Init, AttributionInv, Attributed
<1>2. AttributionInv => Attributed
  BY DEF AttributionInv
<1> QED
  BY AlwaysTyped, <1>1, <1>2, NextAttribution, PTL DEF Spec
-----------------------------------------------------------------------------
(* Numbering.  As long as a tab has not come back to a session, and has    *)
(* not adopted an older one since, the stored number of the session bounds *)
(* the numbers its chunks have, and the next number of the page has        *)
(* reached it.  A session nobody was in has no numbers.                    *)
UsedInv ==
  /\ saved.id \in used
  /\ \A t \in Tab : session[t] \in used
  /\ \A t \in Tab : bufSession[t] \in used \union {NoSession}
  /\ \A t \in Tab, s \in Session \ used : counter[<<t, s>>] = 0

Bounded ==
  \A x \in cut :
    x.session \notin confused => x.index < counter[<<x.tab, x.session>>]

Reached ==
  \A t \in Tab : \A s \in Session \ confused :
    s \in {session[t], bufSession[t]} => counter[<<t, s>>] <= index[t]

NumberingInv == UsedInv /\ Bounded /\ Reached /\ CollisionsExplained

(* A new chunk takes a number no chunk of its session and tab has.         *)
LEMMA CutNumbering ==
  ASSUME TypeInv, NumberingInv, NEW r \in Running, NEW b, NEW rest,
         buffer[r[1]] # {}, CutChunk(r, b, bufSession[r[1]], rest),
         confused \subseteq confused'
  PROVE  /\ Bounded'
         /\ CollisionsExplained'
         /\ \A t \in Tab, s \in Session \ used : counter'[<<t, s>>] = 0
         /\ \A t \in Tab, s \in Session :
              counter[<<t, s>>] <= index[t] => counter'[<<t, s>>] <= index'[t]
<1> DEFINE u == r[1]
           z == bufSession[r[1]]
           n == index[r[1]]
           new == [tab |-> r[1], session |-> z, index |-> n, events |-> b]
<1>1. u \in Tab /\ z \in Session /\ n \in Nat
  BY PageOf, NoSessionAssumption DEF TypeInv, Known, BuffersTyped
<1>2. /\ cut' = cut \union {new}
      /\ index' = [index EXCEPT ![u] = n + 1]
      /\ counter' = [counter EXCEPT ![<<u, z>>] = n + 1]
  <2>1. index' = [index EXCEPT ![u] = @ + 1]
    BY DEF CutChunk
  <2> QED
    BY <2>1 DEF CutChunk, TypeInv, BuffersTyped
<1>3. new.tab = u /\ new.session = z /\ new.index = n
  OBVIOUS
<1>4. z \in used
  BY <1>1, NoSessionAssumption DEF NumberingInv, UsedInv
<1>5. z \notin confused => counter[<<u, z>>] <= n
  BY <1>1 DEF NumberingInv, Reached
<1> HIDE DEF u, z, n, new
<1>6. /\ counter \in [Tab \X Session -> Nat]
      /\ index \in [Tab -> Nat]
      /\ \A x \in cut : x.tab \in Tab /\ x.session \in Session /\ x.index \in Nat
  BY DEF TypeInv, BuffersTyped, Chunk
<1>7. /\ \A t \in Tab, s \in Session :
           counter'[<<t, s>>] = IF t = u /\ s = z THEN n + 1
                                ELSE counter[<<t, s>>]
      /\ \A t \in Tab : index'[t] = IF t = u THEN n + 1 ELSE index[t]
  BY <1>1, <1>2, <1>6
<1>8. n = index[u]
  BY DEF n, u
<1>9. \A x \in cut : x.session \notin confused =>
                       x.index < counter[<<x.tab, x.session>>]
  BY DEF NumberingInv, Bounded
<1>10. \A x \in cut : x.session \notin confused =>
                       x.index < counter'[<<x.tab, x.session>>]
  <2> SUFFICES ASSUME NEW x \in cut, x.session \notin confused
               PROVE  x.index < counter'[<<x.tab, x.session>>]
    OBVIOUS
  <2>1. x.index < counter[<<x.tab, x.session>>]
    BY <1>9
  <2>2. CASE x.tab = u /\ x.session = z
    <3>1. counter[<<u, z>>] <= n
      BY <1>5, <2>2
    <3>2. counter'[<<u, z>>] = n + 1
      BY <1>1, <1>7
    <3>3. counter[<<u, z>>] \in Nat /\ x.index \in Nat
      BY <1>1, <1>6
    <3>4. x.index < counter[<<u, z>>]
      BY <2>1, <2>2
    <3>5. x.index < n + 1
      BY <1>1, <3>1, <3>3, <3>4
    <3> QED
      BY <2>2, <3>2, <3>5
  <2>3. CASE ~(x.tab = u /\ x.session = z)
    <3>1. counter'[<<x.tab, x.session>>] = counter[<<x.tab, x.session>>]
      BY <1>6, <1>7, <2>3
    <3> QED
      BY <2>1, <3>1
  <2> QED
    BY <2>2, <2>3
<1>11. \A x \in cut' : x.session \notin confused' =>
                        x.index < counter'[<<x.tab, x.session>>]
  <2>1. new.index < counter'[<<new.tab, new.session>>]
    BY <1>1, <1>3, <1>7
  <2> QED
    BY <1>2, <1>10, <2>1
<1>12. \A x \in cut : x.tab = u /\ x.session = z /\ z \notin confused =>
                        x.index # n
  <2> SUFFICES ASSUME NEW x \in cut, x.tab = u, x.session = z,
                      z \notin confused
               PROVE  x.index # n
    OBVIOUS
  <2>1. x.index < counter[<<u, z>>] /\ counter[<<u, z>>] <= n
    BY <1>5, <1>9
  <2>2. counter[<<u, z>>] \in Nat /\ x.index \in Nat
    BY <1>1, <1>6
  <2> QED
    BY <1>1, <2>1, <2>2
<1>13. \A x, y \in cut' :
         Collide(x, y) => x.tab # y.tab \/ x.session \in confused'
  <2>1. \A x, y \in cut :
          Collide(x, y) => x.tab # y.tab \/ x.session \in confused
    BY DEF NumberingInv, CollisionsExplained
  <2>2. \A y \in cut : /\ Collide(new, y) => new.tab # y.tab
                                             \/ new.session \in confused
                       /\ Collide(y, new) => y.tab # new.tab
                                             \/ y.session \in confused
    BY <1>3, <1>12 DEF Collide
  <2>3. ~Collide(new, new)
    BY DEF Collide
  <2> QED
    BY <1>2, <2>1, <2>2, <2>3
<1>14. \A t \in Tab, s \in Session \ used : counter'[<<t, s>>] = 0
  <2> SUFFICES ASSUME NEW t \in Tab, NEW s \in Session \ used
               PROVE  counter'[<<t, s>>] = 0
    OBVIOUS
  <2>1. counter[<<t, s>>] = 0
    BY DEF NumberingInv, UsedInv
  <2>2. s # z
    BY <1>4
  <2> QED
    BY <1>7, <2>1, <2>2
<1>15. \A t \in Tab, s \in Session :
         counter[<<t, s>>] <= index[t] => counter'[<<t, s>>] <= index'[t]
  <2> SUFFICES ASSUME NEW t \in Tab, NEW s \in Session,
                      counter[<<t, s>>] <= index[t]
               PROVE  counter'[<<t, s>>] <= index'[t]
    OBVIOUS
  <2>1. counter[<<t, s>>] \in Nat /\ index[t] \in Nat
    BY <1>6
  <2>2. CASE t = u
    BY <1>1, <1>7, <1>8, <2>1, <2>2
  <2>3. CASE t # u
    BY <1>7, <2>1, <2>3
  <2> QED
    BY <2>2, <2>3
<1> QED
  BY <1>11, <1>13, <1>14, <1>15 DEF Bounded, CollisionsExplained, Collide

(* How the session of a page may change under the numbering: to one in     *)
(* use, which the page has no numbers of or is confused about.             *)
Moved(t) ==
  /\ used \subseteq used'
  /\ saved'.id \in used'
  /\ session'[t] \in used'
  /\ \A u \in Tab : u # t => session'[u] = session[u]
  /\ confused \subseteq confused'
  /\ \/ session'[t] = session[t]
     \/ session'[t] \in confused'
     \/ counter[<<t, session'[t]>>] = 0

LEMMA RefreshMoves ==
  ASSUME TypeInv, NumberingInv, NEW t \in Tab, NEW s \in Session,
         Refresh(t, s), confused' = confused \union Returned(t, s)
  PROVE  Moved(t)
<1>1. /\ \A u \in Tab : u # t => session'[u] = session[u]
      /\ session'[t] = s
      /\ used \subseteq used'
      /\ \/ s = saved.id /\ saved' = saved
         \/ saved'.id = s /\ s \in used'
  BY RefreshEffect DEF TypeInv
<1>2. saved.id \in used
  BY DEF NumberingInv, UsedInv
<1>3. s \in confused' \/ counter[<<t, s>>] = 0
  <2>1. counter[<<t, s>>] \in Nat
    BY DEF TypeInv, BuffersTyped
  <2> QED
    BY <2>1 DEF Returned
<1> QED
  BY <1>1, <1>2, <1>3 DEF Moved

LEMMA FlushKeepsNumbering ==
  ASSUME TypeInv, NumberingInv, NEW r \in Running, NEW rest,
         FlushBuffer(r, rest), Moved(r[1])
  PROVE  NumberingInv'
<1>1. r[1] \in Tab
  BY PageOf
<1>2. /\ \A u \in Tab : u # r[1] => /\ session'[u] = session[u]
                                    /\ bufSession'[u] = bufSession[u]
      /\ bufSession'[r[1]] = NoSession
      /\ confused \subseteq confused'
      /\ used \subseteq used'
  BY FlushBufferEffect DEF Moved
<1>3. /\ Bounded'
      /\ CollisionsExplained'
      /\ \A t \in Tab, s \in Session \ used : counter'[<<t, s>>] = 0
      /\ \A t \in Tab, s \in Session :
           counter[<<t, s>>] <= index[t] => counter'[<<t, s>>] <= index'[t]
  <2>1. CASE /\ buffer[r[1]] # {}
             /\ CutChunk(r, buffer[r[1]], bufSession[r[1]], rest)
    BY <1>2, <2>1, CutNumbering
  <2>2. CASE UNCHANGED <<bufferVars, adding, rows>>
    <3>1. counter' = counter /\ index' = index /\ cut' = cut
      BY <2>2 DEF bufferVars
    <3>2. Bounded'
      BY <1>2, <3>1 DEF NumberingInv, Bounded
    <3>3. CollisionsExplained'
      BY <1>2, <3>1 DEF NumberingInv, CollisionsExplained, Collide
    <3>4. \A t \in Tab, s \in Session \ used : counter'[<<t, s>>] = 0
      BY <3>1 DEF NumberingInv, UsedInv
    <3> QED
      BY <3>1, <3>2, <3>3, <3>4
  <2> QED
    BY <2>1, <2>2, FlushBufferEffect
<1>4. UsedInv'
  <2>1. \A t \in Tab : session'[t] \in used'
    BY <1>2 DEF Moved, NumberingInv, UsedInv
  <2>2. \A t \in Tab : bufSession'[t] \in used' \union {NoSession}
    BY <1>2 DEF NumberingInv, UsedInv
  <2>3. \A t \in Tab, s \in Session \ used' : counter'[<<t, s>>] = 0
    BY <1>2, <1>3
  <2> QED
    BY <2>1, <2>2, <2>3 DEF Moved, UsedInv
<1>5. Reached'
  <2> SUFFICES ASSUME NEW t \in Tab, NEW s \in Session \ confused',
                      s \in {session'[t], bufSession'[t]}
               PROVE  counter[<<t, s>>] <= index[t]
    BY <1>3 DEF Reached
  <2>1. s \in Session \ confused /\ s # NoSession
    BY <1>2, NoSessionAssumption
  <2>2. CASE s \in {session[t], bufSession[t]}
    BY <2>1, <2>2 DEF NumberingInv, Reached
  <2>3. CASE s \notin {session[t], bufSession[t]}
    <3>1. t = r[1] /\ s = session'[t]
      BY <1>2, <2>1, <2>3
    <3>2. counter[<<t, s>>] = 0
      BY <2>3, <3>1 DEF Moved
    <3>3. index[t] \in Nat
      BY DEF TypeInv, BuffersTyped
    <3> QED
      BY <3>2, <3>3
  <2> QED
    BY <2>2, <2>3
<1> QED
  BY <1>3, <1>4, <1>5 DEF NumberingInv

(* A change of the session alone, and one of the sessions of a buffer.     *)
LEMMA QuietKeepsNumbering ==
  ASSUME TypeInv, NumberingInv, NEW t \in Tab, Moved(t),
         counter' = counter, cut' = cut, index' = index,
         \A u \in Tab : bufSession'[u] \in {bufSession[u], session[u], NoSession}
  PROVE  NumberingInv'
<1>1. Bounded'
  BY DEF Moved, NumberingInv, Bounded
<1>2. CollisionsExplained'
  BY DEF Moved, NumberingInv, CollisionsExplained, Collide
<1>3. UsedInv'
  <2>1. \A u \in Tab : session'[u] \in used'
    BY DEF Moved, NumberingInv, UsedInv
  <2>2. \A u \in Tab : bufSession'[u] \in used' \union {NoSession}
    BY DEF Moved, NumberingInv, UsedInv
  <2>3. \A u \in Tab, s \in Session \ used' : counter'[<<u, s>>] = 0
    BY DEF Moved, NumberingInv, UsedInv
  <2> QED
    BY <2>1, <2>2, <2>3 DEF Moved, UsedInv
<1>4. Reached'
  <2> SUFFICES ASSUME NEW u \in Tab, NEW s \in Session \ confused',
                      s \in {session'[u], bufSession'[u]}
               PROVE  counter[<<u, s>>] <= index[u]
    BY DEF Reached
  <2>1. s \in Session \ confused /\ s # NoSession
    BY NoSessionAssumption DEF Moved
  <2>2. CASE s \in {session[u], bufSession[u]}
    BY <2>1, <2>2 DEF NumberingInv, Reached
  <2>3. CASE s \notin {session[u], bufSession[u]}
    <3>1. u = t /\ s = session'[u]
      BY <2>1, <2>3 DEF Moved
    <3>2. counter[<<u, s>>] = 0
      BY <2>3, <3>1 DEF Moved
    <3>3. index[u] \in Nat
      BY DEF TypeInv, BuffersTyped
    <3> QED
      BY <3>2, <3>3
  <2> QED
    BY <2>2, <2>3
<1> QED
  BY <1>1, <1>2, <1>3, <1>4 DEF NumberingInv

LEMMA NextNumbering == TypeInv /\ NumberingInv /\ [Next]_vars => NumberingInv'
<1> SUFFICES ASSUME TypeInv, NumberingInv, [Next]_vars PROVE NumberingInv'
  OBVIOUS
<1>0. ASSUME NEW t \in Tab, UNCHANGED <<sessionVars, confused>> PROVE Moved(t)
  BY <1>0 DEF sessionVars, Moved, NumberingInv, UsedInv
<1>1. ASSUME UNCHANGED <<session, saved, used, bufSession, index, counter, cut,
                         confused>>
      PROVE  NumberingInv'
  BY <1>1 DEF NumberingInv, UsedInv, Bounded, Reached, CollisionsExplained,
              Collide
<1>2. CASE UNCHANGED vars
  BY <1>1, <1>2 DEF vars, sessionVars, bufferVars, historyVars
<1>3. ASSUME NEW t \in Tab, NEW e \in Event, Emit(t, e)
      PROVE  NumberingInv'
  <2>1. UNCHANGED <<sessionVars, confused>>
    BY <1>3 DEF Emit, historyVars
  <2>2. Moved(t)
    BY <1>0, <2>1
  <2>3. CASE /\ bufSession' = [bufSession EXCEPT
                                 ![t] = IF buffer[t] = {} THEN session[t]
                                        ELSE @]
             /\ UNCHANGED <<index, counter, cut, callVars>>
    <3>1. \A u \in Tab : bufSession'[u] \in
                           {bufSession[u], session[u], NoSession}
      BY <2>3 DEF TypeInv, BuffersTyped
    <3> QED
      BY <2>2, <2>3, <3>1, QuietKeepsNumbering
  <2>4. CASE \E c \in Call :
               /\ buffer[t] # {}
               /\ pc[<<t, c>>] = "idle"
               /\ CutChunk(<<t, c>>, buffer[t] \union {<<e, session[t]>>},
                           bufSession[t], <<>>)
               /\ buffer' = [buffer EXCEPT ![t] = {}]
               /\ bufSession' = [bufSession EXCEPT ![t] = NoSession]
    <3>1. PICK c \in Call :
            CutChunk(<<t, c>>, buffer[t] \union {<<e, session[t]>>},
                     bufSession[t], <<>>)
      BY <2>4
    <3>2. /\ Bounded'
          /\ CollisionsExplained'
          /\ \A u \in Tab, s \in Session \ used : counter'[<<u, s>>] = 0
          /\ \A u \in Tab, s \in Session :
               counter[<<u, s>>] <= index[u] => counter'[<<u, s>>] <= index'[u]
      <4> DEFINE r == <<t, c>>
                 b == buffer[t] \union {<<e, session[t]>>}
      <4>1. r \in Running /\ r[1] = t
        BY PlaceOf
      <4>2. buffer[r[1]] # {} /\ CutChunk(r, b, bufSession[r[1]], <<>>)
        BY <2>4, <3>1, <4>1
      <4> HIDE DEF r, b
      <4> QED
        BY <2>1, <4>1, <4>2, CutNumbering
    <3>3. \A u \in Tab : bufSession'[u] \in {bufSession[u], NoSession}
      BY <2>4 DEF TypeInv, BuffersTyped
    <3>4. UsedInv'
      BY <2>1, <3>2, <3>3 DEF NumberingInv, UsedInv, sessionVars
    <3>5. Reached'
      <4>1. \A u \in Tab : \A s \in Session \ confused :
              s \in {session[u], bufSession'[u]} =>
                counter[<<u, s>>] <= index[u]
        BY <3>3, NoSessionAssumption DEF NumberingInv, Reached
      <4> QED
        BY <2>1, <3>2, <4>1 DEF Reached, sessionVars
    <3> QED
      BY <3>2, <3>4, <3>5 DEF NumberingInv
  <2> QED
    BY <1>3, <2>3, <2>4, EmitKinds
<1>4. ASSUME NEW t \in Tab, NEW c \in Call, NEW e \in Event,
             EmitCheckout(t, c, e)
      PROVE  NumberingInv'
  <2>1. /\ buffer[t] # {}
        /\ CutChunk(<<t, c>>, buffer[t], bufSession[t], <<>>)
        /\ bufSession' = [bufSession EXCEPT ![t] = session[t]]
        /\ UNCHANGED <<sessionVars, confused>>
    BY <1>4 DEF EmitCheckout, historyVars
  <2>2. /\ Bounded'
        /\ CollisionsExplained'
        /\ \A u \in Tab, s \in Session \ used : counter'[<<u, s>>] = 0
        /\ \A u \in Tab, s \in Session :
             counter[<<u, s>>] <= index[u] => counter'[<<u, s>>] <= index'[u]
    <3> DEFINE r == <<t, c>>
    <3>1. r \in Running /\ r[1] = t
      BY PlaceOf
    <3>2. buffer[r[1]] # {} /\ CutChunk(r, buffer[t], bufSession[r[1]], <<>>)
      BY <2>1, <3>1
    <3> HIDE DEF r
    <3> QED
      BY <2>1, <3>1, <3>2, CutNumbering
  <2>3. \A u \in Tab : bufSession'[u] \in {bufSession[u], session[u]}
    BY <2>1 DEF TypeInv, BuffersTyped
  <2>4. UsedInv'
    BY <2>1, <2>2, <2>3 DEF NumberingInv, UsedInv, sessionVars
  <2>5. Reached'
    <3>1. \A u \in Tab : \A s \in Session \ confused :
            s \in {session[u], bufSession'[u]} =>
              counter[<<u, s>>] <= index[u]
      BY <2>3 DEF NumberingInv, Reached
    <3> QED
      BY <2>1, <2>2, <3>1 DEF Reached, sessionVars
  <2> QED
    BY <2>2, <2>4, <2>5 DEF NumberingInv
<1>5. ASSUME NEW t \in Tab, Show(t) PROVE NumberingInv'
  <2>1. PICK s \in Session : /\ Refresh(t, s)
                             /\ confused' = confused \union Returned(t, s)
    BY <1>5 DEF Show
  <2>2. Moved(t)
    BY <2>1, RefreshMoves
  <2>3. UNCHANGED <<bufSession, index, counter, cut>>
    BY <1>5 DEF Show, bufferVars
  <2> QED
    BY <2>2, <2>3, QuietKeepsNumbering
<1>6. ASSUME NEW t \in Tab, Navigate(t) PROVE NumberingInv'
  <2>1. PICK s \in Session :
          /\ Refresh(t, s)
          /\ index' = [index EXCEPT ![t] = StoredIndex(t, s)]
    BY <1>6, NavigateEffect
  <2>2. /\ \A u \in Tab : u # t => session'[u] = session[u]
        /\ session'[t] = s
        /\ used \subseteq used'
        /\ \/ s = saved.id /\ saved' = saved
           \/ saved'.id = s /\ s \in used'
    BY <2>1, RefreshEffect DEF TypeInv
  <2>3. /\ UNCHANGED <<counter, cut, confused>>
        /\ \A u \in Tab : u # t => bufSession'[u] = bufSession[u]
        /\ bufSession'[t] = NoSession
        /\ \A u \in Tab : u # t => index'[u] = index[u]
        /\ index'[t] = counter[<<t, s>>]
    BY <1>6, <2>1, NavigateEffect DEF TypeInv, BuffersTyped, StoredIndex
  <2>4. Bounded' /\ CollisionsExplained'
    BY <2>3 DEF NumberingInv, Bounded, CollisionsExplained, Collide
  <2>5. UsedInv'
    <3>1. saved'.id \in used' /\ s \in used'
      BY <2>2 DEF NumberingInv, UsedInv
    <3>2. \A u \in Tab : session'[u] \in used'
      BY <2>2, <3>1 DEF NumberingInv, UsedInv
    <3>3. \A u \in Tab : bufSession'[u] \in used' \union {NoSession}
      BY <2>2, <2>3 DEF NumberingInv, UsedInv
    <3>4. \A u \in Tab, z \in Session \ used' : counter'[<<u, z>>] = 0
      BY <2>2, <2>3 DEF NumberingInv, UsedInv
    <3> QED
      BY <3>1, <3>2, <3>3, <3>4 DEF UsedInv
  <2>6. Reached'
    <3>1. \A u \in Tab, z \in Session : counter[<<u, z>>] \in Nat
      BY DEF TypeInv, BuffersTyped
    <3>2. \A z \in Session \ confused' :
            z \in {session'[t], bufSession'[t]} =>
              counter'[<<t, z>>] <= index'[t]
      BY <2>2, <2>3, <3>1, NoSessionAssumption
    <3>3. \A u \in Tab : u # t => \A z \in Session \ confused' :
            z \in {session'[u], bufSession'[u]} =>
              counter'[<<u, z>>] <= index'[u]
      BY <2>2, <2>3 DEF NumberingInv, Reached
    <3> QED
      BY <3>2, <3>3 DEF Reached
  <2> QED
    BY <2>4, <2>5, <2>6 DEF NumberingInv
<1>7. ASSUME NEW t \in Tab, NEW c \in Call, Start(t, c)
      PROVE  NumberingInv'
  <2> DEFINE r == <<t, c>>
  <2>0. r \in Running /\ r[1] = t
    BY PlaceOf
  <2>1. CASE \E e \in Event : EmitCheckout(t, c, e)
    BY <1>4, <2>1
  <2>2. CASE Timer(t, c) \/ FlushHook(t, c) \/ Reset(t, c)
    <3>1. PICK rest : FlushBuffer(r, rest)
      BY <2>2 DEF Timer, FlushHook, Reset
    <3>2. UNCHANGED <<sessionVars, confused>>
      BY <2>2 DEF Timer, FlushHook, Reset, historyVars
    <3> HIDE DEF r
    <3> QED
      BY <1>0, <2>0, <3>1, <3>2, FlushKeepsNumbering
  <2>3. CASE Hide(t, c)
    <3>1. /\ FlushBuffer(r, <<FlushPersisted>>)
          /\ saved'.id = session[t]
          /\ UNCHANGED <<session, used, confused>>
      BY <2>3 DEF Hide, historyVars
    <3>2. Moved(t)
      BY <3>1 DEF Moved, NumberingInv, UsedInv
    <3> HIDE DEF r
    <3> QED
      BY <2>0, <3>1, <3>2, FlushKeepsNumbering
  <2>4. CASE Touch(t, c)
    <3>1. PICK s \in Session : /\ Refresh(t, s)
                               /\ FlushBuffer(r, <<Adopt(s)>>)
                               /\ confused' = confused \union Returned(t, s)
      BY <2>4 DEF Touch
    <3>2. Moved(t)
      BY <3>1, RefreshMoves
    <3> HIDE DEF r
    <3> QED
      BY <2>0, <3>1, <3>2, FlushKeepsNumbering
  <2> QED
    BY <1>7, <2>1, <2>2, <2>3, <2>4 DEF Start
<1>8. ASSUME NEW r \in Running, CallStep(r) PROVE NumberingInv'
  <2>0. r[1] \in Tab
    BY PageOf
  <2>1. CASE ResumeFlush(r)
    <3>1. FlushBuffer(r, Tail(todo[r])) /\ UNCHANGED <<sessionVars, confused>>
      BY <2>1 DEF ResumeFlush, historyVars
    <3> QED
      BY <1>0, <2>0, <3>1, FlushKeepsNumbering
  <2>2. CASE ResumeReset(r)
    <3>1. PICK s \in Session : /\ Begin(r[1], s)
                               /\ FlushBuffer(r, <<FlushBuffered, Adopt(s)>>)
      BY <2>2 DEF ResumeReset
    <3>2. /\ \A u \in Tab : u # r[1] => session'[u] = session[u]
          /\ session'[r[1]] = s
          /\ s \notin used
          /\ saved'.id = s
          /\ used' = used \union {s}
          /\ confused' = confused
      BY <2>0, <2>2, <3>1
         DEF Begin, ResumeReset, historyVars, TypeInv, SessionsTyped
    <3>3. counter[<<r[1], s>>] = 0
      BY <2>0, <3>2 DEF NumberingInv, UsedInv
    <3>4. Moved(r[1])
      BY <3>2, <3>3 DEF Moved
    <3> QED
      BY <3>1, <3>4, FlushKeepsNumbering
  <2>3. CASE ResumeAdopt(r)
    <3>1. PICK s \in Session :
            /\ index' = [index EXCEPT ![r[1]] = StoredIndex(r[1], s)]
            /\ confused' = confused \union
                           ({session[r[1]], bufSession[r[1]]} \ {s, NoSession})
            /\ UNCHANGED <<sessionVars, bufSession, counter, cut>>
      BY <2>3 DEF ResumeAdopt
    <3>2. /\ \A u \in Tab : u # r[1] => index'[u] = index[u]
          /\ index'[r[1]] = counter[<<r[1], s>>]
      BY <2>0, <3>1 DEF StoredIndex, TypeInv, BuffersTyped
    <3>3. UsedInv' /\ Bounded' /\ CollisionsExplained'
      BY <3>1 DEF NumberingInv, UsedInv, Bounded, CollisionsExplained,
                  Collide, sessionVars
    <3>4. \A z \in Session \ confused' :
            z \in {session[r[1]], bufSession[r[1]]} =>
              counter[<<r[1], z>>] <= index'[r[1]]
      <4>1. counter[<<r[1], s>>] \in Nat
        BY <2>0 DEF TypeInv, BuffersTyped
      <4>2. \A z \in Session \ confused' :
              z \in {session[r[1]], bufSession[r[1]]} => z = s
        BY <3>1, NoSessionAssumption
      <4> QED
        BY <3>2, <4>1, <4>2
    <3>5. \A u \in Tab : u # r[1] => \A z \in Session \ confused' :
            z \in {session[u], bufSession[u]} =>
              counter[<<u, z>>] <= index'[u]
      BY <3>1, <3>2 DEF NumberingInv, Reached
    <3>6. Reached'
      BY <3>1, <3>4, <3>5 DEF Reached, sessionVars
    <3> QED
      BY <3>3, <3>6 DEF NumberingInv
  <2>4. CASE RecorderKept
    BY <1>1, <2>4 DEF RecorderKept, sessionVars, bufferVars
  <2>5. CASE \/ ResumeDrain(r)
             \/ AddDone(r)
             \/ ReadDone(r)
             \/ PostOk(r)
             \/ PostRejected(r)
             \/ PostFailed(r)
             \/ Deleted(r)
    BY <2>4, <2>5 DEF ResumeDrain, AddDone, ReadDone, PostOk, PostRejected,
                      PostFailed, Deleted, RecorderKept, historyVars
  <2> QED
    BY <1>8, <2>1, <2>2, <2>3, <2>5 DEF CallStep
<1> QED
  BY <1>2, <1>3, <1>5, <1>6, <1>7, <1>8 DEF Next

(* Two chunks of a tab and a session have different numbers, across its    *)
(* page loads and whatever its flushes, resets and session changes were    *)
(* waiting for, unless the tab came back to the session or an adoption was *)
(* late (initialChunkIndex and onSessionChange, index.ts:174 and :806).    *)
THEOREM NumbersAreGivenOnce == Spec => []CollisionsExplained
<1>1. Init => NumberingInv
  BY NoSessionAssumption
     DEF Init, NumberingInv, UsedInv, Bounded, Reached, CollisionsExplained
<1>2. NumberingInv => CollisionsExplained
  BY DEF NumberingInv
<1> QED
  BY AlwaysTyped, <1>1, <1>2, NextNumbering, PTL DEF Spec
-----------------------------------------------------------------------------
(* Every event is in one buffer or in one chunk, so that no chunk is cut   *)
(* twice.                                                                  *)
EventsApart ==
  /\ \A x \in cut : x.events # {}
  /\ \A x, y \in cut : x # y => x.events \intersect y.events = {}
  /\ \A t \in Tab : \A x \in cut : buffer[t] \intersect x.events = {}
  /\ \A t, u \in Tab : t # u => buffer[t] \intersect buffer[u] = {}

(* An event not recorded yet is nowhere.                                   *)
LEMMA UnrecordedIsNew ==
  ASSUME NEW e, Unrecorded(e), NEW s
  PROVE  /\ \A t \in Tab : <<e, s>> \notin buffer[t]
         /\ \A x \in cut : <<e, s>> \notin x.events
         /\ <<e, s>> \notin missed
<1>1. <<e, s>>[1] = e
  OBVIOUS
<1>2. /\ <<e, s>> \notin Buffered
      /\ <<e, s>> \notin EventsOf(cut)
      /\ <<e, s>> \notin missed
  BY <1>1 DEF Unrecorded
<1>3. \A t \in Tab : <<e, s>> \notin buffer[t]
  BY <1>2 DEF Buffered
<1>4. \A x \in cut : <<e, s>> \notin x.events
  BY <1>2 DEF EventsOf
<1> QED
  BY <1>2, <1>3, <1>4

(* The chunk x is cut by the call r, out of events no chunk has.           *)
NewChunk(r, x) ==
  /\ x \in Chunk
  /\ x \notin cut
  /\ cut' = cut \union {x}
  /\ pc[r] \in {"idle", "next"}
  /\ pc' = [pc EXCEPT ![r] = "add"]
  /\ adding' = [adding EXCEPT ![r] = {x}]
  /\ UNCHANGED <<uploader, rows, store, serverVars>>

(* A chunk b of the events of a buffer, and perhaps of a new one, leaves   *)
(* behind a buffer of a new event or none.                                 *)
LEMMA CutApart ==
  ASSUME TypeInv, EventsApart, NEW r \in Running, NEW b \in SUBSET Recorded,
         NEW s \in Session, NEW rest, CutChunk(r, b, s, rest),
         b # {}, buffer[r[1]] \subseteq b,
         \A x \in cut : b \intersect x.events = {},
         \A u \in Tab : u # r[1] => b \intersect buffer[u] = {},
         \A u \in Tab : u # r[1] => buffer'[u] = buffer[u],
         b \intersect buffer'[r[1]] = {},
         \A x \in cut : buffer'[r[1]] \intersect x.events = {},
         \A u \in Tab : u # r[1] => buffer'[r[1]] \intersect buffer[u] = {},
         pc[r] \in {"idle", "next"},
         UNCHANGED <<uploader, store, serverVars>>
  PROVE  /\ EventsApart'
         /\ \E x : NewChunk(r, x) /\ x.events = b
<1> DEFINE new == [tab |-> r[1], session |-> s, index |-> index[r[1]],
                   events |-> b]
<1>1. new \in Chunk
  BY PageOf DEF TypeInv, BuffersTyped, Chunk
<1>2. /\ cut' = cut \union {new}
      /\ pc' = [pc EXCEPT ![r] = "add"]
      /\ adding' = [adding EXCEPT ![r] = {new}]
      /\ rows' = rows
  BY DEF CutChunk
<1>3. new.events = b
  OBVIOUS
<1> HIDE DEF new
<1>4. new \notin cut
  BY <1>3
<1>5. NewChunk(r, new)
  BY <1>1, <1>2, <1>4 DEF NewChunk
<1>6. /\ \A x \in cut' : x.events # {}
      /\ \A x, y \in cut' : x # y => x.events \intersect y.events = {}
  BY <1>2, <1>3 DEF EventsApart
<1>7. \A t \in Tab : \A x \in cut' : buffer'[t] \intersect x.events = {}
  <2>1. \A t \in Tab : \A x \in cut : buffer'[t] \intersect x.events = {}
    BY DEF EventsApart
  <2>2. \A t \in Tab : buffer'[t] \intersect new.events = {}
    BY <1>3
  <2> QED
    BY <1>2, <2>1, <2>2
<1>8. \A t, u \in Tab : t # u => buffer'[t] \intersect buffer'[u] = {}
  BY DEF EventsApart
<1> QED
  BY <1>3, <1>5, <1>6, <1>7, <1>8 DEF EventsApart

(* A flush cuts a new chunk or none.                                       *)
LEMMA FlushApart ==
  ASSUME TypeInv, EventsApart, NEW r \in Running, NEW rest,
         Flushing(r, rest), pc[r] \in {"idle", "next"}
  PROVE  /\ EventsApart'
         /\ \/ \E x : NewChunk(r, x) /\ x.events = buffer[r[1]]
            \/ /\ buffer[r[1]] = {}
               /\ UNCHANGED <<bufferVars, adding, rows>>
               /\ Proceed(r, rest)
<1>1. r[1] \in Tab
  BY PageOf
<1>2. /\ \A u \in Tab : u # r[1] => buffer'[u] = buffer[u]
      /\ buffer'[r[1]] = {}
  BY FlushBufferEffect DEF Flushing
<1>3. CASE /\ buffer[r[1]] # {}
           /\ CutChunk(r, buffer[r[1]], bufSession[r[1]], rest)
  <2>1. buffer[r[1]] \in SUBSET Recorded /\ bufSession[r[1]] \in Session
    BY <1>1, <1>3 DEF TypeInv, BuffersTyped, Known
  <2>2. /\ \A x \in cut : buffer[r[1]] \intersect x.events = {}
        /\ \A u \in Tab : u # r[1] => buffer[r[1]] \intersect buffer[u] = {}
    BY <1>1 DEF EventsApart
  <2>3. UNCHANGED <<uploader, store, serverVars>>
    BY DEF Flushing
  <2> QED
    BY <1>2, <1>3, <2>1, <2>2, <2>3, CutApart
<1>4. CASE /\ buffer[r[1]] = {}
           /\ UNCHANGED <<bufferVars, adding, rows>>
           /\ Proceed(r, rest)
  BY <1>4 DEF bufferVars, EventsApart
<1> QED
  BY <1>3, <1>4, FlushBufferEffect DEF Flushing

(* A new event goes into the buffer or into a chunk, and only there.       *)
LEMMA EmitApart ==
  ASSUME TypeInv, EventsApart, NEW t \in Tab, NEW e \in Event, Emit(t, e)
  PROVE  /\ EventsApart'
         /\ \/ /\ buffer' = [buffer EXCEPT ![t] = @ \union {<<e, session[t]>>}]
               /\ UNCHANGED <<index, counter, cut, callVars>>
            \/ \E c \in Call : \E x :
                 /\ NewChunk(<<t, c>>, x)
                 /\ x.events = buffer[t] \union {<<e, session[t]>>}
                 /\ buffer' = [buffer EXCEPT ![t] = {}]
<1> DEFINE new == <<e, session[t]>>
           b == buffer[t] \union {new}
<1>1. /\ \A u \in Tab : new \notin buffer[u]
      /\ \A x \in cut : new \notin x.events
  BY UnrecordedIsNew DEF Emit
<1>2. new \in Recorded /\ b \in SUBSET Recorded
  BY DEF Recorded, TypeInv, BuffersTyped, SessionsTyped
<1>3. /\ \A x \in cut : b \intersect x.events = {}
      /\ \A u \in Tab : u # t => b \intersect buffer[u] = {}
  BY <1>1 DEF EventsApart
<1>4. CASE /\ buffer' = [buffer EXCEPT ![t] = @ \union {new}]
           /\ UNCHANGED <<index, counter, cut, callVars>>
  <2>1. /\ \A u \in Tab : u # t => buffer'[u] = buffer[u]
        /\ buffer'[t] = b
        /\ cut' = cut
    BY <1>4 DEF TypeInv, BuffersTyped
  <2> HIDE DEF b
  <2>2. EventsApart'
    BY <1>3, <2>1 DEF EventsApart
  <2> QED
    BY <1>4, <2>2
<1>5. CASE \E c \in Call :
             /\ buffer[t] # {}
             /\ pc[<<t, c>>] = "idle"
             /\ CutChunk(<<t, c>>, b, bufSession[t], <<>>)
             /\ buffer' = [buffer EXCEPT ![t] = {}]
             /\ bufSession' = [bufSession EXCEPT ![t] = NoSession]
  <2>1. PICK c \in Call : /\ buffer[t] # {}
                          /\ pc[<<t, c>>] = "idle"
                          /\ CutChunk(<<t, c>>, b, bufSession[t], <<>>)
                          /\ buffer' = [buffer EXCEPT ![t] = {}]
    BY <1>5
  <2> DEFINE r == <<t, c>>
  <2>2. r \in Running /\ r[1] = t
    BY PlaceOf
  <2>3. bufSession[t] \in Session
    BY <2>1 DEF TypeInv, BuffersTyped, Known
  <2>4. /\ \A u \in Tab : u # t => buffer'[u] = buffer[u]
        /\ buffer'[t] = {}
    BY <2>1 DEF TypeInv, BuffersTyped
  <2>5. UNCHANGED <<uploader, store, serverVars>>
    BY DEF Emit
  <2>6. b # {} /\ buffer[t] \subseteq b
    OBVIOUS
  <2> HIDE DEF r, b
  <2>7. /\ CutChunk(r, b, bufSession[t], <<>>)
        /\ pc[r] \in {"idle", "next"}
    BY <2>1 DEF r
  <2>8. EventsApart' /\ \E x : NewChunk(r, x) /\ x.events = b
    BY <1>2, <1>3, <2>2, <2>3, <2>4, <2>5, <2>6, <2>7, CutApart
  <2> QED
    BY <2>1, <2>8 DEF r, b
<1> QED
  BY <1>4, <1>5, EmitKinds

LEMMA CheckoutApart ==
  ASSUME TypeInv, EventsApart, NEW t \in Tab, NEW c \in Call, NEW e \in Event,
         EmitCheckout(t, c, e)
  PROVE  /\ EventsApart'
         /\ \E x : NewChunk(<<t, c>>, x) /\ x.events = buffer[t]
         /\ buffer' = [buffer EXCEPT ![t] = {<<e, session[t]>>}]
<1> DEFINE new == <<e, session[t]>>
           r == <<t, c>>
<1>1. /\ \A u \in Tab : new \notin buffer[u]
      /\ \A x \in cut : new \notin x.events
  BY UnrecordedIsNew DEF EmitCheckout
<1>2. r \in Running /\ r[1] = t
  BY PlaceOf
<1>3. /\ buffer[t] # {}
      /\ CutChunk(r, buffer[t], bufSession[t], <<>>)
      /\ buffer' = [buffer EXCEPT ![t] = {new}]
      /\ pc[r] \in {"idle", "next"}
      /\ UNCHANGED <<uploader, store, serverVars>>
  BY DEF EmitCheckout
<1>4. buffer[t] \in SUBSET Recorded /\ bufSession[t] \in Session
  BY <1>3 DEF TypeInv, BuffersTyped, Known
<1> HIDE DEF r, new
<1>5. /\ \A u \in Tab : u # t => buffer'[u] = buffer[u]
      /\ buffer'[t] = {new}
  BY <1>3 DEF TypeInv, BuffersTyped
<1>6. /\ \A x \in cut : buffer[t] \intersect x.events = {}
      /\ \A u \in Tab : u # t => buffer[t] \intersect buffer[u] = {}
  BY DEF EventsApart
<1>7. /\ buffer[t] \intersect buffer'[t] = {}
      /\ \A x \in cut : buffer'[t] \intersect x.events = {}
      /\ \A u \in Tab : u # t => buffer'[t] \intersect buffer[u] = {}
  BY <1>1, <1>5
<1>8. EventsApart' /\ \E x : NewChunk(r, x) /\ x.events = buffer[t]
  BY <1>2, <1>3, <1>4, <1>5, <1>6, <1>7, CutApart
<1> QED
  BY <1>3, <1>8 DEF r, new

(* For the way of a chunk from its cut to the server, every step is one of *)
(* four: nothing that matters, a new chunk, the work of a drain, or a page *)
(* load.                                                                   *)
Kept ==
  /\ UNCHANGED <<cut, uploader, adding, rows, store, serverVars>>
  /\ \A q \in Running :
       pc'[q] = pc[q] \/ {pc[q], pc'[q]} \subseteq {"idle", "next"}

DrainWork(r) ==
  \/ ResumeDrain(r)
  \/ AddDone(r)
  \/ ReadDone(r)
  \/ PostOk(r)
  \/ PostRejected(r)
  \/ PostFailed(r)
  \/ Deleted(r)

LEMMA ProceedIsQuiet ==
  ASSUME TypeInv, NEW r \in Running, NEW rest, Proceed(r, rest),
         pc[r] \in {"idle", "next"}
  PROVE  \A q \in Running :
           pc'[q] = pc[q] \/ {pc[q], pc'[q]} \subseteq {"idle", "next"}
<1>1. pc' = [pc EXCEPT ![r] = IF rest = <<>> THEN "idle" ELSE "next"]
  BY DEF Proceed
<1>2. \A q \in Running : q # r => pc'[q] = pc[q]
  BY <1>1 DEF TypeInv, CallsTyped
<1>3. pc'[r] \in {"idle", "next"}
  BY <1>1 DEF TypeInv, CallsTyped
<1> QED
  BY <1>2, <1>3

LEMMA SupplyKinds ==
  ASSUME TypeInv, EventsApart, [Next]_vars
  PROVE  /\ EventsApart'
         /\ \/ Kept
            \/ \E r \in Running : \E x : NewChunk(r, x)
            \/ \E r \in Running : DrainWork(r)
            \/ \E t \in Tab : Navigate(t)
<1> DEFINE Goal == /\ EventsApart'
                   /\ \/ Kept
                      \/ \E r \in Running : \E x : NewChunk(r, x)
                      \/ \E r \in Running : DrainWork(r)
                      \/ \E t \in Tab : Navigate(t)
<1>0. ASSUME UNCHANGED <<buffer, cut>> PROVE EventsApart'
  BY <1>0 DEF EventsApart
<1>1. ASSUME UNCHANGED vars PROVE Goal
  <2>1. EventsApart'
    BY <1>0, <1>1 DEF vars, bufferVars
  <2>2. Kept
    BY <1>1 DEF Kept, vars, bufferVars, callVars, serverVars
  <2> QED
    BY <2>1, <2>2
<1>2. ASSUME NEW t \in Tab, NEW e \in Event, Emit(t, e) PROVE Goal
  <2>1. CASE UNCHANGED <<index, counter, cut, callVars>>
    <3>1. Kept
      BY <1>2, <2>1 DEF Kept, Emit, callVars
    <3> QED
      BY <1>2, <3>1, EmitApart
  <2>2. CASE \E c \in Call : \E x : NewChunk(<<t, c>>, x)
    BY <1>2, <2>2, PlaceOf, EmitApart
  <2> QED
    BY <1>2, <2>1, <2>2, EmitApart
<1>3. ASSUME NEW t \in Tab, Show(t) PROVE Goal
  <2>1. UNCHANGED <<bufferVars, uploader, callVars, store, serverVars>>
    BY <1>3 DEF Show
  <2>2. Kept
    BY <2>1 DEF Kept, bufferVars, callVars
  <2>3. EventsApart'
    BY <1>0, <2>1 DEF bufferVars
  <2> QED
    BY <2>2, <2>3
<1>4. ASSUME NEW t \in Tab, Navigate(t) PROVE Goal
  <2>1. /\ \A u \in Tab : u # t => buffer'[u] = buffer[u]
        /\ buffer'[t] = {}
        /\ cut' = cut
    BY <1>4, NavigateEffect DEF TypeInv, BuffersTyped
  <2>2. EventsApart'
    BY <2>1 DEF EventsApart
  <2> QED
    BY <1>4, <2>2
<1>5. ASSUME NEW r \in Running, NEW rest, Flushing(r, rest),
             pc[r] \in {"idle", "next"}
      PROVE  Goal
  <2>1. CASE \E x : NewChunk(r, x) /\ x.events = buffer[r[1]]
    BY <1>5, <2>1, FlushApart
  <2>2. CASE /\ UNCHANGED <<bufferVars, adding, rows>>
             /\ Proceed(r, rest)
    <3>1. Kept
      BY <1>5, <2>2, ProceedIsQuiet DEF Flushing, Kept, bufferVars
    <3> QED
      BY <1>5, <3>1, FlushApart
  <2> QED
    BY <1>5, <2>1, <2>2, FlushApart
<1>6. ASSUME NEW t \in Tab, NEW c \in Call, Start(t, c) PROVE Goal
  <2>1. CASE \E e \in Event : EmitCheckout(t, c, e)
    BY <2>1, CheckoutApart, PlaceOf
  <2>2. CASE /\ pc[<<t, c>>] = "idle"
             /\ \E rest \in Seq(Step) : Flushing(<<t, c>>, rest)
    BY <1>5, <2>2, PlaceOf
  <2> QED
    BY <1>6, <2>1, <2>2, StartKinds
<1>7. ASSUME NEW r \in Running, CallStep(r) PROVE Goal
  <2>1. CASE ResumeFlush(r) \/ ResumeReset(r)
    BY <1>5, <2>1, ResumeFlushes
  <2>2. CASE ResumeAdopt(r)
    <3>1. /\ UNCHANGED <<buffer, cut, uploader, adding, rows, store, serverVars>>
          /\ pc[r] = "next"
          /\ Proceed(r, Tail(todo[r]))
      BY <2>2 DEF ResumeAdopt, Due
    <3>2. Kept
      BY <3>1, ProceedIsQuiet DEF Kept
    <3> QED
      BY <1>0, <3>1, <3>2
  <2>3. CASE DrainWork(r)
    <3>1. UNCHANGED <<buffer, cut>>
      BY <2>3 DEF DrainWork, ResumeDrain, AddDone, ReadDone, PostOk,
                  PostRejected, PostFailed, Deleted, bufferVars
    <3> QED
      BY <1>0, <2>3, <3>1
  <2> QED
    BY <1>7, <2>1, <2>2, <2>3 DEF CallStep, DrainWork
<1> HIDE DEF Goal
<1>8. Goal
  BY <1>1, <1>2, <1>3, <1>4, <1>6, <1>7 DEF Next
<1> QED
  BY <1>8 DEF Goal
-----------------------------------------------------------------------------
(* The drain.  One call of a page drains at a time, and no other one of    *)
(* that page has rows.                                                     *)
DrainInv ==
  /\ \A r \in Running : rows[r] # {} => pc[r] \in {"post", "delete"}
  /\ \A r \in Running :
       pc[r] \in {"read", "post", "delete"} => uploader[r[1]] = r[2]
  /\ \A r \in Running : pc[r] = "delete" => Values(Oldest(r)) \subseteq received

LEMMA SameCall ==
  ASSUME NEW r \in Running, NEW q \in Running, r[1] = q[1], r[2] = q[2]
  PROVE  r = q
  BY DEF Running

LEMMA OneDrain ==
  ASSUME DrainInv, NEW r \in Running, NEW q \in Running, r[1] = q[1],
         pc[r] \in {"read", "post", "delete"},
         pc[q] \in {"read", "post", "delete"}
  PROVE  r = q
  BY SameCall DEF DrainInv

LEMMA OldestKept ==
  ASSUME NEW r \in Running, rows'[r] = rows[r]
  PROVE  Oldest(r)' = Oldest(r)
  BY DEF Oldest

LEMMA EndDrainEffect ==
  ASSUME TypeInv, NEW r \in Running, EndDrain(r)
  PROVE  /\ uploader'[r[1]] = Nobody
         /\ \A t \in Tab : t # r[1] => uploader'[t] = uploader[t]
         /\ rows'[r] = {}
         /\ pc'[r] \in {"idle", "next"}
         /\ \A q \in Running : q # r =>
              /\ rows'[q] = rows[q]
              /\ \/ pc'[q] = pc[q]
                 \/ pc[q] = "wait" /\ pc'[q] \in {"idle", "next"}
<1> DEFINE over == {w \in Running : w[1] = r[1] /\ (w = r \/ pc[w] = "wait")}
<1>1. /\ uploader' = [uploader EXCEPT ![r[1]] = Nobody]
      /\ rows' = [rows EXCEPT ![r] = {}]
      /\ pc' = [w \in Running |->
                  IF w \notin over THEN pc[w]
                  ELSE IF todo[w] = <<>> THEN "idle" ELSE "next"]
  BY DEF EndDrain
<1>2. r \in over /\ \A q \in Running : q # r /\ q \in over => pc[q] = "wait"
  OBVIOUS
<1> HIDE DEF over
<1>3. r[1] \in Tab
  BY PageOf
<1> QED
  BY <1>1, <1>2, <1>3 DEF TypeInv, CallsTyped

(* A call joins the drain of its page or starts one.                       *)
LEMMA DrainEffect ==
  ASSUME TypeInv, NEW r \in Running, NEW rest, Drain(r, rest)
  PROVE  /\ \A q \in Running : q # r => pc'[q] = pc[q]
         /\ \A t \in Tab : t # r[1] => uploader'[t] = uploader[t]
         /\ \/ /\ pc'[r] = "read"
               /\ uploader[r[1]] = Nobody
               /\ uploader'[r[1]] = r[2]
            \/ pc'[r] = "wait" /\ uploader' = uploader
<1>1. r[1] \in Tab
  BY PageOf
<1> QED
  BY <1>1 DEF Drain, TypeInv, CallsTyped

LEMMA NextDrain ==
  ASSUME TypeInv, EventsApart, DrainInv, [Next]_vars
  PROVE  DrainInv'
<1>1. CASE Kept
  <2>1. /\ rows' = rows /\ uploader' = uploader /\ received' = received
        /\ \A q \in Running :
             pc'[q] = pc[q] \/ {pc[q], pc'[q]} \subseteq {"idle", "next"}
    BY <1>1 DEF Kept, serverVars
  <2>2. \A q \in Running : Oldest(q)' = Oldest(q)
    BY <2>1, OldestKept
  <2> QED
    BY <2>1, <2>2 DEF DrainInv
<1>2. ASSUME NEW r \in Running, NEW x, NewChunk(r, x) PROVE DrainInv'
  <2>1. /\ rows' = rows /\ uploader' = uploader /\ received' = received
        /\ \A q \in Running : q # r => pc'[q] = pc[q]
        /\ pc'[r] = "add" /\ pc[r] \in {"idle", "next"}
    BY <1>2 DEF NewChunk, serverVars, TypeInv, CallsTyped
  <2>2. \A q \in Running : Oldest(q)' = Oldest(q)
    BY <2>1, OldestKept
  <2> QED
    BY <2>1, <2>2 DEF DrainInv
<1>3. ASSUME NEW r \in Running, EndDrain(r), pc[r] \in {"read", "post", "delete"},
             received \subseteq received'
      PROVE  DrainInv'
  <2>1. /\ rows'[r] = {} /\ pc'[r] \in {"idle", "next"}
        /\ \A t \in Tab : t # r[1] => uploader'[t] = uploader[t]
        /\ \A q \in Running : q # r =>
             /\ rows'[q] = rows[q]
             /\ \/ pc'[q] = pc[q]
                \/ pc[q] = "wait" /\ pc'[q] \in {"idle", "next"}
    BY <1>3, EndDrainEffect
  <2>2. \A q \in Running : q # r => Oldest(q)' = Oldest(q)
    BY <2>1, OldestKept
  <2>3. \A q \in Running : rows'[q] # {} => pc'[q] \in {"post", "delete"}
    BY <2>1 DEF DrainInv
  <2>4. \A q \in Running :
          pc'[q] \in {"read", "post", "delete"} => uploader'[q[1]] = q[2]
    <3> SUFFICES ASSUME NEW q \in Running, pc'[q] \in {"read", "post", "delete"}
                 PROVE  uploader'[q[1]] = q[2]
      OBVIOUS
    <3>1. q # r /\ pc[q] \in {"read", "post", "delete"}
      BY <2>1
    <3>2. q[1] # r[1]
      BY <1>3, <3>1, OneDrain
    <3> QED
      BY <2>1, <3>1, <3>2, PageOf DEF DrainInv
  <2>5. \A q \in Running : pc'[q] = "delete" => Values(Oldest(q)') \subseteq received'
    BY <1>3, <2>1, <2>2 DEF DrainInv
  <2> QED
    BY <2>3, <2>4, <2>5 DEF DrainInv, Values
<1>4. ASSUME NEW r \in Running, NEW rest, Drain(r, rest),
             pc[r] \in {"next", "add"}, rows' = rows, received' = received
      PROVE  DrainInv'
  <2>1. /\ \A q \in Running : q # r => pc'[q] = pc[q]
        /\ \A t \in Tab : t # r[1] => uploader'[t] = uploader[t]
        /\ \/ /\ pc'[r] = "read"
              /\ uploader[r[1]] = Nobody
              /\ uploader'[r[1]] = r[2]
           \/ pc'[r] = "wait" /\ uploader' = uploader
    BY <1>4, DrainEffect
  <2>2. \A q \in Running : Oldest(q)' = Oldest(q)
    BY <1>4, OldestKept
  <2>3. \A q \in Running : rows'[q] # {} => pc'[q] \in {"post", "delete"}
    BY <1>4, <2>1 DEF DrainInv
  <2>4. \A q \in Running :
          pc'[q] \in {"read", "post", "delete"} => uploader'[q[1]] = q[2]
    <3> SUFFICES ASSUME NEW q \in Running, pc'[q] \in {"read", "post", "delete"}
                 PROVE  uploader'[q[1]] = q[2]
      OBVIOUS
    <3>1. CASE q = r
      BY <2>1, <3>1
    <3>2. CASE q # r
      <4>1. uploader[q[1]] = q[2]
        BY <2>1, <3>2 DEF DrainInv
      <4>2. q[2] # Nobody
        BY PageOf, NobodyAssumption
      <4> QED
        BY <2>1, <3>2, <4>1, <4>2, PageOf
    <3> QED
      BY <3>1, <3>2
  <2>5. \A q \in Running : pc'[q] = "delete" => Values(Oldest(q)') \subseteq received'
    BY <1>4, <2>1, <2>2 DEF DrainInv
  <2> QED
    BY <2>3, <2>4, <2>5 DEF DrainInv, Values
<1>5. ASSUME NEW r \in Running, DrainWork(r) PROVE DrainInv'
  <2>1. CASE ResumeDrain(r)
    BY <1>4, <2>1 DEF ResumeDrain, Due, serverVars
  <2>2. CASE AddDone(r)
    BY <1>4, <2>2 DEF AddDone, serverVars
  <2>3. CASE ReadDone(r)
    <3>1. CASE EndDrain(r)
      BY <1>3, <2>3, <3>1 DEF ReadDone
    <3>2. CASE \E read : /\ rows' = [rows EXCEPT ![r] = read]
                         /\ pc' = [pc EXCEPT ![r] = "post"]
                         /\ UNCHANGED uploader
      <4>1. /\ \A q \in Running : q # r => /\ rows'[q] = rows[q]
                                           /\ pc'[q] = pc[q]
            /\ pc'[r] = "post" /\ pc[r] = "read"
            /\ uploader' = uploader /\ received' = received
        BY <2>3, <3>2 DEF ReadDone, TypeInv, CallsTyped
      <4>2. \A q \in Running : q # r => Oldest(q)' = Oldest(q)
        BY <4>1, OldestKept
      <4> QED
        BY <4>1, <4>2 DEF DrainInv
    <3> QED
      BY <2>3, <3>1, <3>2 DEF ReadDone
  <2>4. CASE PostOk(r)
    <3>1. /\ \A q \in Running : q # r => pc'[q] = pc[q]
          /\ pc'[r] = "delete" /\ pc[r] = "post"
          /\ uploader' = uploader /\ rows' = rows
          /\ received' = received \union Values(Oldest(r))
      BY <2>4 DEF PostOk, Receive, TypeInv, CallsTyped
    <3>2. \A q \in Running : Oldest(q)' = Oldest(q)
      BY <3>1, OldestKept
    <3> QED
      BY <3>1, <3>2 DEF DrainInv
  <2>5. CASE PostRejected(r)
    BY <1>3, <2>5 DEF PostRejected, serverVars
  <2>6. CASE PostFailed(r)
    BY <1>3, <2>6 DEF PostFailed, Receive, serverVars
  <2>7. CASE Deleted(r)
    <3>1. CASE EndDrain(r)
      BY <1>3, <2>7, <3>1 DEF Deleted, serverVars
    <3>2. CASE /\ rows' = [rows EXCEPT ![r] = @ \ Oldest(r)]
               /\ pc' = [pc EXCEPT ![r] = "post"]
               /\ UNCHANGED uploader
      <4>1. /\ \A q \in Running : q # r => /\ rows'[q] = rows[q]
                                           /\ pc'[q] = pc[q]
            /\ pc'[r] = "post" /\ pc[r] = "delete"
            /\ uploader' = uploader /\ received' = received
        BY <2>7, <3>2 DEF Deleted, serverVars, TypeInv, CallsTyped
      <4>2. \A q \in Running : q # r => Oldest(q)' = Oldest(q)
        BY <4>1, OldestKept
      <4> QED
        BY <4>1, <4>2 DEF DrainInv
    <3> QED
      BY <2>7, <3>1, <3>2 DEF Deleted
  <2> QED
    BY <1>5, <2>1, <2>2, <2>3, <2>4, <2>5, <2>6, <2>7 DEF DrainWork
<1>6. ASSUME NEW t \in Tab, Navigate(t) PROVE DrainInv'
  <2>1. /\ uploader' = [uploader EXCEPT ![t] = Nobody]
        /\ pc' = [r \in Running |-> IF r[1] = t THEN "idle" ELSE pc[r]]
        /\ rows' = [r \in Running |-> IF r[1] = t THEN {} ELSE rows[r]]
        /\ received' = received
    BY <1>6, NavigateEffect
  <2>2. \A q \in Running : /\ q[1] = t => rows'[q] = {} /\ pc'[q] = "idle"
                           /\ q[1] # t => rows'[q] = rows[q] /\ pc'[q] = pc[q]
    BY <2>1
  <2>3. \A u \in Tab : u # t => uploader'[u] = uploader[u]
    BY <2>1 DEF TypeInv, CallsTyped
  <2>4. \A q \in Running : q[1] # t => Oldest(q)' = Oldest(q)
    BY <2>2, OldestKept
  <2>5. \A q \in Running : rows'[q] # {} => pc'[q] \in {"post", "delete"}
    BY <2>2 DEF DrainInv
  <2>6. \A q \in Running :
          pc'[q] \in {"read", "post", "delete"} => uploader'[q[1]] = q[2]
    BY <2>2, <2>3, PageOf DEF DrainInv
  <2>7. \A q \in Running : pc'[q] = "delete" => Values(Oldest(q)') \subseteq received'
    BY <2>1, <2>2, <2>4 DEF DrainInv
  <2> QED
    BY <2>5, <2>6, <2>7 DEF DrainInv, Values
<1> QED
  BY <1>1, <1>2, <1>5, <1>6, SupplyKinds
-----------------------------------------------------------------------------
(* Where a chunk is.  On its way it is being added, stored, or received,   *)
(* and stored under one key.                                               *)
PlacesInv ==
  /\ \A r \in Running : adding[r] \subseteq cut
  /\ Stored \subseteq cut
  /\ received \subseteq cut
  /\ \A r \in Running : Values(rows[r]) \subseteq Stored \union received
  /\ \A r \in Running : pc[r] # "add" => adding[r] = {}
  /\ \A r \in Running : \A x, y \in adding[r] : x = y
  /\ \A r, q \in Running : r # q => adding[r] \intersect adding[q] = {}
  /\ \A r \in Running : adding[r] \intersect (Stored \union received) = {}

AllRows == store.rows \union UNION {rows[r] : r \in Running}

RowsInv ==
  /\ \A a \in AllRows : a.id < store.next
  /\ \A a, b \in AllRows : a.id = b.id \/ a.value = b.value => a = b

SupplyInv == EventsApart /\ DrainInv /\ PlacesInv /\ RowsInv

LEMMA RowKnown ==
  ASSUME NEW r \in Running
  PROVE  rows[r] \subseteq AllRows
  BY DEF AllRows

(* The value of a row is stored or received.                               *)
LEMMA RowPlaced ==
  ASSUME PlacesInv, NEW a \in AllRows
  PROVE  a.value \in Stored \union received
<1>1. CASE a \in store.rows
  BY <1>1 DEF Stored, Values
<1>2. ASSUME NEW r \in Running, a \in rows[r]
      PROVE  a.value \in Stored \union received
  <2>1. a.value \in Values(rows[r])
    BY <1>2 DEF Values
  <2> QED
    BY <2>1 DEF PlacesInv
<1> QED
  BY <1>1, <1>2 DEF AllRows

(* add stores the chunk.                                                   *)
LEMMA AddEffect ==
  ASSUME TypeInv, NEW x \in Chunk, store' = Add(store, x)
  PROVE  /\ store'.next = store.next + 1
         /\ store'.rows = store.rows \union {[id |-> store.next, value |-> x]}
         /\ Stored' = Stored \union {x}
<1>1. /\ store'.next = store.next + 1
      /\ store'.rows = store.rows \union {[id |-> store.next, value |-> x]}
  BY DEF Add
<1>2. [id |-> store.next, value |-> x].value = x
  OBVIOUS
<1>3. Values(store'.rows) = Values(store.rows) \union {x}
  BY <1>1, <1>2 DEF Values
<1> QED
  BY <1>1, <1>3 DEF Stored

(* The delete removes the chunk that was sent from the store, if another   *)
(* page has not done so before, and no other chunk.                        *)
LEMMA DeleteEffect ==
  ASSUME TypeInv, RowsInv, NEW r \in Running,
         store' = DeleteMany(store, Ids(Oldest(r)))
  PROVE  /\ store'.next = store.next
         /\ store'.rows \subseteq store.rows
         /\ Stored' = Stored \ Values(Oldest(r))
<1> DEFINE ids == Ids(Oldest(r))
<1>1. /\ store'.next = store.next
      /\ store'.rows = {a \in store.rows : a.id \notin ids}
  BY DEF DeleteMany, TypeInv, Store
<1>2. Oldest(r) \subseteq AllRows /\ store.rows \subseteq AllRows
  BY RowKnown DEF Oldest, AllRows
<1>3. \A a \in store.rows, o \in Oldest(r) :
        a.id = o.id \/ a.value = o.value => a = o
  BY <1>2 DEF RowsInv
<1>4. \A a \in store.rows : a.id \in ids <=> a \in Oldest(r)
  BY <1>3 DEF Ids
<1>5. \A a \in store.rows : a.value \in Values(Oldest(r)) <=> a \in Oldest(r)
  BY <1>3 DEF Values
<1> HIDE DEF ids
<1>6. store'.rows = {a \in store.rows : a \notin Oldest(r)}
  BY <1>1, <1>4
<1>7. Values(store'.rows) = Values(store.rows) \ Values(Oldest(r))
  <2>1. \A v \in Values(store'.rows) : v \in Values(store.rows)
                                       /\ v \notin Values(Oldest(r))
    BY <1>5, <1>6 DEF Values
  <2>2. \A v \in Values(store.rows) :
          v \notin Values(Oldest(r)) => v \in Values(store'.rows)
    BY <1>5, <1>6 DEF Values
  <2> QED
    BY <2>1, <2>2
<1> QED
  BY <1>1, <1>6, <1>7 DEF Stored

LEMMA FewerRows ==
  ASSUME RowsInv, AllRows' \subseteq AllRows, store'.next = store.next
  PROVE  RowsInv'
  BY DEF RowsInv

LEMMA NextRows ==
  ASSUME TypeInv, SupplyInv, [Next]_vars
  PROVE  RowsInv'
<1> USE DEF SupplyInv
<1>1. ASSUME store'.rows \subseteq store.rows, store'.next = store.next,
             \A q \in Running : rows'[q] \subseteq AllRows
      PROVE  RowsInv'
  <2>1. AllRows' \subseteq AllRows
    BY <1>1 DEF AllRows
  <2> QED
    BY <1>1, <2>1, FewerRows
<1>2. CASE Kept \/ \E r \in Running : \E x : NewChunk(r, x)
  BY <1>1, <1>2, RowKnown DEF Kept, NewChunk
<1>3. ASSUME NEW r \in Running, EndDrain(r) PROVE \A q \in Running :
             rows'[q] \subseteq AllRows
  <2>1. \A q \in Running : rows'[q] = {} \/ rows'[q] = rows[q]
    BY <1>3, EndDrainEffect
  <2> QED
    BY <2>1, RowKnown
<1>4. ASSUME NEW r \in Running, DrainWork(r) PROVE RowsInv'
  <2>1. CASE ResumeDrain(r) \/ PostOk(r)
    BY <1>1, <2>1, RowKnown DEF ResumeDrain, PostOk
  <2>2. CASE AddDone(r)
    <3>1. PICK x \in adding[r] : store' = Add(store, x)
      BY <2>2 DEF AddDone
    <3>2. x \in Chunk /\ x \notin Stored \union received
      BY DEF PlacesInv, TypeInv, CallsTyped
    <3> DEFINE new == [id |-> store.next, value |-> x]
    <3>3. /\ store'.next = store.next + 1
          /\ store'.rows = store.rows \union {new}
      BY <3>1, <3>2, AddEffect
    <3>4. rows' = rows
      BY <2>2 DEF AddDone
    <3>5. AllRows' = AllRows \union {new}
      BY <3>3, <3>4 DEF AllRows
    <3>6. \A a \in AllRows : a.value # x
      BY <3>2, RowPlaced
    <3>7. \A a \in AllRows : a.id \in Nat /\ a.id < store.next
      BY DEF RowsInv, AllRows, TypeInv, CallsTyped, Store, Row
    <3>8. store.next \in Nat
      BY DEF TypeInv, Store
    <3>9. new.id = store.next /\ new.value = x
      OBVIOUS
    <3> HIDE DEF new
    <3>10. \A a \in AllRows \union {new} : a.id < store.next + 1
      BY <3>7, <3>8, <3>9
    <3>11. \A a \in AllRows : a.id # new.id /\ a.value # new.value
      BY <3>6, <3>7, <3>8, <3>9
    <3>12. \A a, b \in AllRows \union {new} :
             a.id = b.id \/ a.value = b.value => a = b
      BY <3>11 DEF RowsInv
    <3> QED
      BY <3>3, <3>5, <3>10, <3>12 DEF RowsInv
  <2>3. CASE ReadDone(r)
    <3>1. CASE EndDrain(r)
      BY <1>1, <1>3, <2>3, <3>1 DEF ReadDone
    <3>2. CASE rows' = [rows EXCEPT ![r] = GetAll(store, DrainLimit)]
      <4>1. GetAll(store, DrainLimit) \subseteq store.rows
        BY DEF GetAll
      <4>2. \A q \in Running : rows'[q] \subseteq AllRows
        BY <3>2, <4>1, RowKnown DEF AllRows, TypeInv, CallsTyped
      <4> QED
        BY <1>1, <2>3, <4>2 DEF ReadDone
    <3> QED
      BY <2>3, <3>1, <3>2 DEF ReadDone
  <2>4. CASE PostRejected(r) \/ PostFailed(r)
    BY <1>1, <1>3, <2>4 DEF PostRejected, PostFailed
  <2>5. CASE Deleted(r)
    <3>1. store'.next = store.next /\ store'.rows \subseteq store.rows
      BY <2>5, DeleteEffect DEF Deleted
    <3>2. CASE EndDrain(r)
      BY <1>1, <1>3, <3>1, <3>2
    <3>3. CASE rows' = [rows EXCEPT ![r] = @ \ Oldest(r)]
      <4>1. \A q \in Running : rows'[q] \subseteq rows[q]
        BY <3>3 DEF TypeInv, CallsTyped
      <4> QED
        BY <1>1, <3>1, <4>1, RowKnown
    <3> QED
      BY <2>5, <3>2, <3>3 DEF Deleted
  <2> QED
    BY <1>4, <2>1, <2>2, <2>3, <2>4, <2>5 DEF DrainWork
<1>5. ASSUME NEW t \in Tab, Navigate(t) PROVE RowsInv'
  <2>1. /\ rows' = [r \in Running |-> IF r[1] = t THEN {} ELSE rows[r]]
        /\ store' = store
    BY <1>5, NavigateEffect
  <2> QED
    BY <1>1, <2>1, RowKnown
<1> QED
  BY <1>2, <1>4, <1>5, SupplyKinds

(* Steps that cut and store nothing and lose nothing.                      *)
LEMMA SamePlaces ==
  ASSUME PlacesInv, cut' = cut,
         \A q \in Running : adding'[q] \subseteq adding[q],
         \A q \in Running : pc'[q] # "add" => adding'[q] = {},
         Stored' \union received' = Stored \union received,
         \A q \in Running : Values(rows'[q]) \subseteq Stored \union received
  PROVE  PlacesInv'
<1>1. \A q \in Running : Values(rows[q])' = Values(rows'[q])
  BY DEF Values
<1> QED
  BY <1>1 DEF PlacesInv

LEMMA NextPlaces ==
  ASSUME TypeInv, SupplyInv, [Next]_vars
  PROVE  PlacesInv'
<1> USE DEF SupplyInv
<1>0. \A q \in Running : /\ Values(rows[q]) \subseteq Stored \union received
                         /\ pc[q] # "add" => adding[q] = {}
  BY DEF PlacesInv
<1>e. Values({}) = {}
  BY DEF Values
<1>1. CASE Kept
  <2>1. /\ cut' = cut /\ adding' = adding /\ rows' = rows
        /\ received' = received /\ Stored' = Stored
    BY <1>1 DEF Kept, serverVars, Stored
  <2>2. \A q \in Running : pc'[q] # "add" => adding'[q] = {}
    BY <1>0, <1>1 DEF Kept
  <2> QED
    BY <1>0, <2>1, <2>2, SamePlaces
<1>2. ASSUME NEW r \in Running, NEW x, NewChunk(r, x) PROVE PlacesInv'
  <2>1. /\ cut' = cut \union {x} /\ x \notin cut
        /\ rows' = rows /\ received' = received /\ Stored' = Stored
        /\ \A q \in Running : q # r => /\ pc'[q] = pc[q]
                                       /\ adding'[q] = adding[q]
        /\ pc'[r] = "add" /\ adding'[r] = {x}
    BY <1>2 DEF NewChunk, serverVars, Stored, TypeInv, CallsTyped
  <2>2. /\ \A q \in Running : adding'[q] \subseteq cut'
        /\ Stored' \subseteq cut'
        /\ received' \subseteq cut'
    BY <2>1 DEF PlacesInv
  <2>3. /\ \A q \in Running : pc'[q] # "add" => adding'[q] = {}
        /\ \A q \in Running : \A y, z \in adding'[q] : y = z
    BY <2>1 DEF PlacesInv
  <2>4. \A q, p \in Running : q # p => adding'[q] \intersect adding'[p] = {}
    BY <2>1 DEF PlacesInv
  <2>5. \A q \in Running : adding'[q] \intersect (Stored' \union received') = {}
    BY <2>1 DEF PlacesInv
  <2> QED
    BY <2>1, <2>2, <2>3, <2>4, <2>5 DEF PlacesInv
<1>3. ASSUME NEW r \in Running, EndDrain(r), pc[r] # "add"
      PROVE  \A q \in Running :
               /\ Values(rows'[q]) \subseteq Stored \union received
               /\ pc'[q] # "add" => adding[q] = {}
  <2>1. \A q \in Running : rows'[q] = {} \/ rows'[q] = rows[q]
    BY <1>3, EndDrainEffect
  <2>2. \A q \in Running : \/ q = r
                           \/ pc'[q] = pc[q]
                           \/ pc[q] = "wait"
    BY <1>3, EndDrainEffect
  <2>3. \A q \in Running : Values(rows'[q]) \subseteq Stored \union received
    BY <1>0, <1>e, <2>1
  <2> QED
    BY <1>0, <1>3, <2>2, <2>3
<1>4. ASSUME NEW r \in Running, DrainWork(r) PROVE PlacesInv'
  <2>0. Values(Oldest(r)) \subseteq Stored \union received
    BY <1>0, OldestType
  <2>1. CASE ResumeDrain(r)
    <3>1. /\ cut' = cut /\ adding' = adding /\ rows' = rows
          /\ received' = received /\ Stored' = Stored
      BY <2>1 DEF ResumeDrain, bufferVars, serverVars, Stored
    <3>2. pc[r] = "next" /\ \A q \in Running : q # r => pc'[q] = pc[q]
      BY <2>1, DrainEffect DEF ResumeDrain, Due
    <3>3. \A q \in Running : pc'[q] # "add" => adding'[q] = {}
      BY <1>0, <3>1, <3>2
    <3> QED
      BY <1>0, <3>1, <3>3, SamePlaces
  <2>2. CASE AddDone(r)
    <3>1. PICK x \in adding[r] : store' = Add(store, x)
      BY <2>2 DEF AddDone
    <3>2. x \in Chunk /\ x \in cut
      BY DEF PlacesInv, TypeInv, CallsTyped
    <3>3. Stored' = Stored \union {x}
      BY <3>1, <3>2, AddEffect
    <3>4. /\ cut' = cut /\ rows' = rows /\ received' = received
          /\ \A q \in Running : q # r => adding'[q] = adding[q]
          /\ adding'[r] = {}
      BY <2>2 DEF AddDone, bufferVars, serverVars, TypeInv, CallsTyped
    <3>5. \A q \in Running : q # r => pc'[q] = pc[q]
      BY <2>2, DrainEffect DEF AddDone
    <3>6. /\ \A q \in Running : adding'[q] \subseteq cut'
          /\ Stored' \subseteq cut'
          /\ received' \subseteq cut'
      BY <3>2, <3>3, <3>4 DEF PlacesInv
    <3>7. \A q \in Running : Values(rows'[q]) \subseteq Stored' \union received'
      BY <1>0, <3>3, <3>4
    <3>8. /\ \A q \in Running : pc'[q] # "add" => adding'[q] = {}
          /\ \A q \in Running : \A y, z \in adding'[q] : y = z
      BY <3>4, <3>5 DEF PlacesInv
    <3>9. \A q, p \in Running : q # p => adding'[q] \intersect adding'[p] = {}
      BY <3>4 DEF PlacesInv
    <3>10. \A q \in Running :
             adding'[q] \intersect (Stored' \union received') = {}
      <4>1. \A q \in Running : q # r => x \notin adding[q]
        BY DEF PlacesInv
      <4> QED
        BY <3>3, <3>4, <4>1 DEF PlacesInv
    <3> QED
      BY <3>6, <3>7, <3>8, <3>9, <3>10 DEF PlacesInv, Values
  <2>3. CASE ReadDone(r)
    <3>1. /\ cut' = cut /\ adding' = adding /\ pc[r] = "read"
          /\ received' = received /\ Stored' = Stored
      BY <2>3 DEF ReadDone, bufferVars, Stored
    <3>2. CASE EndDrain(r)
      BY <1>3, <3>1, <3>2, SamePlaces
    <3>3. CASE /\ rows' = [rows EXCEPT ![r] = GetAll(store, DrainLimit)]
               /\ pc' = [pc EXCEPT ![r] = "post"]
      <4>1. Values(GetAll(store, DrainLimit)) \subseteq Stored
        BY DEF GetAll, Stored, Values
      <4>2. \A q \in Running : Values(rows'[q]) \subseteq Stored \union received
        BY <1>0, <3>3, <4>1 DEF TypeInv, CallsTyped
      <4>3. \A q \in Running : pc'[q] # "add" => adding'[q] = {}
        BY <1>0, <3>1, <3>3 DEF TypeInv, CallsTyped
      <4> QED
        BY <3>1, <4>2, <4>3, SamePlaces
    <3> QED
      BY <2>3, <3>2, <3>3 DEF ReadDone
  <2>4. CASE PostOk(r)
    <3>1. /\ cut' = cut /\ adding' = adding /\ rows' = rows /\ pc[r] = "post"
          /\ received' = received \union Values(Oldest(r)) /\ Stored' = Stored
          /\ pc' = [pc EXCEPT ![r] = "delete"]
      BY <2>4 DEF PostOk, Receive, bufferVars, Stored
    <3>2. \A q \in Running : pc'[q] # "add" => adding'[q] = {}
      BY <1>0, <3>1 DEF TypeInv, CallsTyped
    <3> QED
      BY <1>0, <2>0, <3>1, <3>2, SamePlaces
  <2>5. CASE PostRejected(r) \/ PostFailed(r)
    <3>1. /\ cut' = cut /\ adding' = adding /\ pc[r] = "post"
          /\ Stored' = Stored /\ EndDrain(r)
          /\ \/ received' = received
             \/ received' = received \union Values(Oldest(r))
      BY <2>5 DEF PostRejected, PostFailed, Receive, bufferVars, serverVars,
                  Stored
    <3> QED
      BY <1>3, <2>0, <3>1, SamePlaces
  <2>6. CASE Deleted(r)
    <3>1. /\ cut' = cut /\ adding' = adding /\ pc[r] = "delete"
          /\ received' = received
      BY <2>6 DEF Deleted, bufferVars, serverVars
    <3>2. Stored' = Stored \ Values(Oldest(r))
      BY <2>6, DeleteEffect DEF Deleted
    <3>3. Values(Oldest(r)) \subseteq received
      BY <3>1 DEF DrainInv
    <3>4. Stored' \union received' = Stored \union received
      BY <3>1, <3>2, <3>3
    <3>5. CASE EndDrain(r)
      BY <1>3, <3>1, <3>4, <3>5, SamePlaces
    <3>6. CASE /\ rows' = [rows EXCEPT ![r] = @ \ Oldest(r)]
               /\ pc' = [pc EXCEPT ![r] = "post"]
      <4>1. \A q \in Running : rows'[q] \subseteq rows[q]
        BY <3>6 DEF TypeInv, CallsTyped
      <4>2. \A q \in Running : Values(rows'[q]) \subseteq Values(rows[q])
        BY <4>1 DEF Values
      <4>3. \A q \in Running : pc'[q] # "add" => adding'[q] = {}
        BY <1>0, <3>1, <3>6 DEF TypeInv, CallsTyped
      <4> QED
        BY <1>0, <3>1, <3>4, <4>2, <4>3, SamePlaces
    <3> QED
      BY <2>6, <3>5, <3>6 DEF Deleted
  <2> QED
    BY <1>4, <2>1, <2>2, <2>3, <2>4, <2>5, <2>6 DEF DrainWork
<1>5. ASSUME NEW t \in Tab, Navigate(t) PROVE PlacesInv'
  <2>1. /\ pc' = [r \in Running |-> IF r[1] = t THEN "idle" ELSE pc[r]]
        /\ adding' = [r \in Running |-> IF r[1] = t THEN {} ELSE adding[r]]
        /\ rows' = [r \in Running |-> IF r[1] = t THEN {} ELSE rows[r]]
        /\ cut' = cut /\ received' = received /\ Stored' = Stored
    BY <1>5, NavigateEffect DEF Stored
  <2>2. \A q \in Running : /\ adding'[q] \subseteq adding[q]
                           /\ pc'[q] # "add" => adding'[q] = {}
    BY <1>0, <2>1
  <2>3. \A q \in Running : Values(rows'[q]) \subseteq Stored \union received
    BY <1>0, <1>e, <2>1
  <2> QED
    BY <2>1, <2>2, <2>3, SamePlaces
<1> QED
  BY <1>1, <1>2, <1>4, <1>5, SupplyKinds

LEMMA InitSupply == Init => SupplyInv
<1> SUFFICES ASSUME Init PROVE SupplyInv
  OBVIOUS
<1>1. EventsApart
  BY DEF Init, EventsApart
<1>2. DrainInv
  BY DEF Init, DrainInv
<1>3. store.rows = {} /\ \A r \in Running : rows[r] = {}
  BY DEF Init, EmptyStore
<1>4. Stored = {} /\ \A r \in Running : Values(rows[r]) = {}
  BY <1>3 DEF Stored, Values
<1>5. PlacesInv
  BY <1>4 DEF Init, PlacesInv
<1>6. AllRows = {}
  BY <1>3 DEF AllRows
<1>7. RowsInv
  BY <1>6 DEF RowsInv
<1> QED
  BY <1>1, <1>2, <1>5, <1>7 DEF SupplyInv

LEMMA NextSupply ==
  ASSUME TypeInv, SupplyInv, [Next]_vars
  PROVE  SupplyInv'
  BY SupplyKinds, NextDrain, NextPlaces, NextRows DEF SupplyInv
-----------------------------------------------------------------------------
(* Copies.  A chunk the server has and somebody could send again is either *)
(* suspect or about to be deleted by the call that sent it; a chunk that   *)
(* two drains have in hand is suspect.                                     *)
CopiesInv ==
  /\ \A r, q \in Running :
       r # q => Values(rows[r]) \intersect Values(rows[q]) \subseteq suspect
  /\ \A x \in received \intersect Stored :
       \/ x \in suspect
       \/ \E r \in Running : pc[r] = "delete" /\ x \in Values(Oldest(r))
  /\ \A r \in Running : \A x \in Values(rows[r]) \intersect received :
       \/ x \in suspect
       \/ pc[r] = "delete" /\ x \in Values(Oldest(r))
  /\ dup \subseteq suspect

(* Steps that hand out no row and send nothing.                            *)
LEMMA QuietCopies ==
  ASSUME CopiesInv, received' = received, dup' = dup, suspect' = suspect,
         \A q \in Running : rows'[q] = rows[q],
         \A q \in Running : pc'[q] = "delete" <=> pc[q] = "delete",
         received \intersect Stored' \subseteq Stored
  PROVE  CopiesInv'
<1>1. \A q \in Running : /\ Oldest(q)' = Oldest(q)
                         /\ Values(rows[q])' = Values(rows[q])
                         /\ Values(Oldest(q))' = Values(Oldest(q))
  BY OldestKept DEF Values
<1>2. \A r, q \in Running :
        r # q => Values(rows[r])' \intersect Values(rows[q])' \subseteq suspect'
  BY <1>1 DEF CopiesInv
<1>3. \A x \in received' \intersect Stored' :
        \/ x \in suspect'
        \/ \E r \in Running : pc'[r] = "delete" /\ x \in Values(Oldest(r))'
  BY <1>1 DEF CopiesInv
<1>4. \A r \in Running : \A x \in Values(rows[r])' \intersect received' :
        \/ x \in suspect'
        \/ pc'[r] = "delete" /\ x \in Values(Oldest(r))'
  BY <1>1 DEF CopiesInv
<1> QED
  BY <1>2, <1>3, <1>4 DEF CopiesInv

(* Steps in which the call r alone changes what it has in hand: it drops   *)
(* or sends the oldest of its chunks, or takes new ones.                   *)
LEMMA CopiesFrom ==
  ASSUME CopiesInv, NEW r \in Running,
         \A q \in Running : q # r =>
            rows'[q] = rows[q] /\ (pc'[q] = "delete" <=> pc[q] = "delete"),
         suspect \subseteq suspect', dup' \subseteq suspect',
         received \subseteq received',
         \A q \in Running : q # r =>
            Values(rows'[r]) \intersect Values(rows[q]) \subseteq suspect',
         \A q \in Running : q # r =>
            Values(rows[q]) \intersect (received' \ received) \subseteq suspect',
         \A x \in received' \intersect Stored' :
            \/ x \in suspect'
            \/ x \in received \intersect Stored
               /\ ~(pc[r] = "delete" /\ x \in Values(Oldest(r)))
            \/ pc'[r] = "delete" /\ x \in Values(Oldest(r))',
         \A x \in Values(rows'[r]) \intersect received' :
            \/ x \in suspect'
            \/ pc'[r] = "delete" /\ x \in Values(Oldest(r))'
  PROVE  CopiesInv'
<1>0. Values(rows[r])' = Values(rows'[r])
  BY DEF Values
<1>1. \A q \in Running : q # r => /\ Values(rows[q])' = Values(rows[q])
                                  /\ Values(Oldest(q))' = Values(Oldest(q))
  BY OldestKept DEF Values
<1>2. \A p, q \in Running :
        p # q => Values(rows[p])' \intersect Values(rows[q])' \subseteq suspect'
  BY <1>0, <1>1 DEF CopiesInv
<1>3. \A x \in received' \intersect Stored' :
        \/ x \in suspect'
        \/ \E q \in Running : pc'[q] = "delete" /\ x \in Values(Oldest(q))'
  <2> SUFFICES ASSUME NEW x \in received' \intersect Stored', x \notin suspect',
                      ~(pc'[r] = "delete" /\ x \in Values(Oldest(r))')
               PROVE  \E q \in Running :
                        pc'[q] = "delete" /\ x \in Values(Oldest(q))'
    OBVIOUS
  <2>1. /\ x \in received \intersect Stored
        /\ ~(pc[r] = "delete" /\ x \in Values(Oldest(r)))
        /\ x \notin suspect
    OBVIOUS
  <2>2. PICK q \in Running : pc[q] = "delete" /\ x \in Values(Oldest(q))
    BY <2>1 DEF CopiesInv
  <2>3. q # r
    BY <2>1, <2>2
  <2>4. pc'[q] = "delete" /\ x \in Values(Oldest(q))'
    BY <1>1, <2>2, <2>3
  <2> QED
    BY <2>4
<1>4. \A q \in Running : \A x \in Values(rows[q])' \intersect received' :
        \/ x \in suspect'
        \/ pc'[q] = "delete" /\ x \in Values(Oldest(q))'
  <2>1. \A q \in Running : q # r =>
          \A x \in Values(rows[q]) \intersect received' :
             \/ x \in suspect'
             \/ pc'[q] = "delete" /\ x \in Values(Oldest(q))
    BY DEF CopiesInv
  <2> QED
    BY <1>0, <1>1, <2>1
<1> QED
  BY <1>2, <1>3, <1>4 DEF CopiesInv

LEMMA NextCopies ==
  ASSUME TypeInv, SupplyInv, CopiesInv, [Next]_vars
  PROVE  CopiesInv'
<1> USE DEF SupplyInv
<1>e. Values({}) = {}
  BY DEF Values
<1>1. CASE Kept
  <2>1. /\ rows' = rows /\ UNCHANGED serverVars /\ Stored' = Stored
        /\ \A q \in Running : pc'[q] = "delete" <=> pc[q] = "delete"
    BY <1>1 DEF Kept, Stored
  <2> QED
    BY <2>1, QuietCopies DEF serverVars
<1>2. ASSUME NEW r \in Running, NEW x, NewChunk(r, x) PROVE CopiesInv'
  <2>1. /\ rows' = rows /\ UNCHANGED serverVars /\ Stored' = Stored
        /\ \A q \in Running : pc'[q] = "delete" <=> pc[q] = "delete"
    BY <1>2 DEF NewChunk, Stored, TypeInv, CallsTyped
  <2> QED
    BY <2>1, QuietCopies DEF serverVars
<1>3. ASSUME NEW r \in Running, DrainWork(r) PROVE CopiesInv'
  <2> DEFINE O == Values(Oldest(r))
  <2>0. O \subseteq Values(rows[r])
    BY OldestType
  <2>d. ASSUME EndDrain(r)
        PROVE  /\ \A q \in Running : q # r =>
                    /\ rows'[q] = rows[q]
                    /\ pc'[q] = "delete" <=> pc[q] = "delete"
               /\ rows'[r] = {} /\ Values(rows'[r]) = {}
               /\ pc'[r] # "delete"
    BY <1>e, <2>d, EndDrainEffect
  <2>1. CASE ResumeDrain(r)
    <3>1. /\ rows' = rows /\ UNCHANGED serverVars /\ Stored' = Stored
          /\ \A q \in Running : pc'[q] = "delete" <=> pc[q] = "delete"
      BY <2>1, DrainEffect DEF ResumeDrain, Due, Stored
    <3> QED
      BY <3>1, QuietCopies DEF serverVars
  <2>2. CASE AddDone(r)
    <3>1. PICK x \in adding[r] : store' = Add(store, x)
      BY <2>2 DEF AddDone
    <3>2. x \in Chunk /\ x \notin received
      BY DEF PlacesInv, TypeInv, CallsTyped
    <3>3. Stored' = Stored \union {x}
      BY <3>1, <3>2, AddEffect
    <3>4. /\ rows' = rows /\ UNCHANGED serverVars
          /\ \A q \in Running : pc'[q] = "delete" <=> pc[q] = "delete"
      BY <2>2, DrainEffect DEF AddDone
    <3> QED
      BY <3>2, <3>3, <3>4, QuietCopies DEF serverVars
  <2>3. CASE ReadDone(r)
    <3> DEFINE read == GetAll(store, DrainLimit)
    <3>1. /\ pc[r] = "read" /\ Stored' = Stored
          /\ received' = received /\ dup' = dup
      BY <2>3 DEF ReadDone, Stored
    <3>2. rows[r] = {}
      BY <3>1 DEF DrainInv
    <3>3. CASE EndDrain(r) /\ UNCHANGED suspect
      <4>1. /\ \A q \in Running : rows'[q] = rows[q]
            /\ \A q \in Running : pc'[q] = "delete" <=> pc[q] = "delete"
        BY <2>d, <3>1, <3>2, <3>3
      <4> QED
        BY <3>1, <3>3, <4>1, QuietCopies
    <3>4. CASE /\ rows' = [rows EXCEPT ![r] = read]
               /\ pc' = [pc EXCEPT ![r] = "post"]
               /\ suspect' = suspect \union
                               (Values(read) \intersect HeldElsewhere(r[1]))
      <4>1. Values(read) \subseteq Stored
        BY DEF GetAll, Stored, Values
      <4> HIDE DEF read
      <4>2. /\ rows'[r] = read /\ pc'[r] = "post"
            /\ \A q \in Running : q # r => rows'[q] = rows[q] /\ pc'[q] = pc[q]
        BY <3>4 DEF TypeInv, CallsTyped
      <4>3. \A q \in Running :
              q # r /\ rows[q] # {} => Values(rows[q]) \subseteq HeldElsewhere(r[1])
        <5> SUFFICES ASSUME NEW q \in Running, q # r, rows[q] # {}
                     PROVE  Values(rows[q]) \subseteq HeldElsewhere(r[1])
          OBVIOUS
        <5>1. pc[q] \in {"post", "delete"}
          BY DEF DrainInv
        <5>2. q[1] # r[1]
          BY <3>1, <5>1, OneDrain
        <5> QED
          BY <5>2 DEF HeldElsewhere
      <4>4. \A q \in Running : q # r =>
              Values(read) \intersect Values(rows[q]) \subseteq suspect'
        BY <1>e, <3>4, <4>3
      <4>5. \A x \in Values(read) \intersect received : x \in suspect'
        <5> SUFFICES ASSUME NEW x \in Values(read) \intersect received,
                            x \notin suspect
                     PROVE  x \in suspect'
          BY <3>4
        <5>1. PICK q \in Running : pc[q] = "delete" /\ x \in Values(Oldest(q))
          BY <4>1 DEF CopiesInv
        <5>2. x \in Values(rows[q]) /\ q # r
          BY <3>1, <5>1, OldestType
        <5> QED
          BY <4>4, <5>2
      <4>6. suspect \subseteq suspect' /\ dup' \subseteq suspect'
        BY <3>1, <3>4 DEF CopiesInv
      <4> QED
        BY <3>1, <4>2, <4>4, <4>5, <4>6, CopiesFrom
    <3> QED
      BY <2>3, <3>3, <3>4 DEF ReadDone
  <2>4. CASE PostOk(r)
    <3>1. /\ pc[r] = "post" /\ Stored' = Stored /\ rows' = rows
          /\ received' = received \union O
          /\ dup' = dup \union (O \intersect received)
          /\ suspect' = suspect
          /\ pc'[r] = "delete"
          /\ \A q \in Running : q # r => pc'[q] = pc[q]
      BY <2>4 DEF PostOk, Receive, Stored, TypeInv, CallsTyped
    <3>2. Values(Oldest(r))' = O
      BY <3>1, OldestKept DEF Values
    <3>3. dup' \subseteq suspect'
      BY <2>0, <3>1 DEF CopiesInv
    <3>4. \A q \in Running : q # r =>
             /\ Values(rows'[r]) \intersect Values(rows[q]) \subseteq suspect'
             /\ Values(rows[q]) \intersect (received' \ received)
                  \subseteq suspect'
      BY <2>0, <3>1 DEF CopiesInv
    <3>5. \A x \in received' \intersect Stored' :
            \/ x \in received \intersect Stored
            \/ x \in Values(Oldest(r))'
      BY <3>1, <3>2
    <3>6. \A x \in Values(rows'[r]) \intersect received' :
            x \in suspect' \/ x \in Values(Oldest(r))'
      BY <3>1, <3>2 DEF CopiesInv
    <3> HIDE DEF O
    <3> QED
      BY <3>1, <3>3, <3>4, <3>5, <3>6, CopiesFrom
  <2>5. CASE PostRejected(r)
    <3>1. /\ pc[r] = "post" /\ Stored' = Stored /\ EndDrain(r)
          /\ received' = received /\ dup' = dup /\ suspect' = suspect
      BY <2>5 DEF PostRejected, serverVars, Stored
    <3>2. dup' \subseteq suspect'
      BY <3>1 DEF CopiesInv
    <3> QED
      BY <2>d, <3>1, <3>2, CopiesFrom
  <2>6. CASE PostFailed(r)
    <3>1. /\ pc[r] = "post" /\ Stored' = Stored /\ EndDrain(r)
          /\ \/ /\ received' = received /\ dup' = dup /\ suspect' = suspect
             \/ /\ received' = received \union O
                /\ dup' = dup \union (O \intersect received)
                /\ suspect' = suspect \union O
      BY <2>6 DEF PostFailed, Receive, serverVars, Stored
    <3>2. /\ suspect \subseteq suspect' /\ dup' \subseteq suspect'
          /\ received \subseteq received'
          /\ received' \ received \subseteq suspect'
      BY <3>1 DEF CopiesInv
    <3>3. \A x \in received' \intersect Stored' :
            x \in suspect' \/ x \in received \intersect Stored
      BY <3>1, <3>2
    <3> HIDE DEF O
    <3> QED
      BY <2>d, <3>1, <3>2, <3>3, CopiesFrom
  <2>7. CASE Deleted(r)
    <3>1. /\ pc[r] = "delete" /\ Stored' = Stored \ O
          /\ received' = received /\ dup' = dup /\ suspect' = suspect
      BY <2>7, DeleteEffect DEF Deleted, serverVars
    <3>2. dup' \subseteq suspect'
      BY <3>1 DEF CopiesInv
    <3>3. \A x \in received' \intersect Stored' :
            /\ x \in received \intersect Stored
            /\ x \notin Values(Oldest(r))
      BY <3>1
    <3>4. CASE EndDrain(r)
      BY <2>d, <3>1, <3>2, <3>3, <3>4, CopiesFrom
    <3>5. CASE /\ rows' = [rows EXCEPT ![r] = @ \ Oldest(r)]
               /\ pc' = [pc EXCEPT ![r] = "post"]
      <4>1. /\ rows'[r] = rows[r] \ Oldest(r) /\ pc'[r] = "post"
            /\ \A q \in Running : q # r => rows'[q] = rows[q] /\ pc'[q] = pc[q]
        BY <3>5 DEF TypeInv, CallsTyped
      <4>2. Values(rows'[r]) \subseteq Values(rows[r])
        BY <4>1 DEF Values
      <4>3. Values(rows'[r]) \intersect Values(Oldest(r)) = {}
        <5>1. \A a \in rows[r], o \in Oldest(r) : a.value = o.value => a = o
          BY OldestType, RowKnown DEF RowsInv
        <5> QED
          BY <4>1, <5>1 DEF Values
      <4>4. \A x \in Values(rows'[r]) \intersect received' : x \in suspect'
        BY <3>1, <4>2, <4>3 DEF CopiesInv
      <4>5. \A q \in Running : q # r =>
              Values(rows'[r]) \intersect Values(rows[q]) \subseteq suspect'
        BY <3>1, <4>2 DEF CopiesInv
      <4> QED
        BY <3>1, <3>2, <3>3, <4>1, <4>4, <4>5, CopiesFrom
    <3> QED
      BY <2>7, <3>4, <3>5 DEF Deleted
  <2> QED
    BY <1>3, <2>1, <2>2, <2>3, <2>4, <2>5, <2>6, <2>7 DEF DrainWork
<1>4. ASSUME NEW t \in Tab, Navigate(t) PROVE CopiesInv'
  <2> DEFINE calls == {r \in Running : r[1] = t}
             sent == {r \in calls : pc[r] \in {"post", "delete"}}
  <2>1. suspect' = suspect \union UNION {Values(Oldest(r)) : r \in sent}
    BY <1>4 DEF Navigate
  <2>2. \A r \in Running : r[1] = t /\ pc[r] = "delete" =>
          Values(Oldest(r)) \subseteq suspect'
    BY <2>1
  <2>3. suspect \subseteq suspect'
    BY <2>1
  <2> HIDE DEF calls, sent
  <2>4. /\ \A r \in Running : r[1] = t => rows'[r] = {}
        /\ \A r \in Running : r[1] # t => rows'[r] = rows[r] /\ pc'[r] = pc[r]
        /\ received' = received /\ dup' = dup /\ Stored' = Stored
    BY <1>4, NavigateEffect DEF Stored
  <2>5. /\ \A r \in Running : r[1] = t => Values(rows[r])' = {}
        /\ \A r \in Running : r[1] # t =>
             /\ Values(rows[r])' = Values(rows[r])
             /\ Values(Oldest(r))' = Values(Oldest(r))
    BY <1>e, <2>4, OldestKept DEF Values
  <2>6. \A r, q \in Running :
          r # q => Values(rows[r])' \intersect Values(rows[q])' \subseteq suspect'
    BY <2>3, <2>5 DEF CopiesInv
  <2>7. \A x \in received' \intersect Stored' :
          \/ x \in suspect'
          \/ \E r \in Running : pc'[r] = "delete" /\ x \in Values(Oldest(r))'
    <3> SUFFICES ASSUME NEW x \in received \intersect Stored, x \notin suspect'
                 PROVE  \E r \in Running :
                          pc'[r] = "delete" /\ x \in Values(Oldest(r))'
      BY <2>4
    <3>1. PICK r \in Running : pc[r] = "delete" /\ x \in Values(Oldest(r))
      BY <2>3 DEF CopiesInv
    <3>2. r[1] # t
      BY <2>2, <3>1
    <3>3. pc'[r] = "delete" /\ x \in Values(Oldest(r))'
      BY <2>4, <2>5, <3>1, <3>2
    <3> QED
      BY <3>3
  <2>8. \A r \in Running : \A x \in Values(rows[r])' \intersect received' :
          \/ x \in suspect'
          \/ pc'[r] = "delete" /\ x \in Values(Oldest(r))'
    BY <2>3, <2>4, <2>5 DEF CopiesInv
  <2>9. dup' \subseteq suspect'
    BY <2>3, <2>4 DEF CopiesInv
  <2> QED
    BY <2>6, <2>7, <2>8, <2>9 DEF CopiesInv
<1> QED
  BY <1>1, <1>2, <1>3, <1>4, SupplyKinds

LEMMA AlwaysSupplied == Spec => [](TypeInv /\ SupplyInv)
  BY InitTypeInv, NextTypeInv, InitSupply, NextSupply, PTL DEF Spec

(* The server has several copies of a chunk only where one cannot be       *)
(* avoided: the answer never came, the page went away between the POST and *)
(* the delete, or two tabs had read the same row before either deleted it. *)
(* Two flushes of one page never send a chunk twice, however many of them  *)
(* are under way (the mutex at index.ts:721).                              *)
THEOREM CopiesHaveACause == Spec => []DuplicatesExplained
<1>1. Init => CopiesInv
  <2> SUFFICES ASSUME Init PROVE CopiesInv
    OBVIOUS
  <2>1. \A r \in Running : Values(rows[r]) = {}
    BY DEF Init, Values
  <2> QED
    BY <2>1 DEF Init, CopiesInv
<1>2. CopiesInv => DuplicatesExplained
  BY DEF CopiesInv, DuplicatesExplained
<1> QED
  BY AlwaysSupplied, <1>1, <1>2, NextCopies, PTL DEF Spec
-----------------------------------------------------------------------------
(* Delivery.  Each step of the recorder takes in one event, sends some of  *)
(* those that wait, gives some up with their page, or changes nothing that *)
(* the promise speaks of.                                                  *)
OnTheWay == EventsOf(Adding \union Stored)
Sent == EventsOf(received)

LEMMA EventsOfUnion ==
  ASSUME NEW A, NEW B
  PROVE  EventsOf(A \union B) = EventsOf(A) \union EventsOf(B)
  BY DEF EventsOf

LEMMA EventsOfSubset ==
  ASSUME NEW A, NEW B, A \subseteq B
  PROVE  EventsOf(A) \subseteq EventsOf(B)
  BY DEF EventsOf

LEMMA WaitingIs == Waiting = (Buffered \union OnTheWay) \ Sent
  BY DEF Waiting, OnTheWay, Sent

(* A new chunk puts its events on the way.                                 *)
LEMMA ChunkOnTheWay ==
  ASSUME TypeInv, SupplyInv, NEW r \in Running, NEW x, NewChunk(r, x)
  PROVE  /\ OnTheWay' = OnTheWay \union x.events
         /\ Sent' = Sent
<1>1. adding[r] = {}
  BY DEF NewChunk, SupplyInv, PlacesInv
<1>2. /\ adding'[r] = {x}
      /\ \A q \in Running : q # r => adding'[q] = adding[q]
      /\ Stored' = Stored /\ received' = received
  BY DEF NewChunk, Stored, serverVars, TypeInv, CallsTyped
<1>3. Adding' = Adding \union {x}
  BY <1>1, <1>2 DEF Adding
<1>4. EventsOf({x}) = x.events
  BY DEF EventsOf
<1>5. Adding' \union Stored' = (Adding \union Stored) \union {x}
  BY <1>2, <1>3
<1>6. EventsOf(Adding' \union Stored')
        = EventsOf(Adding \union Stored) \union x.events
  BY <1>4, <1>5, EventsOfUnion
<1> QED
  BY <1>2, <1>6 DEF OnTheWay, Sent, EventsOf

(* The steps of the abstract queue, by what they do here.                  *)
TakesIn(i) ==
  /\ i \in Recorded
  /\ i \notin Buffered \union OnTheWay \union Sent \union missed
  /\ Buffered' \union OnTheWay' = (Buffered \union OnTheWay) \union {i}
  /\ Sent' = Sent
  /\ missed' = missed

Moves(dropped) ==
  /\ Sent \subseteq Sent'
  /\ Sent' \subseteq Buffered \union OnTheWay \union Sent
  /\ dropped \subseteq Buffered \union OnTheWay
  /\ dropped \intersect Sent' = {}
  /\ (Buffered' \union OnTheWay') \ Sent'
       = (Buffered \union OnTheWay) \ (Sent' \union dropped)
  /\ missed' = missed \union dropped

LEMMA TakesInAccepts ==
  ASSUME NEW i, TakesIn(i)
  PROVE  Delivery!Next
<1>1. i \notin Waiting \union Sent \union missed
  BY WaitingIs DEF TakesIn
<1>2. Waiting' = Waiting \union {i}
  <2>1. Waiting' = (Buffered' \union OnTheWay') \ Sent'
    BY DEF Waiting, OnTheWay, Sent
  <2> QED
    BY <2>1, WaitingIs DEF TakesIn
<1>3. Delivery!Accept(i, {})
  BY <1>1, <1>2 DEF TakesIn, Sent, Delivery!Accept
<1> QED
  BY <1>3 DEF TakesIn, Delivery!Next

LEMMA MovesResolves ==
  ASSUME NEW dropped, Moves(dropped)
  PROVE  Delivery!Next
<1> DEFINE delivered == Sent' \ Sent
<1>1. Waiting' = Waiting \ (delivered \union dropped)
  <2>1. Waiting' = (Buffered' \union OnTheWay') \ Sent'
    BY DEF Waiting, OnTheWay, Sent
  <2> QED
    BY <2>1, WaitingIs DEF Moves
<1>2. /\ delivered \subseteq Waiting
      /\ dropped \subseteq Waiting
      /\ delivered \intersect dropped = {}
      /\ Sent' = Sent \union delivered
      /\ missed' = missed \union dropped
  BY WaitingIs DEF Moves
<1> HIDE DEF delivered
<1>3. Delivery!Resolve(delivered, dropped)
  BY <1>1, <1>2 DEF Sent, Delivery!Resolve
<1> QED
  BY <1>2, <1>3 DEF Delivery!Next

KeepsPromise == (\E i : TakesIn(i)) \/ (\E dropped : Moves(dropped))

(* A step that moves no event.                                             *)
LEMMA StaysPut ==
  ASSUME Buffered' \union OnTheWay' = Buffered \union OnTheWay,
         Sent' = Sent, missed' = missed,
         Sent \subseteq Buffered \union OnTheWay \union Sent
  PROVE  KeepsPromise
<1>1. Moves({})
  BY DEF Moves
<1> QED
  BY <1>1 DEF KeepsPromise

(* A new event is accepted.                                                *)
LEMMA NewEvent ==
  ASSUME TypeInv, SupplyInv, NEW t \in Tab, NEW e \in Event, Unrecorded(e)
  PROVE  /\ <<e, session[t]>> \in Recorded
         /\ <<e, session[t]>> \notin
              Buffered \union OnTheWay \union Sent \union missed
<1> DEFINE i == <<e, session[t]>>
<1>1. i \in Recorded
  BY DEF Recorded, TypeInv, SessionsTyped
<1>2. /\ i \notin missed
      /\ \A u \in Tab : i \notin buffer[u]
      /\ \A x \in cut : i \notin x.events
  BY UnrecordedIsNew
<1> HIDE DEF i
<1>3. i \notin Buffered
  BY <1>2 DEF Buffered
<1>4. Adding \union Stored \subseteq cut /\ received \subseteq cut
  BY DEF SupplyInv, PlacesInv, Adding
<1>5. i \notin OnTheWay /\ i \notin Sent
  BY <1>2, <1>4 DEF OnTheWay, Sent, EventsOf
<1> QED
  BY <1>1, <1>2, <1>3, <1>5 DEF i

LEMMA EmitDelivers ==
  ASSUME TypeInv, SupplyInv, NEW t \in Tab, NEW e \in Event, Emit(t, e)
  PROVE  KeepsPromise
<1> DEFINE i == <<e, session[t]>>
<1>1. i \in Recorded /\ i \notin Buffered \union OnTheWay \union Sent \union missed
  BY NewEvent DEF Emit
<1>2. missed' = missed
  BY DEF Emit, historyVars
<1>3. buffer \in [Tab -> SUBSET Recorded]
  BY DEF TypeInv, BuffersTyped
<1>4. CASE /\ buffer' = [buffer EXCEPT ![t] = @ \union {i}]
           /\ UNCHANGED <<index, counter, cut, callVars>>
  <2> HIDE DEF i
  <2>1. Buffered' = Buffered \union {i}
    BY <1>3, <1>4 DEF Buffered
  <2>2. OnTheWay' = OnTheWay /\ Sent' = Sent
    BY <1>4 DEF Emit, callVars, serverVars, OnTheWay, Sent, Adding, Stored
  <2>3. TakesIn(i)
    BY <1>1, <1>2, <2>1, <2>2 DEF TakesIn
  <2> QED
    BY <2>3 DEF KeepsPromise
<1>5. ASSUME NEW c \in Call, NEW x, NewChunk(<<t, c>>, x),
             x.events = buffer[t] \union {i},
             buffer' = [buffer EXCEPT ![t] = {}]
      PROVE  KeepsPromise
  <2> HIDE DEF i
  <2>1. OnTheWay' = OnTheWay \union x.events /\ Sent' = Sent
    BY <1>5, PlaceOf, ChunkOnTheWay
  <2>2. Buffered' \union x.events = Buffered \union {i}
    BY <1>3, <1>5 DEF Buffered
  <2>3. TakesIn(i)
    BY <1>1, <1>2, <2>1, <2>2 DEF TakesIn
  <2> QED
    BY <2>3 DEF KeepsPromise
<1> QED
  BY <1>4, <1>5, EmitApart DEF SupplyInv

LEMMA CheckoutDelivers ==
  ASSUME TypeInv, SupplyInv, NEW t \in Tab, NEW c \in Call, NEW e \in Event,
         EmitCheckout(t, c, e)
  PROVE  KeepsPromise
<1> DEFINE i == <<e, session[t]>>
<1>1. i \in Recorded /\ i \notin Buffered \union OnTheWay \union Sent \union missed
  BY NewEvent DEF EmitCheckout
<1>2. missed' = missed
  BY DEF EmitCheckout, historyVars
<1>3. PICK x : NewChunk(<<t, c>>, x) /\ x.events = buffer[t]
  BY CheckoutApart DEF SupplyInv
<1>4. buffer' = [buffer EXCEPT ![t] = {i}]
  BY DEF EmitCheckout
<1> HIDE DEF i
<1>5. OnTheWay' = OnTheWay \union x.events /\ Sent' = Sent
  BY <1>3, PlaceOf, ChunkOnTheWay
<1>6. Buffered' \union x.events = Buffered \union {i}
  <2>1. buffer \in [Tab -> SUBSET Recorded]
    BY DEF TypeInv, BuffersTyped
  <2> QED
    BY <1>3, <1>4, <2>1 DEF Buffered
<1>7. TakesIn(i)
  BY <1>1, <1>2, <1>5, <1>6 DEF TakesIn
<1> QED
  BY <1>7 DEF KeepsPromise

(* A flush moves the events of its buffer into a chunk.                    *)
LEMMA FlushDelivers ==
  ASSUME TypeInv, SupplyInv, NEW r \in Running, NEW rest, Flushing(r, rest),
         pc[r] \in {"idle", "next"}
  PROVE  KeepsPromise
<1>1. missed' = missed
  BY DEF Flushing
<1>2. r[1] \in Tab
  BY PageOf
<1>3. CASE \E x : NewChunk(r, x) /\ x.events = buffer[r[1]]
  <2>1. PICK x : NewChunk(r, x) /\ x.events = buffer[r[1]]
    BY <1>3
  <2>2. OnTheWay' = OnTheWay \union x.events /\ Sent' = Sent
    BY <2>1, ChunkOnTheWay
  <2>3. /\ \A u \in Tab : u # r[1] => buffer'[u] = buffer[u]
        /\ buffer'[r[1]] = {}
    BY FlushBufferEffect DEF Flushing
  <2>4. Buffered' \union x.events = Buffered
    BY <1>2, <2>1, <2>3 DEF Buffered
  <2> QED
    BY <1>1, <2>2, <2>4, StaysPut
<1>4. CASE UNCHANGED <<bufferVars, adding, rows>>
  <2>1. OnTheWay' = OnTheWay /\ Sent' = Sent /\ Buffered' = Buffered
    BY <1>4 DEF Flushing, bufferVars, serverVars, OnTheWay, Sent, Adding,
                Stored, Buffered
  <2> QED
    BY <1>1, <2>1, StaysPut
<1> QED
  BY <1>3, <1>4, FlushApart DEF SupplyInv

(* A drain sends chunks that wait, and deletes only what was received.     *)
LEMMA DrainDelivers ==
  ASSUME TypeInv, SupplyInv, NEW r \in Running, DrainWork(r)
  PROVE  KeepsPromise
<1> DEFINE O == Values(Oldest(r))
<1>1. Buffered' = Buffered /\ missed' = missed
  BY DEF DrainWork, ResumeDrain, AddDone, ReadDone, PostOk, PostRejected,
         PostFailed, Deleted, bufferVars, historyVars, Buffered
<1>2. O \subseteq Stored \union received
  BY OldestType DEF SupplyInv, PlacesInv
<1>3. EventsOf(O) \subseteq OnTheWay \union Sent
  <2>1. O \subseteq (Adding \union Stored) \union received
    BY <1>2
  <2> HIDE DEF O
  <2>2. EventsOf(O) \subseteq EventsOf((Adding \union Stored) \union received)
    BY <2>1, EventsOfSubset
  <2>3. EventsOf((Adding \union Stored) \union received) = OnTheWay \union Sent
    BY EventsOfUnion DEF OnTheWay, Sent
  <2> QED
    BY <2>2, <2>3
<1> HIDE DEF O
<1>4. ASSUME Adding' \union Stored' = Adding \union Stored,
             received' = received
      PROVE  KeepsPromise
  <2>1. OnTheWay' = OnTheWay /\ Sent' = Sent
    BY <1>4 DEF OnTheWay, Sent, EventsOf
  <2> QED
    BY <1>1, <2>1, StaysPut
<1>5. ASSUME adding' = adding, store' = store, received' = received \union O
      PROVE  KeepsPromise
  <2>1. OnTheWay' = OnTheWay
    BY <1>5 DEF OnTheWay, Adding, Stored
  <2>2. Sent' = Sent \union EventsOf(O)
    <3>1. EventsOf(received') = EventsOf(received) \union EventsOf(O)
      BY <1>5, EventsOfUnion
    <3> QED
      BY <3>1 DEF Sent, EventsOf
  <2>3. Moves({})
    BY <1>1, <1>3, <2>1, <2>2 DEF Moves
  <2> QED
    BY <2>3 DEF KeepsPromise
<1>6. CASE ResumeDrain(r) \/ ReadDone(r) \/ PostRejected(r)
  <2>1. adding' = adding /\ store' = store /\ received' = received
    BY <1>6 DEF ResumeDrain, ReadDone, PostRejected, serverVars
  <2> QED
    BY <1>4, <2>1 DEF Adding, Stored
<1>7. CASE PostOk(r) \/ PostFailed(r)
  <2>1. /\ adding' = adding /\ store' = store
        /\ received' = received \/ received' = received \union O
    BY <1>7 DEF PostOk, PostFailed, Receive, serverVars, O
  <2>2. CASE received' = received
    BY <1>4, <2>1, <2>2 DEF Adding, Stored
  <2>3. CASE received' = received \union O
    BY <1>5, <2>1, <2>3
  <2> QED
    BY <2>1, <2>2, <2>3
<1>8. CASE AddDone(r)
  <2>1. PICK x \in adding[r] : store' = Add(store, x)
    BY <1>8 DEF AddDone
  <2>2. x \in Chunk
    BY DEF TypeInv, CallsTyped
  <2>3. Stored' = Stored \union {x}
    BY <2>1, <2>2, AddEffect
  <2>4. adding[r] = {x}
    BY DEF SupplyInv, PlacesInv
  <2>5. /\ \A q \in Running : q # r => adding'[q] = adding[q]
        /\ adding'[r] = {}
        /\ received' = received
    BY <1>8 DEF AddDone, serverVars, TypeInv, CallsTyped
  <2>6. Adding' \union Stored' = Adding \union Stored
    BY <2>3, <2>4, <2>5 DEF Adding
  <2> QED
    BY <1>4, <2>5, <2>6
<1>9. CASE Deleted(r)
  <2>1. /\ pc[r] = "delete" /\ Adding' = Adding /\ Sent' = Sent
    BY <1>9 DEF Deleted, serverVars, Adding, Sent
  <2>2. Stored' = Stored \ O
    BY <1>9, DeleteEffect DEF Deleted, SupplyInv, O
  <2>3. O \subseteq received
    BY <2>1 DEF SupplyInv, DrainInv, O
  <2>4. EventsOf(O) \subseteq Sent
    BY <2>3, EventsOfSubset DEF Sent
  <2>5. OnTheWay' \subseteq OnTheWay
    BY <2>1, <2>2 DEF OnTheWay, EventsOf
  <2>6. OnTheWay \subseteq OnTheWay' \union Sent
    BY <2>1, <2>2, <2>4 DEF OnTheWay, EventsOf
  <2>7. Moves({})
    BY <1>1, <2>1, <2>5, <2>6 DEF Moves
  <2> QED
    BY <2>7 DEF KeepsPromise
<1> QED
  BY <1>6, <1>7, <1>8, <1>9 DEF DrainWork

(* A page gives up what it had not stored, and nothing else.               *)
LEMMA NavigateDelivers ==
  ASSUME TypeInv, SupplyInv, NEW t \in Tab, Navigate(t)
  PROVE  KeepsPromise
<1> DEFINE calls == {r \in Running : r[1] = t}
           gone == UNION {adding[r] : r \in calls}
           dropped == buffer[t] \union EventsOf(gone)
<1>1. missed' = missed \union dropped
  BY DEF Navigate
<1>2. /\ \A u \in Tab : u # t => buffer'[u] = buffer[u]
      /\ buffer'[t] = {}
      /\ \A r \in Running : r[1] = t => adding'[r] = {}
      /\ \A r \in Running : r[1] # t => adding'[r] = adding[r]
      /\ Stored' = Stored
      /\ received' = received
  BY NavigateEffect DEF TypeInv, BuffersTyped, Stored
<1>3. Adding = Adding' \union gone /\ gone \intersect Adding' = {}
  <2>1. Adding = Adding' \union gone
    BY <1>2 DEF Adding
  <2>2. \A r, q \in Running : r[1] = t /\ q[1] # t =>
          adding[r] \intersect adding[q] = {}
    BY DEF SupplyInv, PlacesInv
  <2>3. gone \intersect Adding' = {}
    BY <1>2, <2>2 DEF Adding
  <2> QED
    BY <2>1, <2>3
<1>4. /\ gone \subseteq cut
      /\ Adding' \union Stored \union received \subseteq cut
      /\ gone \intersect (Adding' \union Stored \union received) = {}
  <2>1. gone \subseteq Adding
    BY <1>3
  <2>2. Adding \intersect (Stored \union received) = {}
    BY DEF SupplyInv, PlacesInv, Adding
  <2>3. Adding \subseteq cut /\ Stored \subseteq cut /\ received \subseteq cut
    BY DEF SupplyInv, PlacesInv, Adding
  <2> QED
    BY <1>3, <2>1, <2>2, <2>3
<1> HIDE DEF calls, gone
<1>5. EventsOf(gone) \intersect EventsOf(Adding' \union Stored \union received) = {}
  <2>1. \A x \in gone : \A y \in Adding' \union Stored \union received :
          x.events \intersect y.events = {}
    BY <1>4 DEF SupplyInv, EventsApart
  <2> QED
    BY <2>1 DEF EventsOf
<1>6. /\ \A x \in cut : buffer[t] \intersect x.events = {}
      /\ \A u \in Tab : u # t => buffer[t] \intersect buffer[u] = {}
      /\ \A u \in Tab : \A x \in cut : buffer[u] \intersect x.events = {}
  BY DEF SupplyInv, EventsApart
<1>7. Buffered = Buffered' \union buffer[t] /\ Buffered' \intersect buffer[t] = {}
  <2>1. Buffered = Buffered' \union buffer[t]
    BY <1>2 DEF Buffered
  <2>2. Buffered' \intersect buffer[t] = {}
    BY <1>2, <1>6 DEF Buffered
  <2> QED
    BY <2>1, <2>2
<1>8. Buffered \intersect EventsOf(cut) = {}
  BY <1>6 DEF Buffered, EventsOf
<1>9. /\ OnTheWay' = EventsOf(Adding' \union Stored)
      /\ Sent' = Sent /\ Sent = EventsOf(received)
      /\ OnTheWay = OnTheWay' \union EventsOf(gone)
  <2>1. OnTheWay' = EventsOf(Adding' \union Stored) /\ Sent' = Sent
    BY <1>2 DEF OnTheWay, Sent, EventsOf
  <2>2. EventsOf(Adding \union Stored)
          = EventsOf(Adding' \union Stored) \union EventsOf(gone)
    <3>1. Adding \union Stored = (Adding' \union Stored) \union gone
      BY <1>3
    <3> QED
      BY <3>1, EventsOfUnion
  <2> QED
    BY <2>1, <2>2 DEF OnTheWay, Sent
<1>10. /\ EventsOf(gone) \subseteq EventsOf(cut)
       /\ OnTheWay' \subseteq EventsOf(cut)
       /\ Sent \subseteq EventsOf(cut)
  BY <1>4, <1>9, EventsOfSubset
<1>11. /\ EventsOf(gone) \intersect OnTheWay' = {}
       /\ EventsOf(gone) \intersect Sent = {}
  BY <1>5, <1>9 DEF EventsOf
<1>12. Moves(dropped)
  <2>1. dropped \subseteq Buffered \union OnTheWay
    BY <1>7, <1>9
  <2>2. dropped \intersect Sent' = {}
    BY <1>7, <1>8, <1>9, <1>10, <1>11
  <2>3. Buffered' \union OnTheWay' = (Buffered \union OnTheWay) \ dropped
    BY <1>7, <1>8, <1>9, <1>10, <1>11
  <2> HIDE DEF dropped
  <2> QED
    BY <1>1, <1>9, <2>1, <2>2, <2>3 DEF Moves
<1> QED
  BY <1>12 DEF KeepsPromise

LEMMA StepDelivers ==
  ASSUME TypeInv, SupplyInv, [Next]_vars
  PROVE  KeepsPromise
<1>0. ASSUME UNCHANGED <<buffer, adding, store, received, missed>>
      PROVE  KeepsPromise
  <2>1. Buffered' = Buffered /\ OnTheWay' = OnTheWay /\ Sent' = Sent
    BY <1>0 DEF Buffered, OnTheWay, Sent, Adding, Stored
  <2> QED
    BY <1>0, <2>1, StaysPut
<1>1. CASE UNCHANGED vars
  BY <1>0, <1>1 DEF vars, bufferVars, callVars, serverVars, historyVars
<1>2. ASSUME NEW t \in Tab, Show(t) PROVE KeepsPromise
  BY <1>0, <1>2 DEF Show, bufferVars, callVars, serverVars
<1>3. ASSUME NEW t \in Tab, NEW c \in Call, Start(t, c) PROVE KeepsPromise
  <2>1. CASE \E e \in Event : EmitCheckout(t, c, e)
    BY <2>1, CheckoutDelivers
  <2>2. CASE /\ pc[<<t, c>>] = "idle"
             /\ \E rest \in Seq(Step) : Flushing(<<t, c>>, rest)
    BY <2>2, PlaceOf, FlushDelivers
  <2> QED
    BY <1>3, <2>1, <2>2, StartKinds
<1>4. ASSUME NEW r \in Running, CallStep(r) PROVE KeepsPromise
  <2>1. CASE ResumeAdopt(r)
    BY <1>0, <2>1 DEF ResumeAdopt, serverVars
  <2>2. CASE DrainWork(r)
    BY <2>2, DrainDelivers
  <2>3. CASE ResumeFlush(r) \/ ResumeReset(r)
    <3>1. CASE /\ pc[r] = "next"
               /\ \E rest \in Seq(Step) : Flushing(r, rest)
      BY <3>1, FlushDelivers
    <3>2. \E rest \in Seq(Step) : Flushing(r, rest) /\ pc[r] = "next"
      BY <2>3, ResumeFlushes
    <3> QED
      BY <3>1, <3>2
  <2> QED
    BY <1>4, <2>1, <2>2, <2>3 DEF CallStep, DrainWork
<1> QED
  BY <1>1, <1>2, <1>3, <1>4, EmitDelivers, NavigateDelivers DEF Next

(* The recorder implements at-least-once delivery of its events            *)
(* (flushBufferedChunk and drainPersistedChunks, index.ts:590 and :729):   *)
(* an event waits, in a buffer, on its way into the store or in the store, *)
(* until the server has it or its page dies before it was stored; what a   *)
(* page gave up was never sent, and nothing is sent that was not recorded. *)
THEOREM ReplayDelivers == Spec => ImplementsAtLeastOnce
<1>1. Init => Delivery!Init
  <2> SUFFICES ASSUME Init PROVE Delivery!Init
    OBVIOUS
  <2>1. /\ Stored = {}
        /\ Adding = {}
        /\ Buffered = {}
        /\ EventsOf({}) = {}
    BY DEF Init, Stored, Adding, Buffered, EventsOf, Values, EmptyStore
  <2>2. Waiting = {} /\ EventsOf(received) = {} /\ missed = {}
    BY <2>1 DEF Init, Waiting
  <2> QED
    BY <2>2 DEF Delivery!Init
<1>2. TypeInv /\ SupplyInv /\ [Next]_vars => [Delivery!Next]_(Delivery!vars)
  BY StepDelivers, TakesInAccepts, MovesResolves DEF KeepsPromise
<1> QED
  BY <1>1, <1>2, AlwaysSupplied, PTL
     DEF Spec, ImplementsAtLeastOnce, Delivery!Spec
=============================================================================
