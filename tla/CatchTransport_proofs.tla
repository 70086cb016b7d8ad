------------------------ MODULE CatchTransport_proofs ------------------------
(***************************************************************************)
(* What holds of the Catch transport for every number of pages, POSTs and  *)
(* events, every batch size and every cap: its state is well typed and it  *)
(* stays within its cap, it implements at-least-once delivery, every second*)
(* copy is explained, and one page alone loses no event silently.          *)
(***************************************************************************)
EXTENDS CatchTransport, TLAPS

LEMMA ItemsFacts ==
  /\ Items(<<>>) = {}
  /\ \A s \in Seq(Event) : Items(s) \subseteq Event
  /\ \A s, t \in Seq(Event) : Items(s \o t) = Items(s) \union Items(t)
  /\ \A s \in Seq(Event), e \in Event : Items(Append(s, e)) = Items(s) \union {e}
<1>1. Items(<<>>) = {}
  BY DEF Items
<1>2. \A s \in Seq(Event) : Items(s) \subseteq Event
  BY DEF Items
<1>3. ASSUME NEW s \in Seq(Event), NEW t \in Seq(Event)
      PROVE  Items(s \o t) = Items(s) \union Items(t)
  <2>1. Items(s \o t) \subseteq Items(s) \union Items(t)
    <3>1. SUFFICES ASSUME NEW i \in 1 .. Len(s \o t)
                   PROVE  (s \o t)[i] \in Items(s) \union Items(t)
      BY DEF Items
    <3>2. CASE i <= Len(s)
      BY <3>2 DEF Items
    <3>3. CASE i > Len(s)
      <4>1. (s \o t)[i] = t[i - Len(s)] /\ i - Len(s) \in 1 .. Len(t)
        BY <3>3
      <4> QED BY <4>1 DEF Items
    <3> QED BY <3>2, <3>3
  <2>2. Items(s) \subseteq Items(s \o t)
    <3>1. \A i \in 1 .. Len(s) : i \in 1 .. Len(s \o t) /\ (s \o t)[i] = s[i]
      OBVIOUS
    <3> QED BY <3>1 DEF Items
  <2>3. Items(t) \subseteq Items(s \o t)
    <3>1. \A i \in 1 .. Len(t) :
            i + Len(s) \in 1 .. Len(s \o t) /\ (s \o t)[i + Len(s)] = t[i]
      OBVIOUS
    <3> QED BY <3>1 DEF Items
  <2> QED BY <2>1, <2>2, <2>3
<1>4. ASSUME NEW s \in Seq(Event), NEW e \in Event
      PROVE  Items(Append(s, e)) = Items(s) \union {e}
  <2>1. /\ Len(Append(s, e)) = Len(s) + 1
        /\ Append(s, e)[Len(s) + 1] = e
        /\ \A i \in 1 .. Len(s) : Append(s, e)[i] = s[i]
    OBVIOUS
  <2>2. 1 .. Len(Append(s, e)) = (1 .. Len(s)) \union {Len(s) + 1}
    BY <2>1
  <2> QED BY <2>1, <2>2 DEF Items
<1> QED BY <1>1, <1>2, <1>3, <1>4

(* What persist() keeps, and what it lets go of.                           *)
LEMMA TrimFacts ==
  ASSUME NEW b \in Seq(Event)
  PROVE  /\ Trim(b) \in Seq(Event)
         /\ Items(Trim(b)) \subseteq Items(b)
         /\ Items(SubSeq(b, 1, Excess(b))) \subseteq Items(b)
         /\ HasStorage => Len(Trim(b)) <= MaxStored \/ Len(Trim(b)) <= 1
         /\ b # <<>> => b[Len(b)] \in Items(Trim(b))
<1>1. /\ Excess(b) \in Nat
      /\ Excess(b) <= Len(b)
      /\ Len(b) # 0 => Excess(b) < Len(b)
      /\ HasStorage => Len(b) - Excess(b) <= MaxStored \/ Len(b) - Excess(b) <= 1
  BY MaxStoredAssumption DEF Excess
<1>2. /\ Trim(b) \in Seq(Event)
      /\ Len(Trim(b)) = Len(b) - Excess(b)
      /\ \A i \in 1 .. Len(Trim(b)) : Trim(b)[i] = b[i + Excess(b)]
  BY <1>1 DEF Trim
<1>3. Items(Trim(b)) \subseteq Items(b)
  <2>1. \A i \in 1 .. Len(Trim(b)) : i + Excess(b) \in 1 .. Len(b)
    BY <1>1, <1>2
  <2> QED BY <2>1, <1>2 DEF Items
<1>4. Items(SubSeq(b, 1, Excess(b))) \subseteq Items(b)
  <2>1. /\ Len(SubSeq(b, 1, Excess(b))) = Excess(b)
        /\ \A i \in 1 .. Excess(b) : /\ SubSeq(b, 1, Excess(b))[i] = b[i]
                                     /\ i \in 1 .. Len(b)
    BY <1>1
  <2> QED BY <2>1 DEF Items
<1>5. ASSUME b # <<>> PROVE b[Len(b)] \in Items(Trim(b))
  <2>1. Len(b) - Excess(b) \in 1 .. Len(Trim(b))
    BY <1>1, <1>2, <1>5
  <2>2. Trim(b)[Len(b) - Excess(b)] = b[Len(b)]
    BY <2>1, <1>1, <1>2
  <2> QED BY <2>1, <2>2 DEF Items
<1> QED BY <1>1, <1>2, <1>3, <1>4, <1>5

-----------------------------------------------------------------------------
(***************************************************************************)
(* The two writes all the actions are made of, and what they do to the     *)
(* types and to the cap.                                                   *)
(***************************************************************************)
Fits(b) == Len(b) <= MaxStored \/ Len(b) <= 1

Inv == TypeOK /\ Bounded

LEMMA SaveFacts ==
  ASSUME NEW old \in Seq(Event), NEW b \in Seq(Event), NEW new \in Save(old, b)
  PROVE  /\ new \in Seq(Event)
         /\ Items(new) \subseteq Items(old) \union Items(b)
         /\ Fits(old) => Fits(new)
<1>1. (HasStorage /\ new = Trim(b)) \/ new = old
  BY SaveOutcomeAssumption DEF Save, HasStorage
<1> QED BY <1>1, TrimFacts DEF Fits

LEMMA PersistFacts ==
  ASSUME Inv, NEW p \in Page, NEW old \in Seq(Event), NEW b \in Seq(Event),
         Fits(old), Persist(p, old, b)
  PROVE  /\ slot' \in Seq(Event)
         /\ buffer' \in [Page -> Seq(Event)]
         /\ capped' \subseteq Event
         /\ Bounded'
         /\ buffer'[p] = Trim(b)
         /\ \A q \in Page \ {p} : buffer'[q] = buffer[q]
         /\ Items(slot') \subseteq Items(old) \union Items(b)
<1>1. /\ slot' \in Seq(Event) /\ Fits(slot')
      /\ Items(slot') \subseteq Items(old) \union Items(b)
  BY SaveFacts DEF Persist
<1>2. buffer' = [buffer EXCEPT ![p] = Trim(b)]
  BY DEF Persist
<1>3. Trim(b) \in Seq(Event) /\ (HasStorage => Fits(Trim(b)))
  BY TrimFacts DEF Fits
<1>4. /\ buffer' \in [Page -> Seq(Event)]
      /\ buffer'[p] = Trim(b)
      /\ \A q \in Page \ {p} : buffer'[q] = buffer[q]
  BY <1>2, <1>3 DEF Inv, TypeOK
<1>5. HasStorage => \A q \in Page : Fits(buffer'[q])
  BY <1>3, <1>4 DEF Inv, Bounded, Fits
<1>6. capped' \subseteq Event
  <2>1. Items(b) \subseteq Event
    BY ItemsFacts
  <2> QED BY <2>1, TrimFacts DEF Persist, Inv, TypeOK
<1> QED BY <1>1, <1>4, <1>5, <1>6 DEF Bounded, Fits

LEMMA EmptyFits == <<>> \in Seq(Event) /\ Fits(<<>>)
BY DEF Fits

LEMMA StartPostType ==
  ASSUME TypeOK, NEW p \in Page, NEW c \in Call, NEW batch \in Seq(Event),
         StartPost(p, c, batch)
  PROVE  /\ post' \in [Post -> Seq(Event)]
         /\ post'[<<p, c>>] = batch
         /\ \A l \in Post \ {<<p, c>>} : post'[l] = post[l]
BY DEF TypeOK, StartPost, Post

LEMMA ReceiveType ==
  ASSUME TypeOK, NEW events \in SUBSET Event, Receive(events)
  PROVE  received' \subseteq Event /\ dup' \subseteq Event
BY DEF TypeOK, Receive

LEMMA InitInv == Init => Inv
<1> SUFFICES ASSUME Init PROVE Inv
  OBVIOUS
<1>1. <<>> \in Seq(Event) /\ Len(<<>>) <= 1
  OBVIOUS
<1>2. TypeOK
  BY <1>1, MaxClosuresAssumption DEF Init, TypeOK
<1>3. Bounded
  BY <1>1 DEF Init, Bounded
<1> QED BY <1>2, <1>3 DEF Inv

LEMMA PushInv ==
  ASSUME Inv, NEW p \in Page, NEW e \in Event, Push(p, e)
  PROVE  Inv'
<1> DEFINE b == Append(buffer[p], e)
<1>1. b \in Seq(Event) /\ Trim(b) \in Seq(Event)
  <2>1. b \in Seq(Event)
    BY DEF Inv, TypeOK
  <2> QED BY <2>1, TrimFacts
<1> HIDE DEF b
<1>2. pushed' \in Seq(Event)
  BY DEF Push, Inv, TypeOK
<1>3. CASE Len(Trim(b)) < BatchSize /\ Persist(p, slot, b) /\ UNCHANGED post
  <2>1. /\ slot' \in Seq(Event) /\ buffer' \in [Page -> Seq(Event)]
        /\ capped' \subseteq Event /\ Bounded'
    BY <1>1, <1>3, PersistFacts DEF Inv, TypeOK, Bounded, Fits
  <2> QED BY <2>1, <1>2, <1>3
          DEF Push, Inv, TypeOK, pageVars, netVars
<1>4. CASE /\ Len(Trim(b)) >= BatchSize
           /\ \E c \in Call : StartPost(p, c, Trim(b))
           /\ buffer' = [buffer EXCEPT ![p] = <<>>]
           /\ capped' = capped \union Items(SubSeq(b, 1, Excess(b)))
           /\ \E first \in Save(slot, b) : slot' \in Save(first, <<>>)
  <2>1. post' \in [Post -> Seq(Event)]
    BY <1>1, <1>4, StartPostType DEF Inv
  <2>2. slot' \in Seq(Event) /\ Fits(slot')
    <3>1. PICK first \in Save(slot, b) : slot' \in Save(first, <<>>)
      BY <1>4
    <3>2. first \in Seq(Event) /\ Fits(first)
      BY <1>1, SaveFacts DEF Inv, TypeOK, Bounded, Fits
    <3> QED BY <3>1, <3>2, SaveFacts, EmptyFits
  <2>3. capped' \subseteq Event
    <3>1. Items(b) \subseteq Event
      BY <1>1, ItemsFacts
    <3>2. Items(SubSeq(b, 1, Excess(b))) \subseteq Items(b)
      BY <1>1, TrimFacts
    <3> QED BY <1>4, <3>1, <3>2 DEF Inv, TypeOK
  <2>4. /\ buffer' \in [Page -> Seq(Event)]
        /\ \A q \in Page : buffer'[q] = buffer[q] \/ buffer'[q] = <<>>
    BY <1>4, EmptyFits DEF Inv, TypeOK
  <2>5. Bounded'
    BY <2>2, <2>4 DEF Inv, Bounded, Fits
  <2> QED BY <2>1, <2>2, <2>3, <2>4, <2>5, <1>2
          DEF Push, Inv, TypeOK, pageVars, netVars
<1> QED BY <1>3, <1>4 DEF Push, b


LEMMA FlushInv ==
  ASSUME Inv, NEW p \in Page, Flush(p)
  PROVE  Inv'
<1>1. buffer[p] \in Seq(Event) /\ slot \in Seq(Event) /\ Fits(slot)
  BY DEF Inv, TypeOK, Bounded, Fits
<1>2. post' \in [Post -> Seq(Event)]
  BY <1>1, StartPostType DEF Flush, Inv
<1>3. /\ slot' \in Seq(Event) /\ buffer' \in [Page -> Seq(Event)]
      /\ capped' \subseteq Event /\ Bounded'
  BY <1>1, PersistFacts, EmptyFits DEF Flush
<1> QED BY <1>2, <1>3 DEF Flush, Inv, TypeOK, pageVars, netVars

(* The variables that Unload and Shutdown change on top of a beacon.       *)
LEMMA BeaconInv ==
  ASSUME Inv, NEW p \in Page, Beacon(p), installed' \in [Page -> BOOLEAN]
  PROVE  Inv'
<1>1. buffer[p] \in Seq(Event) /\ slot \in Seq(Event) /\ Fits(slot)
      /\ Items(buffer[p]) \subseteq Event
  BY ItemsFacts DEF Inv, TypeOK, Bounded, Fits
<1>2. /\ slot' \in Seq(Event) /\ buffer' \in [Page -> Seq(Event)]
      /\ capped' \subseteq Event /\ Bounded'
  <2>1. CASE Persist(p, slot, <<>>)
    BY <2>1, <1>1, PersistFacts, EmptyFits
  <2>2. CASE \E first \in Save(slot, <<>>) : Persist(p, first, buffer[p])
    <3>1. PICK first \in Save(slot, <<>>) : Persist(p, first, buffer[p])
      BY <2>2
    <3>2. first \in Seq(Event) /\ Fits(first)
      BY <1>1, SaveFacts, EmptyFits
    <3> QED BY <3>1, <3>2, <1>1, PersistFacts
  <2> QED BY <2>1, <2>2 DEF Beacon
<1>3. received' \subseteq Event /\ dup' \subseteq Event
      /\ interrupted' \subseteq Event
  <2>1. CASE Receive(Items(buffer[p])) /\ UNCHANGED interrupted
    BY <2>1, <1>1, ReceiveType DEF Inv, TypeOK
  <2>2. CASE UNCHANGED netVars
             /\ interrupted' \subseteq interrupted \union Items(buffer[p])
    BY <2>2, <1>1 DEF Inv, TypeOK, netVars
  <2> QED BY <2>1, <2>2 DEF Beacon
<1> QED BY <1>2, <1>3 DEF Beacon, Inv, TypeOK

LEMMA ShutdownInv ==
  ASSUME Inv, NEW p \in Page, Shutdown(p)
  PROVE  Inv'
<1>1. installed' \in [Page -> BOOLEAN]
  BY DEF Shutdown, Inv, TypeOK
<1>2. CASE Beacon(p)
  BY <1>1, <1>2, BeaconInv
<1>3. CASE /\ \E c \in Call : StartPost(p, c, buffer[p])
           /\ Persist(p, slot, <<>>)
           /\ UNCHANGED <<alive, closures, netVars, pushed, rejected,
                          interrupted, suspect>>
  <2>1. buffer[p] \in Seq(Event) /\ slot \in Seq(Event) /\ Fits(slot)
    BY DEF Inv, TypeOK, Bounded, Fits
  <2>2. post' \in [Post -> Seq(Event)]
    BY <2>1, <1>3, StartPostType DEF Inv
  <2>3. /\ slot' \in Seq(Event) /\ buffer' \in [Page -> Seq(Event)]
        /\ capped' \subseteq Event /\ Bounded'
    BY <2>1, <1>3, PersistFacts, EmptyFits
  <2> QED BY <2>2, <2>3, <1>1, <1>3 DEF Inv, TypeOK, netVars
<1>4. CASE UNCHANGED <<slot, buffer, post, alive, closures, netVars, pushed,
                       fateVars>>
  BY <1>1, <1>4 DEF Inv, TypeOK, Bounded, netVars, fateVars
<1> QED BY <1>2, <1>3, <1>4 DEF Shutdown

LEMMA FetchEndsInv ==
  ASSUME Inv, NEW p \in Page, NEW c \in Call, FetchEnds(p, c)
  PROVE  Inv'
<1>1. /\ buffer[p] \in Seq(Event) /\ slot \in Seq(Event) /\ Fits(slot)
      /\ post[<<p, c>>] \in Seq(Event)
      /\ Items(post[<<p, c>>]) \subseteq Event
  BY ItemsFacts DEF Inv, TypeOK, Bounded, Fits, Post
<1>2. EndPost(p, c) => post' \in [Post -> Seq(Event)]
  BY EmptyFits DEF EndPost, Inv, TypeOK, Post
<1>3. CASE FetchOk(p, c)
  <2>1. received' \subseteq Event /\ dup' \subseteq Event
    BY <1>1, <1>3, ReceiveType DEF FetchOk, Inv
  <2> QED BY <2>1, <1>2, <1>3
          DEF FetchOk, Inv, TypeOK, Bounded, pageVars, fateVars
<1>4. CASE FetchRejected(p, c)
  BY <1>1, <1>2, <1>4
     DEF FetchRejected, Inv, TypeOK, Bounded, pageVars, netVars
<1>5. CASE FetchFailed(p, c)
  <2>1. post[<<p, c>>] \o buffer[p] \in Seq(Event)
    BY <1>1
  <2>2. /\ slot' \in Seq(Event) /\ buffer' \in [Page -> Seq(Event)]
        /\ capped' \subseteq Event /\ Bounded'
    BY <2>1, <1>1, <1>5, PersistFacts DEF FetchFailed
  <2>3. /\ received' \subseteq Event /\ dup' \subseteq Event
        /\ suspect' \subseteq Event
    <3>1. CASE /\ Receive(Items(post[<<p, c>>]))
               /\ suspect' = suspect \union Items(post[<<p, c>>])
      BY <3>1, <1>1, ReceiveType DEF Inv, TypeOK
    <3>2. CASE UNCHANGED <<netVars, suspect>>
      BY <3>2 DEF Inv, TypeOK, netVars
    <3> QED BY <3>1, <3>2, <1>5 DEF FetchFailed
  <2> QED BY <2>2, <2>3, <1>2, <1>5 DEF FetchFailed, Inv, TypeOK, pageVars
<1> QED BY <1>3, <1>4, <1>5 DEF FetchEnds

LEMMA ClosePageInv ==
  ASSUME Inv, NEW p \in Page, ClosePage(p)
  PROVE  Inv'
<1>1. \A c \in Call : Items(post[<<p, c>>]) \subseteq Event
  BY ItemsFacts DEF Inv, TypeOK, Post
<1>2. received' \subseteq Event /\ dup' \subseteq Event
  <2>1. PICK landed \in SUBSET {c \in Call : post[<<p, c>>] # <<>>} :
               Receive(UNION {Items(post[<<p, c>>]) : c \in landed})
    BY DEF ClosePage
  <2>2. UNION {Items(post[<<p, c>>]) : c \in landed} \in SUBSET Event
    BY <1>1
  <2> HIDE DEF Items
  <2> QED BY <2>1, <2>2, ReceiveType DEF Inv
<1>3. interrupted' \subseteq Event
  BY <1>1 DEF ClosePage, Inv, TypeOK
<1>4. /\ buffer' \in [Page -> Seq(Event)]
      /\ \A q \in Page : buffer'[q] = buffer[q] \/ buffer'[q] = <<>>
      /\ post' \in [Post -> Seq(Event)]
  BY EmptyFits DEF ClosePage, Inv, TypeOK
<1>5. Bounded'
  BY <1>4 DEF ClosePage, Inv, Bounded
<1>6. /\ closures' \in 0 .. MaxClosures
      /\ alive' \in [Page -> BOOLEAN] /\ installed' \in [Page -> BOOLEAN]
  BY MaxClosuresAssumption DEF ClosePage, Inv, TypeOK
<1> QED BY <1>2, <1>3, <1>4, <1>5, <1>6 DEF ClosePage, Inv, TypeOK

LEMMA OpenPageInv ==
  ASSUME Inv, NEW p \in Page, OpenPage(p)
  PROVE  Inv'
<1>1. /\ buffer' \in [Page -> Seq(Event)]
      /\ \A q \in Page : buffer'[q] = buffer[q] \/ buffer'[q] = slot
      /\ alive' \in [Page -> BOOLEAN] /\ installed' \in [Page -> BOOLEAN]
  BY DEF OpenPage, Inv, TypeOK
<1>2. Bounded'
  BY <1>1 DEF OpenPage, Inv, Bounded
<1> QED BY <1>1, <1>2 DEF OpenPage, Inv, TypeOK, netVars, fateVars

LEMMA NextInv == Inv /\ [Next]_vars => Inv'
<1> SUFFICES ASSUME Inv, [Next]_vars PROVE Inv'
  OBVIOUS
<1>1. CASE UNCHANGED vars
  BY <1>1 DEF vars, pageVars, netVars, fateVars, Inv, TypeOK, Bounded
<1>2. ASSUME NEW p \in Page, NEW e \in Event, Push(p, e) PROVE Inv'
  BY <1>2, PushInv
<1>3. ASSUME NEW p \in Page, Flush(p) PROVE Inv'
  BY <1>3, FlushInv
<1>4. ASSUME NEW p \in Page, Unload(p) PROVE Inv'
  <2>1. CASE Beacon(p) /\ UNCHANGED installed
    <3>1. installed' \in [Page -> BOOLEAN]
      BY <2>1 DEF Inv, TypeOK
    <3> QED BY <2>1, <3>1, BeaconInv
  <2>2. CASE Flush(p)
    BY <2>2, FlushInv
  <2> QED BY <1>4, <2>1, <2>2 DEF Unload
<1>5. ASSUME NEW p \in Page, Shutdown(p) PROVE Inv'
  BY <1>5, ShutdownInv
<1>6. ASSUME NEW p \in Page, NEW c \in Call, FetchEnds(p, c) PROVE Inv'
  BY <1>6, FetchEndsInv
<1>7. ASSUME NEW p \in Page, ClosePage(p) PROVE Inv'
  BY <1>7, ClosePageInv
<1>8. ASSUME NEW p \in Page, OpenPage(p) PROVE Inv'
  BY <1>8, OpenPageInv
<1> QED BY <1>1, <1>2, <1>3, <1>4, <1>5, <1>6, <1>7, <1>8 DEF Next

(* Every reachable state of the transport is well typed.                   *)
THEOREM TypeCorrect == Spec => []TypeOK
<1>1. Spec => []Inv
  BY InitInv, NextInv, PTL DEF Spec
<1>2. Inv => TypeOK
  BY DEF Inv
<1> QED BY <1>1, <1>2, PTL

(* However many batches are put back, and however many pages write the     *)
(* slot, no buffer and no slot outgrows the cap (transport.ts:129-131).    *)
THEOREM AlwaysBounded == Spec => []Bounded
<1>1. Spec => []Inv
  BY InitInv, NextInv, PTL DEF Spec
<1>2. Inv => Bounded
  BY DEF Inv
<1> QED BY <1>1, <1>2, PTL
-----------------------------------------------------------------------------
(***************************************************************************)
(* The Catch transport implements at-least-once delivery, and with one     *)
(* page over a localStorage that works it loses no event silently.         *)
(***************************************************************************)

(* Where an event can be held, and what bounds the held events after a     *)
(* step.                                                                   *)
LEMMA HeldParts ==
  /\ \A l \in Post : Items(post[l]) \subseteq Held
  /\ \A p \in Page : Items(buffer[p]) \subseteq Held
  /\ Items(slot) \subseteq Held
BY DEF Held, InFlight, Buffered

LEMMA HeldAfter ==
  ASSUME NEW H,
         \A l \in Post : Items(post'[l]) \subseteq H,
         \A p \in Page : Items(buffer'[p]) \subseteq H,
         Items(slot') \subseteq H
  PROVE  Held' \subseteq H
<1>1. Items(slot)' = Items(slot')
  BY DEF Items
<1>2. InFlight' = UNION {Items(post'[l]) : l \in Post}
  BY DEF InFlight, Items
<1>3. Buffered' = UNION {Items(buffer'[p]) : p \in Page}
  BY DEF Buffered, Items
<1> QED BY <1>1, <1>2, <1>3 DEF Held

(* Every step either takes one new event in, or takes none in and invents  *)
(* none; events reach the server from where they are held.                 *)
Quiet ==
  /\ pushed' = pushed
  /\ Held' \subseteq Held
  /\ received \subseteq received'
  /\ received' \subseteq received \union Held

TakesIn(e) ==
  /\ e \notin Items(pushed)
  /\ Items(pushed)' = Items(pushed) \union {e}
  /\ e \in Held'
  /\ Held' \subseteq Held \union {e}
  /\ received' = received

LEMMA PushTakesIn ==
  ASSUME Inv, NEW p \in Page, NEW e \in Event, Push(p, e)
  PROVE  TakesIn(e)
<1> DEFINE b == Append(buffer[p], e)
           H == Held \union {e}
<1>1. /\ b \in Seq(Event) /\ b # <<>> /\ b[Len(b)] = e
      /\ slot \in Seq(Event) /\ Fits(slot) /\ buffer[p] \in Seq(Event)
  <2>1. slot \in Seq(Event) /\ Fits(slot) /\ buffer[p] \in Seq(Event)
    BY DEF Inv, TypeOK, Bounded, Fits
  <2>2. /\ b \in Seq(Event)
        /\ Len(b) = Len(buffer[p]) + 1
        /\ b[Len(b)] = e
    BY <2>1
  <2> QED BY <2>1, <2>2
<1>2. Items(b) \subseteq H
  BY <1>1, ItemsFacts, HeldParts
<1>3. /\ Items(Trim(b)) \subseteq H /\ e \in Items(Trim(b))
      /\ Trim(b) \in Seq(Event)
  <2> HIDE DEF b, H
  <2> QED BY <1>1, <1>2, TrimFacts
<1>4. Items(pushed)' = Items(pushed) \union {e}
  <2>1. pushed' = Append(pushed, e) /\ pushed \in Seq(Event)
    BY DEF Push, Inv, TypeOK
  <2>2. Items(pushed)' = Items(pushed')
    BY DEF Items
  <2> QED BY <2>1, <2>2, ItemsFacts
<1>5. e \in Held' /\ Held' \subseteq H
  <2>1. CASE Persist(p, slot, b) /\ UNCHANGED post
    <3>1. /\ buffer'[p] = Trim(b)
          /\ \A q \in Page \ {p} : buffer'[q] = buffer[q]
          /\ Items(slot') \subseteq Items(slot) \union Items(b)
      <4> HIDE DEF b
      <4> QED BY <1>1, <2>1, PersistFacts
    <3>2. \A q \in Page : Items(buffer'[q]) \subseteq H
      BY <3>1, <1>3, HeldParts
    <3>3. Items(slot') \subseteq H
      BY <3>1, <1>2, HeldParts
    <3>4. \A l \in Post : Items(post'[l]) \subseteq H
      BY <2>1, HeldParts
    <3>5. e \in Buffered'
      <4>1. Buffered' = UNION {Items(buffer'[q]) : q \in Page}
        BY DEF Buffered, Items
      <4> QED BY <4>1, <3>1, <1>3
    <3> HIDE DEF H
    <3> QED BY <3>2, <3>3, <3>4, <3>5, HeldAfter DEF Held
  <2>2. CASE /\ \E c \in Call : StartPost(p, c, Trim(b))
             /\ buffer' = [buffer EXCEPT ![p] = <<>>]
             /\ \E first \in Save(slot, b) : slot' \in Save(first, <<>>)
    <3>1. PICK c \in Call : StartPost(p, c, Trim(b))
      BY <2>2
    <3>2. /\ post'[<<p, c>>] = Trim(b)
          /\ \A l \in Post \ {<<p, c>>} : post'[l] = post[l]
      <4> HIDE DEF b
      <4> QED BY <3>1, <1>3, StartPostType DEF Inv
    <3>3. \A l \in Post : Items(post'[l]) \subseteq H
      BY <3>2, <1>3, HeldParts
    <3>4. \A q \in Page : Items(buffer'[q]) \subseteq H
      BY <2>2, HeldParts, ItemsFacts DEF Inv, TypeOK
    <3>5. Items(slot') \subseteq H
      <4> HIDE DEF b
      <4>1. PICK first \in Save(slot, b) : slot' \in Save(first, <<>>)
        BY <2>2
      <4>2. first \in Seq(Event) /\ Items(first) \subseteq Items(slot) \union Items(b)
        BY <1>1, SaveFacts
      <4>3. Items(slot') \subseteq Items(first) \union Items(<<>>)
        BY <4>1, <4>2, SaveFacts, EmptyFits
      <4> QED BY <4>2, <4>3, <1>2, ItemsFacts, HeldParts
    <3>6. e \in InFlight'
      <4>1. InFlight' = UNION {Items(post'[l]) : l \in Post}
        BY DEF InFlight, Items
      <4>2. <<p, c>> \in Post
        BY DEF Post
      <4> QED BY <4>1, <4>2, <3>2, <1>3
    <3> HIDE DEF H
    <3> QED BY <3>3, <3>4, <3>5, <3>6, HeldAfter DEF Held
  <2> QED BY <2>1, <2>2 DEF Push
<1> QED BY <1>4, <1>5 DEF Push, TakesIn, netVars


(* The flush of fetch(), and its Persist(p, slot, <<>>), move what they    *)
(* take.                                                                   *)
LEMMA SentIsHeld ==
  ASSUME Inv, NEW p \in Page, NEW c \in Call, StartPost(p, c, buffer[p]),
         Persist(p, slot, <<>>)
  PROVE  Held' \subseteq Held
<1>1. buffer[p] \in Seq(Event) /\ slot \in Seq(Event) /\ Fits(slot)
  BY DEF Inv, TypeOK, Bounded, Fits
<1>2. \A l \in Post : Items(post'[l]) \subseteq Held
  <2>1. /\ post'[<<p, c>>] = buffer[p]
        /\ \A l \in Post \ {<<p, c>>} : post'[l] = post[l]
    BY <1>1, StartPostType DEF Inv
  <2> QED BY <2>1, HeldParts
<1>3. Items(Trim(<<>>)) = {}
  BY TrimFacts, ItemsFacts, EmptyFits
<1>4. /\ \A q \in Page : Items(buffer'[q]) \subseteq Held
      /\ Items(slot') \subseteq Held
  <2>1. /\ buffer'[p] = Trim(<<>>)
        /\ \A q \in Page \ {p} : buffer'[q] = buffer[q]
        /\ Items(slot') \subseteq Items(slot) \union Items(<<>>)
    BY <1>1, PersistFacts, EmptyFits
  <2> QED BY <2>1, <1>3, ItemsFacts, HeldParts
<1> QED BY <1>2, <1>4, HeldAfter

LEMMA FlushQuiet ==
  ASSUME Inv, NEW p \in Page, Flush(p)
  PROVE  Quiet
BY SentIsHeld DEF Flush, Quiet, netVars

LEMMA BeaconQuiet ==
  ASSUME Inv, NEW p \in Page, Beacon(p)
  PROVE  Quiet
<1>1. buffer[p] \in Seq(Event) /\ slot \in Seq(Event) /\ Fits(slot)
  BY DEF Inv, TypeOK, Bounded, Fits
<1>2. \A l \in Post : Items(post'[l]) \subseteq Held
  BY HeldParts DEF Beacon
<1>3. PICK old \in Seq(Event), b \in {<<>>, buffer[p]} :
        /\ Fits(old) /\ Items(old) \subseteq Held
        /\ Persist(p, old, b)
  <2>1. CASE Persist(p, slot, <<>>)
    BY <2>1, <1>1, HeldParts
  <2>2. CASE \E first \in Save(slot, <<>>) : Persist(p, first, buffer[p])
    <3>1. PICK first \in Save(slot, <<>>) : Persist(p, first, buffer[p])
      BY <2>2
    <3>2. /\ first \in Seq(Event) /\ Fits(first)
          /\ Items(first) \subseteq Items(slot) \union Items(<<>>)
      BY <1>1, SaveFacts, EmptyFits
    <3> QED BY <3>1, <3>2, ItemsFacts, HeldParts
  <2> QED BY <2>1, <2>2 DEF Beacon
<1>4. /\ b \in Seq(Event) /\ Items(b) \subseteq Held
      /\ Items(Trim(b)) \subseteq Items(b)
  <2>1. b \in Seq(Event)
    BY <1>1, <1>3, EmptyFits
  <2>2. Items(b) \subseteq Held
    <3>1. CASE b = <<>>
      BY <3>1, ItemsFacts
    <3>2. CASE b = buffer[p]
      BY <3>2, HeldParts
    <3> QED BY <3>1, <3>2, <1>3
  <2> QED BY <2>1, <2>2, TrimFacts
<1>5. /\ \A q \in Page : Items(buffer'[q]) \subseteq Held
      /\ Items(slot') \subseteq Held
  <2>1. /\ buffer'[p] = Trim(b)
        /\ \A q \in Page \ {p} : buffer'[q] = buffer[q]
        /\ Items(slot') \subseteq Items(old) \union Items(b)
    BY <1>3, <1>4, PersistFacts
  <2> QED BY <2>1, <1>3, <1>4, HeldParts
<1>6. Held' \subseteq Held
  BY <1>2, <1>5, HeldAfter
<1>7. received \subseteq received' /\ received' \subseteq received \union Held
  BY HeldParts DEF Beacon, Receive, netVars
<1> QED BY <1>6, <1>7 DEF Quiet, Beacon

LEMMA ShutdownQuiet ==
  ASSUME Inv, NEW p \in Page, Shutdown(p)
  PROVE  Quiet
<1>1. CASE Beacon(p)
  BY <1>1, BeaconQuiet
<1>2. CASE /\ \E c \in Call : StartPost(p, c, buffer[p])
           /\ Persist(p, slot, <<>>)
           /\ UNCHANGED <<alive, closures, netVars, pushed, rejected,
                          interrupted, suspect>>
  BY <1>2, SentIsHeld DEF Quiet, netVars
<1>3. CASE UNCHANGED <<slot, buffer, post, alive, closures, netVars, pushed,
                       fateVars>>
  <2>1. Held' \subseteq Held
    BY <1>3, HeldParts, HeldAfter
  <2> QED BY <2>1, <1>3 DEF Quiet, netVars
<1> QED BY <1>1, <1>2, <1>3 DEF Shutdown

LEMMA FetchEndsQuiet ==
  ASSUME Inv, NEW p \in Page, NEW c \in Call, FetchEnds(p, c)
  PROVE  Quiet
<1>1. /\ buffer[p] \in Seq(Event) /\ slot \in Seq(Event) /\ Fits(slot)
      /\ post[<<p, c>>] \in Seq(Event)
      /\ Items(post[<<p, c>>]) \subseteq Held
  BY HeldParts DEF Inv, TypeOK, Bounded, Fits, Post
<1>2. EndPost(p, c) => \A l \in Post : Items(post'[l]) \subseteq Held
  BY HeldParts, ItemsFacts DEF EndPost, Inv, TypeOK, Post
<1>3. CASE FetchOk(p, c)
  <2>1. Held' \subseteq Held
    BY <1>2, <1>3, HeldParts, HeldAfter DEF FetchOk
  <2> QED BY <2>1, <1>1, <1>3 DEF FetchOk, Quiet, Receive
<1>4. CASE FetchRejected(p, c)
  <2>1. Held' \subseteq Held
    BY <1>2, <1>4, HeldParts, HeldAfter DEF FetchRejected
  <2> QED BY <2>1, <1>4 DEF FetchRejected, Quiet, netVars
<1>5. CASE FetchFailed(p, c)
  <2> DEFINE b == post[<<p, c>>] \o buffer[p]
  <2>1. b \in Seq(Event) /\ Items(b) \subseteq Held
    <3>1. b \in Seq(Event)
      BY <1>1
    <3>2. Items(b) = Items(post[<<p, c>>]) \union Items(buffer[p])
      BY <1>1, ItemsFacts
    <3> QED BY <3>1, <3>2, <1>1, HeldParts
  <2> HIDE DEF b
  <2>2. /\ buffer'[p] = Trim(b)
        /\ \A q \in Page \ {p} : buffer'[q] = buffer[q]
        /\ Items(slot') \subseteq Items(slot) \union Items(b)
    BY <2>1, <1>1, <1>5, PersistFacts DEF FetchFailed, b
  <2>3. /\ \A q \in Page : Items(buffer'[q]) \subseteq Held
        /\ Items(slot') \subseteq Held
    BY <2>1, <2>2, TrimFacts, HeldParts
  <2>4. Held' \subseteq Held
    BY <1>2, <1>5, <2>3, HeldAfter DEF FetchFailed
  <2>5. received \subseteq received' /\ received' \subseteq received \union Held
    BY <1>1, <1>5 DEF FetchFailed, Receive, netVars
  <2> QED BY <2>4, <2>5, <1>5 DEF Quiet, FetchFailed
<1> QED BY <1>3, <1>4, <1>5 DEF FetchEnds

LEMMA ClosePageQuiet ==
  ASSUME Inv, NEW p \in Page, ClosePage(p)
  PROVE  Quiet
<1>1. /\ \A l \in Post : Items(post'[l]) \subseteq Held
      /\ \A q \in Page : Items(buffer'[q]) \subseteq Held
      /\ Items(slot') \subseteq Held
  BY HeldParts, ItemsFacts DEF ClosePage, Inv, TypeOK
<1>2. received \subseteq received' /\ received' \subseteq received \union Held
  <2>1. PICK landed \in SUBSET {c \in Call : post[<<p, c>>] # <<>>} :
               Receive(UNION {Items(post[<<p, c>>]) : c \in landed})
    BY DEF ClosePage
  <2>2. \A c \in Call : Items(post[<<p, c>>]) \subseteq Held
    BY HeldParts DEF Post
  <2> HIDE DEF Items, Held
  <2> QED BY <2>1, <2>2 DEF Receive
<1>3. Held' \subseteq Held
  BY <1>1, HeldAfter
<1> QED BY <1>2, <1>3 DEF Quiet, ClosePage

LEMMA OpenPageQuiet ==
  ASSUME Inv, NEW p \in Page, OpenPage(p)
  PROVE  Quiet
<1>1. /\ \A l \in Post : Items(post'[l]) \subseteq Held
      /\ \A q \in Page : Items(buffer'[q]) \subseteq Held
      /\ Items(slot') \subseteq Held
  BY HeldParts DEF OpenPage, Inv, TypeOK
<1>2. Held' \subseteq Held
  BY <1>1, HeldAfter
<1> QED BY <1>2 DEF Quiet, OpenPage, netVars

LEMMA StepShape ==
  ASSUME Inv, [Next]_vars
  PROVE  Quiet \/ \E e \in Event : TakesIn(e)
<1>1. CASE UNCHANGED vars
  <2>1. Held' \subseteq Held
    BY <1>1, HeldParts, HeldAfter DEF vars
  <2> QED BY <2>1, <1>1 DEF Quiet, vars, netVars
<1>2. ASSUME NEW p \in Page, NEW e \in Event, Push(p, e)
      PROVE  \E f \in Event : TakesIn(f)
  BY <1>2, PushTakesIn
<1>3. ASSUME NEW p \in Page, Flush(p) \/ Unload(p) PROVE Quiet
  BY <1>3, FlushQuiet, BeaconQuiet DEF Unload
<1>4. ASSUME NEW p \in Page, Shutdown(p) PROVE Quiet
  BY <1>4, ShutdownQuiet
<1>5. ASSUME NEW p \in Page, NEW c \in Call, FetchEnds(p, c) PROVE Quiet
  BY <1>5, FetchEndsQuiet
<1>6. ASSUME NEW p \in Page, ClosePage(p) PROVE Quiet
  BY <1>6, ClosePageQuiet
<1>7. ASSUME NEW p \in Page, OpenPage(p) PROVE Quiet
  BY <1>7, OpenPageQuiet
<1> QED BY <1>1, <1>2, <1>3, <1>4, <1>5, <1>6, <1>7 DEF Next
-----------------------------------------------------------------------------
(***************************************************************************)
(* The refinement.  Nothing is held and nothing received that was not      *)
(* handed over, so a step that takes nothing in is a Resolve of the        *)
(* abstract queue, and one that takes an event in is an Accept.            *)
(***************************************************************************)
Known == Held \union received \subseteq Items(pushed)

LEMMA InitKnown == Init => Known
<1> SUFFICES ASSUME Init PROVE Known
  OBVIOUS
<1>1. Held = {}
  BY ItemsFacts DEF Init, Held, InFlight, Buffered
<1> QED BY <1>1 DEF Init, Known

LEMMA NextKnown == Inv /\ Known /\ [Next]_vars => Known'
<1> SUFFICES ASSUME Inv, Known, [Next]_vars PROVE Known'
  OBVIOUS
<1>1. CASE Quiet
  <2>1. Items(pushed)' = Items(pushed)
    BY <1>1 DEF Quiet, Items
  <2> QED BY <2>1, <1>1 DEF Quiet, Known
<1>2. ASSUME NEW e \in Event, TakesIn(e) PROVE Known'
  BY <1>2 DEF TakesIn, Known
<1> QED BY <1>1, <1>2, StepShape

LEMMA RefinementStep ==
  Inv /\ Known /\ [Next]_vars => [Delivery!Next]_(Delivery!vars)
<1> SUFFICES ASSUME Inv, Known, [Next]_vars
             PROVE  [Delivery!Next]_(Delivery!vars)
  OBVIOUS
<1>1. CASE Quiet
  <2> DEFINE delivered == received' \ received
             dropped == (Held \ received) \ (Held' \union received')
  <2>1. Items(pushed)' = Items(pushed)
    BY <1>1 DEF Quiet, Items
  <2>2. delivered \in SUBSET (Held \ received)
        /\ dropped \in SUBSET (Held \ received)
    BY <1>1 DEF Quiet
  <2>3. Delivery!Resolve(delivered, dropped)
    BY <1>1, <2>1 DEF Quiet, Known, Delivery!Resolve
  <2> HIDE DEF delivered, dropped
  <2> QED BY <2>2, <2>3 DEF Delivery!Next
<1>2. ASSUME NEW e \in Event, TakesIn(e)
      PROVE  Delivery!Next
  <2> DEFINE dropped == (Held \ received) \ Held'
  <2>1. dropped \in SUBSET (Held \ received)
    OBVIOUS
  <2>2. Delivery!Accept(e, dropped)
    BY <1>2 DEF TakesIn, Known, Delivery!Accept
  <2> HIDE DEF dropped
  <2> QED BY <2>1, <2>2 DEF Delivery!Next
<1> QED BY <1>1, <1>2, StepShape

(* The transport implements at-least-once delivery, with any number of     *)
(* pages over the slot and a setItem that may throw: what reaches the      *)
(* server was handed to push(), and an event whose last copy is gone never *)
(* comes back.                                                             *)
THEOREM TransportDelivers == Spec => ImplementsAtLeastOnce
<1>1. Init => Delivery!Init
  <2> SUFFICES ASSUME Init PROVE Delivery!Init
    OBVIOUS
  <2>1. Held = {} /\ Items(pushed) = {}
    BY ItemsFacts DEF Init, Held, InFlight, Buffered
  <2> QED BY <2>1 DEF Init, Delivery!Init
<1>2. Spec => []Inv
  BY InitInv, NextInv, PTL DEF Spec
<1>3. Spec => [](Inv /\ Known)
  BY <1>2, InitKnown, NextKnown, PTL DEF Spec
<1> QED BY <1>1, <1>3, RefinementStep, PTL
        DEF Spec, ImplementsAtLeastOnce, Delivery!Spec

-----------------------------------------------------------------------------
(***************************************************************************)
(* One page at a time over a localStorage that works: the slot mirrors the *)
(* buffer of the page while it is open, a page that is not open has no     *)
(* events at all, and every event that is no longer held was delivered or  *)
(* has an excuse.                                                          *)
(***************************************************************************)
OnePage == \A p, q \in Page : p = q

Mirrored ==
  \A p \in Page :
    /\ alive[p] => buffer[p] = slot
    /\ ~alive[p] => /\ buffer[p] = <<>>
                    /\ \A c \in Call : post[<<p, c>>] = <<>>

LossInv == Mirrored /\ NoSilentLoss

LEMMA HeldPartsAfter ==
  /\ \A l \in Post : Items(post'[l]) \subseteq Held'
  /\ \A p \in Page : Items(buffer'[p]) \subseteq Held'
  /\ Items(slot') \subseteq Held'
BY DEF Held, InFlight, Buffered, Items

LEMMA TrimKeepsOrCaps ==
  ASSUME NEW b \in Seq(Event)
  PROVE  Items(b) \subseteq Items(Trim(b)) \union Items(SubSeq(b, 1, Excess(b)))
<1>1. Excess(b) \in Nat /\ Excess(b) <= Len(b)
  BY MaxStoredAssumption DEF Excess
<1>2. SUFFICES ASSUME NEW i \in 1 .. Len(b)
               PROVE  b[i] \in Items(Trim(b)) \union Items(SubSeq(b, 1, Excess(b)))
  BY DEF Items
<1>3. CASE i <= Excess(b)
  <2>1. /\ Len(SubSeq(b, 1, Excess(b))) = Excess(b)
        /\ SubSeq(b, 1, Excess(b))[i] = b[i]
    BY <1>1, <1>3
  <2>2. i \in 1 .. Len(SubSeq(b, 1, Excess(b)))
    BY <2>1, <1>1, <1>3
  <2>3. b[i] \in Items(SubSeq(b, 1, Excess(b)))
    BY <2>1, <2>2 DEF Items
  <2> QED BY <2>3
<1>4. CASE i > Excess(b)
  <2>1. /\ Len(Trim(b)) = Len(b) - Excess(b)
        /\ \A j \in 1 .. Len(Trim(b)) : Trim(b)[j] = b[j + Excess(b)]
    BY <1>1 DEF Trim
  <2>2. i - Excess(b) \in 1 .. Len(Trim(b)) /\ Trim(b)[i - Excess(b)] = b[i]
    BY <1>1, <1>4, <2>1
  <2>3. b[i] \in Items(Trim(b))
    BY <2>2 DEF Items
  <2> QED BY <2>3
<1> QED BY <1>1, <1>3, <1>4

(* What a persist does when setItem works: buffer and slot stay equal, and *)
(* an event of b is kept or capped.                                        *)
LEMMA PersistMirrors ==
  ASSUME Inv, SaveOutcome = {TRUE}, OnePage, NEW p \in Page, alive[p],
         alive' = alive,
         NEW old \in Seq(Event), NEW b \in Seq(Event), Persist(p, old, b)
  PROVE  /\ Mirrored'
         /\ Items(b) \subseteq Items(slot') \union capped'
         /\ capped \subseteq capped'
<1>1. slot' = Trim(b)
  BY DEF Persist, Save
<1>2. buffer'[p] = Trim(b)
  BY DEF Persist, Inv, TypeOK
<1> QED BY <1>1, <1>2, TrimKeepsOrCaps DEF Persist, Mirrored, OnePage

(* Enough for NoSilentLoss: what was held is held, delivered or excused.   *)
LEMMA LossStep ==
  ASSUME NoSilentLoss,
         Items(pushed)' \subseteq Items(pushed) \union Held',
         Held \subseteq Held' \union received' \union Excused',
         received \subseteq received', Excused \subseteq Excused'
  PROVE  NoSilentLoss'
BY DEF NoSilentLoss

(* With one page, an event is in one of its POSTs or in the slot.          *)
LEMMA HeldIs ==
  ASSUME OnePage, Mirrored, NEW p \in Page
  PROVE  Held = (UNION {Items(post[<<p, c>>]) : c \in Call}) \union Items(slot)
<1>1. Buffered \subseteq Items(slot)
  BY ItemsFacts DEF Buffered, Mirrored
<1>2. \A l \in Post : \E c \in Call : l = <<p, c>>
  BY DEF Post, OnePage
<1>3. InFlight = UNION {Items(post[<<p, c>>]) : c \in Call}
  BY <1>2 DEF InFlight, Post
<1> QED BY <1>1, <1>3 DEF Held

LEMMA PushLoss ==
  ASSUME Inv, LossInv, SaveOutcome = {TRUE}, OnePage,
         NEW p \in Page, NEW e \in Event, Push(p, e)
  PROVE  LossInv'
<1> DEFINE b == Append(buffer[p], e)
<1>1. /\ buffer[p] \in Seq(Event) /\ slot \in Seq(Event) /\ buffer[p] = slot
      /\ post \in [Post -> Seq(Event)]
  BY DEF Push, LossInv, Mirrored, Inv, TypeOK
<1>2. /\ b \in Seq(Event)
      /\ Items(b) = Items(slot) \union {e}
  BY <1>1, ItemsFacts
<1>3. TakesIn(e)
  BY PushTakesIn
<1> HIDE DEF b
<1> DEFINE Flying == UNION {Items(post[<<p, c>>]) : c \in Call}
<1>6. Held = Flying \union Items(slot)
  BY HeldIs DEF LossInv
<1>4. /\ Mirrored' /\ capped \subseteq capped'
      /\ Held \subseteq Held' \union capped'
  <2>1. CASE Persist(p, slot, b) /\ UNCHANGED post
    <3>1. /\ Mirrored' /\ Items(b) \subseteq Items(slot') \union capped'
          /\ capped \subseteq capped'
      BY <1>1, <1>2, <2>1, PersistMirrors DEF Push, pageVars
    <3>2. \A c \in Call : Items(post[<<p, c>>]) \subseteq Held'
      BY <2>1, HeldPartsAfter DEF Post
    <3>3. Flying \subseteq Held'
      BY <3>2
    <3>4. Items(slot) \subseteq Held' \union capped'
      BY <3>1, <1>2, HeldPartsAfter
    <3> QED BY <3>1, <3>3, <3>4, <1>6
  <2>2. CASE /\ \E c \in Call : StartPost(p, c, Trim(b))
             /\ buffer' = [buffer EXCEPT ![p] = <<>>]
             /\ capped' = capped \union Items(SubSeq(b, 1, Excess(b)))
             /\ \E first \in Save(slot, b) : slot' \in Save(first, <<>>)
    <3>1. PICK c \in Call : StartPost(p, c, Trim(b))
      BY <2>2
    <3>2. slot' = Trim(<<>>)
      BY <2>2 DEF Save
    <3>3. Trim(<<>>) = <<>>
      BY MaxStoredAssumption DEF Trim, Excess
    <3>4. Mirrored'
      <4>1. alive' = alive /\ alive[p]
        BY DEF Push, pageVars
      <4>2. buffer'[p] = <<>>
        BY <2>2 DEF Inv, TypeOK
      <4> QED BY <4>1, <4>2, <3>2, <3>3 DEF Mirrored, OnePage
    <3>5. /\ post'[<<p, c>>] = Trim(b)
          /\ \A d \in Call \ {c} : post'[<<p, d>>] = post[<<p, d>>]
          /\ post[<<p, c>>] = <<>>
      BY <3>1, <1>1 DEF StartPost, Post
    <3>6. \A d \in Call : Items(post[<<p, d>>]) \subseteq Held'
      BY <3>5, HeldPartsAfter, ItemsFacts DEF Post
    <3>7. Items(b) \subseteq Held' \union capped'
      BY <3>5, <2>2, <1>2, TrimKeepsOrCaps, HeldPartsAfter DEF Post
    <3>8. Flying \subseteq Held'
      BY <3>6
    <3> HIDE DEF Flying
    <3> QED BY <3>4, <3>7, <3>8, <2>2, <1>2, <1>6
  <2> QED BY <2>1, <2>2 DEF Push, b
<1>5. NoSilentLoss'
  <2>1. Items(pushed)' \subseteq Items(pushed) \union Held'
    BY <1>3 DEF TakesIn
  <2>2. /\ Excused \subseteq Excused' /\ capped' \subseteq Excused'
        /\ received' = received
    BY <1>4 DEF Push, Excused, netVars
  <2> QED BY <1>4, <2>1, <2>2, LossStep DEF LossInv
<1> QED BY <1>4, <1>5 DEF LossInv


(* The events that are on their way from page p.                           *)
Flying(p) == UNION {Items(post[<<p, c>>]) : c \in Call}

LEMMA SentLoss ==
  ASSUME Inv, LossInv, SaveOutcome = {TRUE}, OnePage, NEW p \in Page, alive[p],
         alive' = alive, NEW c \in Call, StartPost(p, c, buffer[p]),
         Persist(p, slot, <<>>)
  PROVE  Mirrored' /\ Held \subseteq Held' /\ capped \subseteq capped'
<1>1. /\ buffer[p] \in Seq(Event) /\ slot \in Seq(Event) /\ buffer[p] = slot
      /\ post \in [Post -> Seq(Event)]
  BY DEF LossInv, Mirrored, Inv, TypeOK
<1>2. Mirrored' /\ capped \subseteq capped'
  BY <1>1, EmptyFits, PersistMirrors
<1>3. /\ post'[<<p, c>>] = slot
      /\ \A d \in Call \ {c} : post'[<<p, d>>] = post[<<p, d>>]
      /\ post[<<p, c>>] = <<>>
  BY <1>1 DEF StartPost, Post
<1>4. \A d \in Call : Items(post[<<p, d>>]) \subseteq Held'
  BY <1>3, HeldPartsAfter, ItemsFacts DEF Post
<1>5. Items(slot) \subseteq Held'
  BY <1>3, HeldPartsAfter DEF Post
<1>6. Held = Flying(p) \union Items(slot)
  BY HeldIs DEF LossInv, Flying
<1>7. Flying(p) \subseteq Held'
  BY <1>4 DEF Flying
<1> QED BY <1>2, <1>5, <1>6, <1>7

LEMMA FlushLoss ==
  ASSUME Inv, LossInv, SaveOutcome = {TRUE}, OnePage, NEW p \in Page, Flush(p)
  PROVE  LossInv'
<1>1. Mirrored' /\ Held \subseteq Held' /\ capped \subseteq capped'
  BY SentLoss DEF Flush, pageVars
<1>2. NoSilentLoss'
  <2>1. Items(pushed)' = Items(pushed)
    BY DEF Flush, Items
  <2>2. Excused \subseteq Excused' /\ received' = received
    BY <1>1 DEF Flush, Excused, netVars
  <2> QED BY <1>1, <2>1, <2>2, LossStep DEF LossInv
<1> QED BY <1>1, <1>2 DEF LossInv

LEMMA BeaconLoss ==
  ASSUME Inv, LossInv, SaveOutcome = {TRUE}, OnePage, NEW p \in Page, Beacon(p)
  PROVE  LossInv'
<1>1. /\ buffer[p] \in Seq(Event) /\ slot \in Seq(Event) /\ buffer[p] = slot
      /\ alive[p] /\ alive' = alive
  BY DEF Beacon, LossInv, Mirrored, Inv, TypeOK
<1>2. Flying(p) \subseteq Held'
  <2>1. \A c \in Call : Items(post[<<p, c>>]) \subseteq Held'
    BY HeldPartsAfter DEF Beacon, Post
  <2> QED BY <2>1 DEF Flying
<1>3. Held = Flying(p) \union Items(slot)
  BY HeldIs DEF LossInv, Flying
<1>4. CASE /\ Persist(p, slot, <<>>)
           /\ \/ Receive(Items(buffer[p])) /\ UNCHANGED interrupted
              \/ /\ interrupted' = interrupted \union Items(buffer[p])
                 /\ UNCHANGED netVars
  <2>1. Mirrored' /\ capped \subseteq capped'
    BY <1>1, <1>4, EmptyFits, PersistMirrors
  <2>2. /\ Items(slot) \subseteq received' \union interrupted'
        /\ received \subseteq received' /\ interrupted \subseteq interrupted'
    BY <1>1, <1>4 DEF Receive, netVars
  <2>3. /\ Excused \subseteq Excused' /\ interrupted' \subseteq Excused'
        /\ Items(pushed)' = Items(pushed)
    BY <2>1, <2>2 DEF Beacon, Excused, Items
  <2>4. NoSilentLoss'
    BY <1>2, <1>3, <2>2, <2>3, LossStep DEF LossInv
  <2> QED BY <2>1, <2>4 DEF LossInv
<1>5. CASE /\ \E first \in Save(slot, <<>>) : Persist(p, first, buffer[p])
           /\ UNCHANGED <<netVars, interrupted>>
  <2>1. PICK first \in Save(slot, <<>>) : Persist(p, first, buffer[p])
    BY <1>5
  <2>2. first \in Seq(Event)
    BY <1>1, <2>1, SaveFacts, EmptyFits
  <2>3. /\ Mirrored' /\ capped \subseteq capped'
        /\ Items(slot) \subseteq Items(slot') \union capped'
    BY <1>1, <2>1, <2>2, PersistMirrors
  <2>4. /\ Excused \subseteq Excused' /\ capped' \subseteq Excused'
        /\ Items(pushed)' = Items(pushed) /\ received' = received
    BY <2>3, <1>5 DEF Beacon, Excused, Items, netVars
  <2>5. Items(slot) \subseteq Held' \union Excused'
    BY <2>3, <2>4, HeldPartsAfter
  <2>6. NoSilentLoss'
    BY <1>2, <1>3, <2>4, <2>5, LossStep DEF LossInv
  <2> QED BY <2>3, <2>6 DEF LossInv
<1> QED BY <1>4, <1>5 DEF Beacon

LEMMA ShutdownLoss ==
  ASSUME Inv, LossInv, SaveOutcome = {TRUE}, OnePage, NEW p \in Page, Shutdown(p)
  PROVE  LossInv'
<1>1. CASE Beacon(p)
  BY <1>1, BeaconLoss
<1>2. CASE /\ \E c \in Call : StartPost(p, c, buffer[p])
           /\ Persist(p, slot, <<>>)
           /\ UNCHANGED <<alive, closures, netVars, pushed, rejected,
                          interrupted, suspect>>
  <2>1. Mirrored' /\ Held \subseteq Held' /\ capped \subseteq capped'
    BY <1>2, SentLoss DEF Shutdown
  <2>2. Items(pushed)' = Items(pushed) /\ received' = received
        /\ Excused \subseteq Excused'
    BY <1>2, <2>1 DEF Items, Excused, netVars
  <2>3. NoSilentLoss'
    BY <2>1, <2>2, LossStep DEF LossInv
  <2> QED BY <2>1, <2>3 DEF LossInv
<1>3. CASE UNCHANGED <<slot, buffer, post, alive, closures, netVars, pushed,
                       fateVars>>
  BY <1>3 DEF LossInv, Mirrored, NoSilentLoss, Held, InFlight, Buffered, Items,
              Excused, netVars, fateVars
<1> QED BY <1>1, <1>2, <1>3 DEF Shutdown

LEMMA FetchEndsLoss ==
  ASSUME Inv, LossInv, SaveOutcome = {TRUE}, OnePage,
         NEW p \in Page, NEW c \in Call, FetchEnds(p, c)
  PROVE  LossInv'
<1> DEFINE b == post[<<p, c>>]
<1>1. /\ buffer[p] \in Seq(Event) /\ slot \in Seq(Event)
      /\ b \in Seq(Event) /\ post \in [Post -> Seq(Event)]
  BY DEF Inv, TypeOK, Post
<1>2. Held = Flying(p) \union Items(slot)
  BY HeldIs DEF LossInv, Flying
<1>3. EndPost(p, c) => Flying(p) \subseteq Items(b) \union Held'
  <2> SUFFICES ASSUME EndPost(p, c)
               PROVE  Flying(p) \subseteq Items(b) \union Held'
    OBVIOUS
  <2>1. \A d \in Call \ {c} : post'[<<p, d>>] = post[<<p, d>>]
    BY <1>1 DEF EndPost, Post
  <2>2. \A d \in Call \ {c} : Items(post[<<p, d>>]) \subseteq Held'
    BY <2>1, HeldPartsAfter DEF Post
  <2> QED BY <2>2 DEF Flying
<1> HIDE DEF b
<1>7. EndPost(p, c) /\ UNCHANGED <<slot, buffer, alive>> => Mirrored'
  <2>1. \A l \in Post : EndPost(p, c) => post'[l] = post[l] \/ post'[l] = <<>>
    BY <1>1 DEF EndPost
  <2> QED BY <2>1 DEF Mirrored, LossInv, Post
<1>4. CASE FetchOk(p, c)
  <2>1. /\ Mirrored' /\ Items(b) \subseteq received' /\ received \subseteq received'
        /\ Items(slot) \subseteq Held' /\ Excused' = Excused
        /\ Items(pushed)' = Items(pushed)
    BY <1>4, <1>7, HeldPartsAfter
       DEF FetchOk, Receive, pageVars, fateVars, Excused, Items, b
  <2>2. NoSilentLoss'
    BY <1>2, <1>3, <1>4, <2>1, LossStep DEF FetchOk, LossInv
  <2> QED BY <2>1, <2>2 DEF LossInv
<1>5. CASE FetchRejected(p, c)
  <2>1. /\ Mirrored' /\ Items(b) \subseteq Excused' /\ received' = received
        /\ Items(slot) \subseteq Held' /\ Excused \subseteq Excused'
        /\ Items(pushed)' = Items(pushed)
    BY <1>5, <1>7, HeldPartsAfter
       DEF FetchRejected, pageVars, netVars, Excused, Items, b
  <2>2. NoSilentLoss'
    BY <1>2, <1>3, <1>5, <2>1, LossStep DEF FetchRejected, LossInv
  <2> QED BY <2>1, <2>2 DEF LossInv
<1>6. CASE FetchFailed(p, c)
  <2>1. alive[p] /\ alive' = alive /\ buffer[p] = slot
    BY <1>6 DEF FetchFailed, LossInv, Mirrored, pageVars, b
  <2>2. b \o buffer[p] \in Seq(Event)
        /\ Items(b \o buffer[p]) = Items(b) \union Items(slot)
    BY <1>1, <2>1, ItemsFacts
  <2>3. /\ Mirrored' /\ capped \subseteq capped'
        /\ Items(b) \union Items(slot) \subseteq Items(slot') \union capped'
    BY <1>1, <1>6, <2>1, <2>2, PersistMirrors DEF FetchFailed, b
  <2>4. /\ Excused \subseteq Excused' /\ capped' \subseteq Excused'
        /\ Items(pushed)' = Items(pushed) /\ received \subseteq received'
    BY <1>6, <2>3 DEF FetchFailed, Receive, Excused, Items, netVars
  <2>5. Items(b) \union Items(slot) \subseteq Held' \union Excused'
    BY <2>3, <2>4, HeldPartsAfter
  <2>6. NoSilentLoss'
    BY <1>2, <1>3, <1>6, <2>4, <2>5, LossStep DEF FetchFailed, LossInv
  <2> QED BY <2>3, <2>6 DEF LossInv
<1> QED BY <1>4, <1>5, <1>6 DEF FetchEnds


LEMMA ClosePageLoss ==
  ASSUME Inv, LossInv, OnePage, NEW p \in Page, ClosePage(p)
  PROVE  LossInv'
<1>1. Mirrored'
  <2>1. /\ alive'[p] = FALSE /\ buffer'[p] = <<>>
        /\ \A c \in Call : post'[<<p, c>>] = <<>>
    BY DEF ClosePage, Inv, TypeOK, Post
  <2> QED BY <2>1 DEF Mirrored, OnePage
<1>2. Held = Flying(p) \union Items(slot)
  BY HeldIs DEF LossInv, Flying
<1>3. /\ Flying(p) \subseteq Excused' /\ Excused \subseteq Excused'
      /\ Items(pushed)' = Items(pushed) /\ slot' = slot
  BY DEF ClosePage, Excused, Flying, Items
<1>4. received \subseteq received'
  BY DEF ClosePage, Receive
<1>5. NoSilentLoss'
  BY <1>2, <1>3, <1>4, HeldPartsAfter, LossStep DEF LossInv
<1> QED BY <1>1, <1>5 DEF LossInv

LEMMA OpenPageLoss ==
  ASSUME Inv, LossInv, OnePage, NEW p \in Page, OpenPage(p)
  PROVE  LossInv'
<1>1. Mirrored'
  <2>1. alive'[p] = TRUE /\ buffer'[p] = slot
    BY DEF OpenPage, Inv, TypeOK
  <2> QED BY <2>1 DEF Mirrored, OnePage, OpenPage
<1>2. Held = Flying(p) \union Items(slot)
  BY HeldIs DEF LossInv, Flying
<1>3. Flying(p) \subseteq Held'
  <2>1. \A c \in Call : Items(post[<<p, c>>]) \subseteq Held'
    BY HeldPartsAfter DEF OpenPage, Post
  <2> QED BY <2>1 DEF Flying
<1>4. /\ Excused' = Excused /\ received' = received
      /\ Items(pushed)' = Items(pushed) /\ slot' = slot
  BY DEF OpenPage, Excused, Items, fateVars, netVars
<1>5. NoSilentLoss'
  BY <1>2, <1>3, <1>4, HeldPartsAfter, LossStep DEF LossInv
<1> QED BY <1>1, <1>5 DEF LossInv

LEMMA InitLoss == Init => LossInv
<1> SUFFICES ASSUME Init PROVE LossInv
  OBVIOUS
<1>1. Mirrored
  BY DEF Init, Mirrored
<1>2. NoSilentLoss
  BY ItemsFacts DEF Init, NoSilentLoss
<1> QED BY <1>1, <1>2 DEF LossInv

LEMMA NextLoss ==
  ASSUME Inv, LossInv, SaveOutcome = {TRUE}, OnePage, [Next]_vars
  PROVE  LossInv'
<1>1. CASE UNCHANGED vars
  BY <1>1 DEF LossInv, Mirrored, NoSilentLoss, Held, InFlight, Buffered, Items,
              Excused, vars, pageVars, netVars, fateVars
<1>2. ASSUME NEW p \in Page, NEW e \in Event, Push(p, e) PROVE LossInv'
  BY <1>2, PushLoss
<1>3. ASSUME NEW p \in Page, Flush(p) \/ Unload(p) PROVE LossInv'
  BY <1>3, FlushLoss, BeaconLoss DEF Unload
<1>4. ASSUME NEW p \in Page, Shutdown(p) PROVE LossInv'
  BY <1>4, ShutdownLoss
<1>5. ASSUME NEW p \in Page, NEW c \in Call, FetchEnds(p, c) PROVE LossInv'
  BY <1>5, FetchEndsLoss
<1>6. ASSUME NEW p \in Page, ClosePage(p) PROVE LossInv'
  BY <1>6, ClosePageLoss
<1>7. ASSUME NEW p \in Page, OpenPage(p) PROVE LossInv'
  BY <1>7, OpenPageLoss
<1> QED BY <1>1, <1>2, <1>3, <1>4, <1>5, <1>6, <1>7 DEF Next

(* With one page at a time and a localStorage that works, an event is lost *)
(* only to the cap, to an error status or to a page that dies while its    *)
(* POST is under way, and what waits in the buffer is always in the slot.  *)
THEOREM OnePageIsSafe ==
  ASSUME SaveOutcome = {TRUE}, OnePage
  PROVE  Spec => [](NoSilentLoss /\ BufferIsSaved)
<1>1. Spec => []Inv
  BY InitInv, NextInv, PTL DEF Spec
<1>2. Inv /\ LossInv /\ [Next]_vars => LossInv'
  BY NextLoss
<1>3. Spec => [](Inv /\ LossInv)
  BY <1>1, <1>2, InitLoss, PTL DEF Spec
<1>4. Inv /\ LossInv => NoSilentLoss /\ BufferIsSaved
  BY ItemsFacts DEF LossInv, Mirrored, BufferIsSaved
<1> QED BY <1>3, <1>4, PTL

(* What waits for a flush survives the death of its page (transport.ts:14).*)
THEOREM BufferSurvives ==
  ASSUME SaveOutcome = {TRUE}, OnePage
  PROVE  Spec => []BufferIsSaved
  BY OnePageIsSafe, PTL
-----------------------------------------------------------------------------
(***************************************************************************)
(* Second copies, for the same page.  An event is in one place at a time,  *)
(* in one POST or in the slot, so that what a POST delivers is not held any*)
(* more: an event that is held although the server has it was put back by  *)
(* a POST that only looked like a failure.                                 *)
(***************************************************************************)
Apart ==
  /\ \A l, k \in Post : l # k => Items(post[l]) \intersect Items(post[k]) = {}
  /\ \A l \in Post : Items(post[l]) \intersect Items(slot) = {}

HeldIsSuspect == Held \intersect received \subseteq suspect

CopiesInv == Apart /\ HeldIsSuspect /\ DuplicatesExplained

LEMMA ItemsAfter == \A s : Items(s)' = Items(s')
BY DEF Items

(* The slot is emptied, or grows by events that no POST has.               *)
LEMMA SlotApart ==
  ASSUME Apart, NEW N, \A l \in Post : Items(post'[l]) \subseteq Items(post[l]),
         Items(slot') \subseteq Items(slot) \union N,
         \A l \in Post : Items(post'[l]) \intersect N = {}
  PROVE  Apart'
<1>1. \A l, k \in Post : l # k => Items(post'[l]) \intersect Items(post'[k]) = {}
  BY DEF Apart
<1>2. \A l \in Post : Items(post'[l]) \intersect Items(slot') = {}
  BY DEF Apart
<1> QED BY <1>1, <1>2 DEF Apart, Items

LEMMA SlotShrinks ==
  ASSUME Apart, \A l \in Post : Items(post'[l]) \subseteq Items(post[l]),
         Items(slot') \subseteq Items(slot)
  PROVE  Apart'
<1>1. \A l \in Post : Items(post'[l]) \intersect {} = {}
  OBVIOUS
<1> QED BY <1>1, SlotApart

(* A POST takes what was in the slot, and perhaps something new.           *)
LEMMA PostApart ==
  ASSUME Apart, NEW N, N \intersect Held = {}, NEW l \in Post,
         \A k \in Post \ {l} : post'[k] = post[k],
         Items(post'[l]) \subseteq Items(slot) \union N,
         Items(slot') = {}
  PROVE  Apart'
<1>1. \A k, m \in Post : k # m => Items(post'[k]) \intersect Items(post'[m]) = {}
  <2>1. \A k \in Post \ {l} : Items(post'[k]) \intersect Items(post'[l]) = {}
    BY HeldParts DEF Apart
  <2> QED BY <2>1 DEF Apart
<1> QED BY <1>1 DEF Apart, Items

(* Enough for the copies: what is delivered now is not held any more, or   *)
(* is marked.                                                              *)
LEMMA CopiesStep ==
  ASSUME HeldIsSuspect, DuplicatesExplained, Quiet, NEW got \in SUBSET Held,
         Receive(got), suspect \subseteq suspect',
         Held' \intersect got \subseteq suspect'
  PROVE  HeldIsSuspect' /\ DuplicatesExplained'
BY DEF HeldIsSuspect, DuplicatesExplained, Quiet, Receive

LEMMA NothingReceived ==
  ASSUME HeldIsSuspect, DuplicatesExplained, Quiet, UNCHANGED <<netVars, suspect>>
  PROVE  HeldIsSuspect' /\ DuplicatesExplained'
BY DEF HeldIsSuspect, DuplicatesExplained, Quiet, netVars

LEMMA PushCopies ==
  ASSUME Inv, Known, LossInv, CopiesInv, SaveOutcome = {TRUE}, OnePage,
         NEW p \in Page, NEW e \in Event, Push(p, e)
  PROVE  CopiesInv'
<1> DEFINE b == Append(buffer[p], e)
<1>1. /\ buffer[p] \in Seq(Event) /\ slot \in Seq(Event) /\ buffer[p] = slot
      /\ post \in [Post -> Seq(Event)]
  BY DEF Push, LossInv, Mirrored, Inv, TypeOK
<1>2. b \in Seq(Event) /\ Items(b) = Items(slot) \union {e}
  BY <1>1, ItemsFacts
<1>3. TakesIn(e)
  BY PushTakesIn
<1> HIDE DEF b
<1>4. e \notin Held /\ e \notin received
  BY <1>3 DEF TakesIn, Known
<1>5. HeldIsSuspect' /\ DuplicatesExplained'
  BY <1>3, <1>4 DEF CopiesInv, HeldIsSuspect, DuplicatesExplained, TakesIn,
                    Push, netVars
<1>6. Trim(b) \in Seq(Event) /\ Items(Trim(b)) \subseteq Items(slot) \union {e}
  BY <1>2, TrimFacts
<1>7. CASE Persist(p, slot, b) /\ UNCHANGED post
  <2>1. slot' = Trim(b)
    BY <1>7 DEF Persist, Save
  <2>2. \A l \in Post : Items(post'[l]) \intersect {e} = {}
    BY <1>4, <1>7, HeldParts
  <2>3. Apart'
    BY <1>6, <1>7, <2>1, <2>2, SlotApart DEF CopiesInv
  <2> QED BY <2>3, <1>5 DEF CopiesInv
<1>8. CASE /\ \E c \in Call : StartPost(p, c, Trim(b))
           /\ \E first \in Save(slot, b) : slot' \in Save(first, <<>>)
  <2>1. PICK c \in Call : StartPost(p, c, Trim(b))
    BY <1>8
  <2>2. /\ post'[<<p, c>>] = Trim(b)
        /\ \A k \in Post \ {<<p, c>>} : post'[k] = post[k]
    BY <2>1, <1>6, StartPostType DEF Inv
  <2>3. slot' = <<>>
    BY <1>8, MaxStoredAssumption DEF Save, Trim, Excess
  <2>4. Items(slot') = {}
    BY <2>3, ItemsFacts
  <2>5. <<p, c>> \in Post
    BY DEF Post
  <2>6. {e} \intersect Held = {} /\ Items(post'[<<p, c>>]) \subseteq Items(slot) \union {e}
    BY <1>4, <1>6, <2>2
  <2>7. Apart'
    BY <2>2, <2>4, <2>5, <2>6, PostApart DEF CopiesInv
  <2> QED BY <2>7, <1>5 DEF CopiesInv
<1> QED BY <1>7, <1>8 DEF Push, b

LEMMA SentCopies ==
  ASSUME Inv, LossInv, CopiesInv, SaveOutcome = {TRUE}, OnePage, Quiet,
         NEW p \in Page, alive[p],
         NEW c \in Call, StartPost(p, c, buffer[p]), Persist(p, slot, <<>>),
         UNCHANGED <<netVars, suspect>>
  PROVE  CopiesInv'
<1>1. buffer[p] \in Seq(Event) /\ buffer[p] = slot
  BY DEF LossInv, Mirrored, Inv, TypeOK
<1>2. /\ post'[<<p, c>>] = slot
      /\ \A k \in Post \ {<<p, c>>} : post'[k] = post[k]
  BY <1>1, StartPostType DEF Inv
<1>3. slot' = <<>>
  BY MaxStoredAssumption DEF Persist, Save, Trim, Excess
<1>4. Items(slot') = {} /\ <<p, c>> \in Post
  BY <1>3, ItemsFacts DEF Post
<1>5. Apart'
  <2>1. {} \intersect Held = {}
    OBVIOUS
  <2> QED BY <1>2, <1>4, <2>1, PostApart DEF CopiesInv
<1> QED BY <1>5, NothingReceived DEF CopiesInv

LEMMA FlushCopies ==
  ASSUME Inv, LossInv, CopiesInv, SaveOutcome = {TRUE}, OnePage,
         NEW p \in Page, Flush(p)
  PROVE  CopiesInv'
BY SentCopies, FlushQuiet DEF Flush

LEMMA BeaconCopies ==
  ASSUME Inv, LossInv, CopiesInv, SaveOutcome = {TRUE}, OnePage,
         NEW p \in Page, Beacon(p)
  PROVE  CopiesInv'
<1>1. /\ buffer[p] \in Seq(Event) /\ buffer[p] = slot /\ slot \in Seq(Event)
      /\ alive[p] /\ UNCHANGED <<post, suspect>>
  BY DEF Beacon, LossInv, Mirrored, Inv, TypeOK
<1>2. Quiet
  BY BeaconQuiet
<1>3. CASE Persist(p, slot, <<>>)
  <2>1. slot' = <<>>
    BY <1>3, MaxStoredAssumption DEF Persist, Save, Trim, Excess
  <2>2. Items(slot') = {}
    BY <2>1, ItemsFacts
  <2>3. Apart'
    BY <1>1, <2>2, SlotShrinks DEF CopiesInv
  <2>4. buffer' = [q \in Page |-> <<>>]
    <3>1. Trim(<<>>) = <<>>
      BY MaxStoredAssumption DEF Trim, Excess
    <3>2. buffer' = [buffer EXCEPT ![p] = <<>>]
      BY <1>3, <3>1 DEF Persist
    <3> QED BY <3>2 DEF OnePage, Inv, TypeOK
  <2>5. Held' \intersect Items(slot) = {}
    <3> DEFINE H == UNION {Items(post[l]) : l \in Post}
    <3>1. \A q \in Page : Items(buffer'[q]) = {}
      BY <2>4, ItemsFacts
    <3>2. \A l \in Post : Items(post'[l]) \subseteq H
      BY <1>1
    <3>3. H \intersect Items(slot) = {}
      BY DEF CopiesInv, Apart
    <3> HIDE DEF H
    <3>4. Held' \subseteq H
      BY <2>2, <3>1, <3>2, HeldAfter
    <3> QED BY <3>3, <3>4
  <2>6. CASE Receive(Items(buffer[p]))
    BY <1>1, <1>2, <2>3, <2>5, <2>6, CopiesStep, HeldParts DEF CopiesInv
  <2>7. CASE UNCHANGED netVars
    BY <1>1, <1>2, <2>3, <2>7, NothingReceived DEF CopiesInv
  <2>8. Receive(Items(buffer[p])) \/ UNCHANGED netVars
    BY DEF Beacon
  <2> QED BY <2>6, <2>7, <2>8
<1>4. CASE /\ \E first \in Save(slot, <<>>) : Persist(p, first, buffer[p])
           /\ UNCHANGED netVars
  <2>1. slot' = Trim(slot)
    BY <1>1, <1>4 DEF Persist, Save
  <2>2. Items(slot') \subseteq Items(slot)
    BY <1>1, <2>1, TrimFacts
  <2>3. Apart'
    BY <1>1, <2>2, SlotShrinks DEF CopiesInv
  <2> QED BY <1>1, <1>2, <1>4, <2>3, NothingReceived DEF CopiesInv
<1> QED BY <1>3, <1>4 DEF Beacon

LEMMA ShutdownCopies ==
  ASSUME Inv, LossInv, CopiesInv, SaveOutcome = {TRUE}, OnePage,
         NEW p \in Page, Shutdown(p)
  PROVE  CopiesInv'
<1>1. Quiet
  BY ShutdownQuiet
<1>2. CASE Beacon(p)
  BY <1>2, BeaconCopies
<1>3. CASE /\ \E c \in Call : StartPost(p, c, buffer[p])
           /\ Persist(p, slot, <<>>)
           /\ UNCHANGED <<alive, closures, netVars, pushed, rejected,
                          interrupted, suspect>>
  BY <1>1, <1>3, SentCopies DEF Shutdown
<1>4. CASE UNCHANGED <<slot, buffer, post, alive, closures, netVars, pushed,
                       fateVars>>
  <2>1. UNCHANGED <<netVars, suspect>>
    BY <1>4 DEF fateVars
  <2>2. Apart'
    BY <1>4, SlotShrinks DEF CopiesInv
  <2> QED BY <1>1, <2>1, <2>2, NothingReceived DEF CopiesInv
<1> QED BY <1>2, <1>3, <1>4 DEF Shutdown

LEMMA FetchEndsCopies ==
  ASSUME Inv, LossInv, CopiesInv, SaveOutcome = {TRUE}, OnePage,
         NEW p \in Page, NEW c \in Call, FetchEnds(p, c)
  PROVE  CopiesInv'
<1> DEFINE me == <<p, c>>
<1>1. Quiet
  BY FetchEndsQuiet
<1>2. /\ me \in Post /\ post[me] # <<>> /\ post[me] \in Seq(Event)
      /\ buffer[p] \in Seq(Event) /\ slot \in Seq(Event)
  BY DEF FetchEnds, FetchOk, FetchRejected, FetchFailed, Inv, TypeOK, Post
<1>3. alive[p] /\ buffer[p] = slot
  BY <1>2 DEF LossInv, Mirrored
<1>4. /\ post'[me] = <<>>
      /\ \A l \in Post \ {me} : post'[l] = post[l]
  BY <1>2 DEF FetchEnds, FetchOk, FetchRejected, FetchFailed, EndPost, Inv, TypeOK
<1> HIDE DEF me
<1>5. /\ Items(post'[me]) = {}
      /\ \A l \in Post : Items(post'[l]) \subseteq Items(post[l])
      /\ \A l \in Post : Items(post'[l]) \intersect Items(post[me]) = {}
  <2>1. Items(post'[me]) = {}
    BY <1>4, ItemsFacts
  <2> QED BY <1>2, <1>4, <2>1 DEF CopiesInv, Apart
<1>6. CASE FetchOk(p, c)
  <2>1. Apart'
    BY <1>5, <1>6, SlotShrinks DEF FetchOk, CopiesInv
  <2>2. Held' \intersect Items(post[me]) = {}
    <3>1. \A q \in Page : buffer'[q] = slot
      BY <1>3, <1>6 DEF FetchOk, OnePage
    <3>2. Items(slot) \intersect Items(post[me]) = {}
      BY <1>2 DEF CopiesInv, Apart
    <3> DEFINE H == Held \ Items(post[me])
    <3>3. /\ \A l \in Post : Items(post'[l]) \subseteq H
          /\ Items(slot) \subseteq H
      BY <1>5, <3>2, HeldParts
    <3>4. slot' = slot
      BY <1>6 DEF FetchOk
    <3> HIDE DEF H
    <3>5. Held' \subseteq H
      BY <3>1, <3>3, <3>4, HeldAfter
    <3> QED BY <3>5 DEF H
  <2>3. Receive(Items(post[me])) /\ suspect' = suspect
    BY <1>6 DEF FetchOk, fateVars, me
  <2>4. Items(post[me]) \in SUBSET Held
    BY <1>2, HeldParts
  <2> QED BY <1>1, <2>1, <2>2, <2>3, <2>4, CopiesStep DEF CopiesInv
<1>7. CASE FetchRejected(p, c)
  <2>1. Apart'
    BY <1>5, <1>7, SlotShrinks DEF FetchRejected, CopiesInv
  <2> QED BY <1>1, <1>7, <2>1, NothingReceived DEF FetchRejected, CopiesInv
<1>8. CASE FetchFailed(p, c)
  <2> DEFINE b == post[me] \o buffer[p]
  <2>1. b \in Seq(Event) /\ Items(b) = Items(post[me]) \union Items(slot)
    BY <1>2, <1>3, ItemsFacts
  <2> HIDE DEF b
  <2>2. slot' = Trim(b)
    BY <1>8 DEF FetchFailed, Persist, Save, b, me
  <2>3. Items(slot') \subseteq Items(slot) \union Items(post[me])
    BY <2>1, <2>2, TrimFacts
  <2>4. Apart'
    BY <1>5, <2>3, SlotApart DEF CopiesInv
  <2>5. CASE Receive(Items(post[me])) /\ suspect' = suspect \union Items(post[me])
    <3>1. Items(post[me]) \in SUBSET Held
      BY <1>2, HeldParts
    <3> QED BY <1>1, <2>4, <2>5, <3>1, CopiesStep DEF CopiesInv
  <2>6. CASE UNCHANGED <<netVars, suspect>>
    BY <1>1, <2>4, <2>6, NothingReceived DEF CopiesInv
  <2> QED BY <1>8, <2>5, <2>6 DEF FetchFailed, me
<1> QED BY <1>6, <1>7, <1>8 DEF FetchEnds

LEMMA ClosePageCopies ==
  ASSUME Inv, CopiesInv, OnePage, NEW p \in Page, ClosePage(p)
  PROVE  CopiesInv'
<1>1. Quiet
  BY ClosePageQuiet
<1>2. \A l \in Post : post'[l] = <<>>
  BY DEF ClosePage, OnePage, Post
<1>3. /\ \A q \in Page : buffer'[q] = <<>>
      /\ slot' = slot /\ suspect' = suspect
  BY DEF ClosePage, OnePage, Inv, TypeOK
<1>4. Apart'
  BY <1>2, <1>3, ItemsFacts, SlotShrinks DEF CopiesInv
<1>5. Held' \subseteq Items(slot)
  BY <1>2, <1>3, ItemsFacts, HeldAfter
<1>6. PICK landed \in SUBSET Call :
        Receive(UNION {Items(post[<<p, c>>]) : c \in landed})
  BY DEF ClosePage
<1> DEFINE got == UNION {Items(post[<<p, c>>]) : c \in landed}
<1>7. \A c \in landed : <<p, c>> \in Post
  BY DEF Post
<1>8. got \subseteq Held
  <2>1. \A c \in landed : Items(post[<<p, c>>]) \subseteq Held
    BY <1>7, HeldParts
  <2> QED BY <2>1
<1>9. Held' \intersect got = {}
  <2>1. \A c \in landed : Items(post[<<p, c>>]) \intersect Items(slot) = {}
    BY <1>7 DEF CopiesInv, Apart
  <2> QED BY <2>1, <1>5
<1>10. Receive(got)
  BY <1>6
<1> HIDE DEF got
<1>11. got \in SUBSET Held /\ suspect \subseteq suspect'
       /\ Held' \intersect got \subseteq suspect'
  BY <1>3, <1>8, <1>9
<1> QED BY <1>1, <1>4, <1>10, <1>11, CopiesStep DEF CopiesInv

LEMMA OpenPageCopies ==
  ASSUME Inv, CopiesInv, NEW p \in Page, OpenPage(p)
  PROVE  CopiesInv'
<1>1. Apart'
  BY SlotShrinks DEF OpenPage, CopiesInv
<1>2. UNCHANGED <<netVars, suspect>>
  BY DEF OpenPage, fateVars
<1> QED BY <1>1, <1>2, OpenPageQuiet, NothingReceived DEF CopiesInv

LEMMA InitCopies == Init => CopiesInv
<1> SUFFICES ASSUME Init PROVE CopiesInv
  OBVIOUS
<1>1. Apart
  BY ItemsFacts DEF Init, Apart
<1> QED BY <1>1 DEF Init, CopiesInv, HeldIsSuspect, DuplicatesExplained

LEMMA NextCopies ==
  ASSUME Inv, Known, LossInv, CopiesInv, SaveOutcome = {TRUE}, OnePage, [Next]_vars
  PROVE  CopiesInv'
<1>1. CASE UNCHANGED vars
  <2>1. UNCHANGED <<slot, buffer, post, pushed, netVars, suspect>>
    BY <1>1 DEF vars, fateVars
  <2>2. Apart'
    BY <2>1, SlotShrinks DEF CopiesInv
  <2>3. Held' \subseteq Held
    BY <2>1, HeldParts, HeldAfter
  <2>4. Quiet
    BY <2>1, <2>3 DEF Quiet, netVars
  <2> QED BY <2>1, <2>2, <2>4, NothingReceived DEF CopiesInv
<1>2. ASSUME NEW p \in Page, NEW e \in Event, Push(p, e) PROVE CopiesInv'
  BY <1>2, PushCopies
<1>3. ASSUME NEW p \in Page, Flush(p) \/ Unload(p) PROVE CopiesInv'
  BY <1>3, FlushCopies, BeaconCopies DEF Unload
<1>4. ASSUME NEW p \in Page, Shutdown(p) PROVE CopiesInv'
  BY <1>4, ShutdownCopies
<1>5. ASSUME NEW p \in Page, NEW c \in Call, FetchEnds(p, c) PROVE CopiesInv'
  BY <1>5, FetchEndsCopies
<1>6. ASSUME NEW p \in Page, ClosePage(p) PROVE CopiesInv'
  BY <1>6, ClosePageCopies
<1>7. ASSUME NEW p \in Page, OpenPage(p) PROVE CopiesInv'
  BY <1>7, OpenPageCopies
<1> QED BY <1>1, <1>2, <1>3, <1>4, <1>5, <1>6, <1>7 DEF Next

(* Across any number of flushes, failures and reloads of the page, the     *)
(* server gets a second copy of an event only when a POST that had reached *)
(* it looked like a network error and was put back (transport.ts:133).     *)
THEOREM CopiesHaveACause ==
  ASSUME SaveOutcome = {TRUE}, OnePage
  PROVE  Spec => []DuplicatesExplained
<1>1. Spec => []Inv
  BY InitInv, NextInv, PTL DEF Spec
<1>2. Spec => [](Inv /\ Known)
  BY <1>1, InitKnown, NextKnown, PTL DEF Spec
<1>3. Inv /\ LossInv /\ [Next]_vars => LossInv'
  BY NextLoss
<1>4. Spec => [](Inv /\ Known /\ LossInv)
  BY <1>2, <1>3, InitLoss, PTL DEF Spec
<1>5. Inv /\ Known /\ LossInv /\ CopiesInv /\ [Next]_vars => CopiesInv'
  BY NextCopies
<1>6. CopiesInv => DuplicatesExplained
  BY DEF CopiesInv
<1> QED BY <1>4, <1>5, <1>6, InitCopies, PTL DEF Spec
=============================================================================
