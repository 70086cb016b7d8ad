------------------------- MODULE CatchClient_proofs -------------------------
(***************************************************************************)
(* For any number of lives of the Catch client on a page, with any ring,   *)
(* any handshakes and a host that wraps console.error when it likes:       *)
(* scopes follow the calls, an event carries the last crumbs, a shutdown   *)
(* leaves console.error as it was found, and one error makes one event.    *)
(***************************************************************************)
EXTENDS CatchClient, FiniteSetTheorems, SequenceTheorems, TLAPS

Wrapped == Seq(Layer) \union {NotInstalled}

Client == [enabled : BOOLEAN, rate : {"none", "some", "all"}, capacity : Nat,
           crumbs : Seq(Nat), pushed : Nat, least : Nat]

TypeInv ==
  /\ lives \in 0 .. MaxLives /\ up \in 0 .. lives
  /\ client \in [Life -> Client]
  /\ chain \in Seq(Layer)
  /\ saved \in [Life -> [crumbs : Wrapped, capture : Wrapped]]
  /\ hostSaved \in Wrapped
  /\ meddled \in BOOLEAN /\ revived \in BOOLEAN
  /\ found \in Seq(Layer)

(* The innermost scope is that of the innermost function.                  *)
ScopesInv == stack = running /\ running \in Seq(Nat)

(* A layer of the host is of no life, one of the SDK is of one of the      *)
(* first n lives, and is in a function at most once.                       *)
Sound(c, n) ==
  /\ \A k \in DOMAIN c : c[k].life <= n /\ (c[k].by = "host" <=> c[k].life = 0)
  /\ \A j, k \in DOMAIN c : c[j] = c[k] /\ c[j].by # "host" => j = k

Remembered(c, n) == c # NotInstalled => Sound(c, n)

LayersInv ==
  /\ Sound(chain, lives)
  /\ Remembered(hostSaved, lives)
  /\ \A l \in Life : /\ Remembered(saved[l].crumbs, lives)
                     /\ Remembered(saved[l].capture, lives)

(* The numbers up to that of the last crumb.                               *)
Consecutive(r, last) == \A k \in 1 .. Len(r) : r[k] = last - Len(r) + k

(* The ring of a life holds the last crumbs, all that fit.                 *)
Ring(c) ==
  /\ 0 < c.capacity /\ c.least <= c.capacity
  /\ Len(c.crumbs) <= c.capacity /\ Len(c.crumbs) <= c.pushed
  /\ Consecutive(c.crumbs, c.pushed)
  /\ Len(c.crumbs) >= IF c.pushed < c.least THEN c.pushed ELSE c.least

RingInv == \A l \in Life : Ring(client[l])

(* What the live wrappers will put back, as long as the host stays away.   *)
Hooked(crumbs) ==
  IF crumbs = NotInstalled THEN found ELSE Append(found, CrumbLayer(up))

HookedInv ==
  ~meddled =>
    IF up = 0 THEN chain = found
    ELSE LET s == saved[up] IN
         /\ s.crumbs \in {found, NotInstalled}
         /\ s.capture \in {Hooked(s.crumbs), NotInstalled}
         /\ chain = IF s.capture = NotInstalled THEN Hooked(s.crumbs)
                    ELSE Append(Hooked(s.crumbs), CaptureLayer(up))

Bare(c) == \A k \in DOMAIN c : c[k].life = 0

(* What a shutdown puts back, or leaves, has no layer of the SDK.          *)
Cleans ==
  LET s == saved[up]
  IN CASE s.crumbs # NotInstalled -> Bare(s.crumbs)
       [] s.crumbs = NotInstalled /\ s.capture # NotInstalled -> Bare(s.capture)
       [] OTHER -> /\ Bare(chain)
                   /\ hostSaved # NotInstalled =>
                        \A k \in DOMAIN hostSaved : hostSaved[k].life # up

OwnInv ==
  ~revived =>
    /\ \A k \in DOMAIN chain : chain[k].life \in {0, up}
    /\ up # 0 => Cleans
-----------------------------------------------------------------------------
(* Sequences *)

LEMMA Appending ==
  ASSUME NEW S, NEW s \in Seq(S), NEW e \in S
  PROVE  /\ Append(s, e) \in Seq(S)
         /\ Len(Append(s, e)) = Len(s) + 1 /\ DOMAIN Append(s, e) = 1 .. Len(s) + 1
         /\ DOMAIN s = 1 .. Len(s) /\ Len(s) \in Nat
         /\ \A k \in 1 .. Len(s) : Append(s, e)[k] = s[k]
         /\ Append(s, e)[Len(s) + 1] = e
  OBVIOUS

-----------------------------------------------------------------------------
(* The breadcrumb ring *)

LEMMA Longer ==
  ASSUME NEW r \in Seq(Nat), NEW p \in Nat, Consecutive(r, p),
         NEW long, long = Append(r, p + 1)
  PROVE  long \in Seq(Nat) /\ Len(long) = Len(r) + 1 /\ Consecutive(long, p + 1)
<1>1. /\ long \in Seq(Nat) /\ Len(long) = Len(r) + 1 /\ Len(r) \in Nat
      /\ \A k \in 1 .. Len(r) : long[k] = r[k]
      /\ long[Len(r) + 1] = p + 1
  BY Appending
<1>2. \A k \in 1 .. Len(r) : r[k] = p - Len(r) + k
  BY DEF Consecutive
<1>3. ASSUME NEW k \in 1 .. Len(r) + 1 PROVE long[k] = (p + 1) - (Len(r) + 1) + k
  <2>1. CASE k = Len(r) + 1
    BY <1>1, <2>1
  <2>2. CASE k # Len(r) + 1
    <3>1. k \in 1 .. Len(r)
      BY <1>1, <2>2
    <3>2. long[k] = p - Len(r) + k
      BY <1>1, <1>2, <3>1
    <3>3. p - Len(r) + k = (p + 1) - (Len(r) + 1) + k
      BY <1>1
    <3> QED BY <3>2, <3>3
  <2> QED BY <2>1, <2>2
<1> QED BY <1>1, <1>3 DEF Consecutive

LEMMA Shorter ==
  ASSUME NEW r \in Seq(Nat), NEW p \in Nat, Consecutive(r, p),
         NEW extra \in Nat, extra <= Len(r),
         NEW rest, rest = SubSeq(r, extra + 1, Len(r))
  PROVE  rest \in Seq(Nat) /\ Len(rest) = Len(r) - extra /\ Consecutive(rest, p)
<1> DEFINE n == Len(r)
<1>1. n \in Nat
  OBVIOUS
<1>2. \A k \in extra + 1 .. n : r[k] \in Nat
  BY <1>1
<1>3. /\ rest \in Seq(Nat)
      /\ Len(rest) = IF extra + 1 <= n THEN n - (extra + 1) + 1 ELSE 0
      /\ \A k \in 1 .. n - (extra + 1) + 1 : rest[k] = r[extra + 1 + k - 1]
  BY <1>1, <1>2, SubSeqProperties
<1>4. Len(rest) = n - extra
  BY <1>1, <1>3
<1>5. \A k \in 1 .. n : r[k] = p - n + k
  BY DEF Consecutive
<1>6. ASSUME NEW k \in 1 .. n - extra PROVE rest[k] = p - (n - extra) + k
  <2>1. extra + k \in 1 .. n /\ extra + 1 + k - 1 = extra + k
        /\ n - (extra + 1) + 1 = n - extra
    BY <1>1
  <2>2. rest[k] = r[extra + k]
    BY <1>3, <2>1
  <2>3. r[extra + k] = p - n + (extra + k)
    BY <1>5, <2>1
  <2>4. p - n + (extra + k) = p - (n - extra) + k
    BY <1>1
  <2> QED BY <2>2, <2>3, <2>4
<1> QED BY <1>3, <1>4, <1>6 DEF Consecutive

LEMMA ClientIs ==
  ASSUME NEW c \in Client
  PROVE  /\ c.crumbs \in Seq(Nat) /\ c.pushed \in Nat /\ c.capacity \in Nat
         /\ c.least \in Nat /\ Len(c.crumbs) \in Nat
  BY DEF Client

LEMMA RingIs ==
  ASSUME NEW c, Ring(c)
  PROVE  /\ 0 < c.capacity /\ c.least <= c.capacity
         /\ Len(c.crumbs) <= c.capacity /\ Len(c.crumbs) <= c.pushed
         /\ Consecutive(c.crumbs, c.pushed)
         /\ Len(c.crumbs) >= IF c.pushed < c.least THEN c.pushed ELSE c.least
  BY DEF Ring

(* A crumb goes in, and a full ring loses its oldest.                      *)
LEMMA Pushing ==
  ASSUME NEW c \in Client, Ring(c)
  PROVE  Pushed(c) \in Client /\ Ring(Pushed(c))
<1> DEFINE long == Append(c.crumbs, c.pushed + 1)
           ring == IF Len(long) > c.capacity THEN Tail(long) ELSE long
           d == Pushed(c)
<1> USE ClientIs, RingIs
<1>1. /\ long \in Seq(Nat) /\ Len(long) = Len(c.crumbs) + 1
      /\ Consecutive(long, c.pushed + 1)
  BY Longer
<1>2. /\ d.enabled = c.enabled /\ d.rate = c.rate /\ d.capacity = c.capacity
      /\ d.least = c.least /\ d.pushed = c.pushed + 1 /\ d.crumbs = ring
  BY DEF Client, Pushed
<1>3. ring \in Seq(Nat) => d \in Client
  <2>1. d = [c EXCEPT !.pushed = c.pushed + 1, !.crumbs = ring]
    BY DEF Pushed
  <2>2. c.pushed + 1 \in Nat
    OBVIOUS
  <2> HIDE DEF ring, d
  <2>3. ASSUME NEW p \in Nat, NEW r \in Seq(Nat)
        PROVE  [c EXCEPT !.pushed = p, !.crumbs = r] \in Client
    BY DEF Client
  <2> QED BY <2>1, <2>2, <2>3
<1> HIDE DEF long, d
<1>4. CASE Len(long) > c.capacity
  <2>1. ring = SubSeq(long, 1 + 1, Len(long))
    BY <1>1, <1>4 DEF Tail
  <2> HIDE DEF ring
  <2>2. ring \in Seq(Nat) /\ Len(ring) = Len(long) - 1 /\ Consecutive(ring, c.pushed + 1)
    <3> DEFINE p == c.pushed + 1
    <3>1. p \in Nat /\ 1 \in Nat /\ 1 <= Len(long) /\ Consecutive(long, p)
      BY <1>1
    <3> HIDE DEF p
    <3>2. ring \in Seq(Nat) /\ Len(ring) = Len(long) - 1 /\ Consecutive(ring, p)
      BY <1>1, <2>1, <3>1, Shorter
    <3> QED BY <3>2 DEF p
  <2>3. Len(ring) = Len(c.crumbs) /\ Len(c.crumbs) = c.capacity
    BY <1>1, <1>4, <2>2
  <2>4. d \in Client
    BY <1>3, <2>2
  <2>5. Ring(d)
    BY <1>2, <2>2, <2>3 DEF Ring
  <2> QED BY <2>4, <2>5 DEF d
<1>5. CASE ~(Len(long) > c.capacity)
  <2>1. ring = long
    BY <1>5
  <2> HIDE DEF ring
  <2>2. d \in Client
    BY <1>1, <1>3, <2>1
  <2>3. Len(ring) <= d.capacity /\ Len(ring) <= d.pushed
    BY <1>1, <1>2, <1>5, <2>1
  <2>4. Len(ring) >= IF d.pushed < d.least THEN d.pushed ELSE d.least
    BY <1>1, <1>2, <2>1
  <2>5. Consecutive(ring, d.pushed)
    BY <1>1, <1>2, <2>1
  <2>6. Ring(d)
    BY <1>2, <2>3, <2>4, <2>5 DEF Ring
  <2> QED BY <2>2, <2>6 DEF d
<1> QED BY <1>4, <1>5

(* The oldest go until the rest fits a ring of another size.               *)
LEMMA Resizing ==
  ASSUME NEW c \in Client, Ring(c), NEW size \in Int
  PROVE  Resized(c, size) \in Client /\ Ring(Resized(c, size))
<1> DEFINE n == Len(c.crumbs)
           capacity == IF size > Floor THEN size ELSE Floor
           extra == IF n > capacity THEN n - capacity ELSE 0
           ring == SubSeq(c.crumbs, extra + 1, n)
           least == IF capacity < c.least THEN capacity ELSE c.least
           d == Resized(c, size)
<1> USE ClientIs, RingIs
<1>1. capacity \in Nat /\ capacity > 0
  BY RingAssumption
<1>2. /\ d.enabled = c.enabled /\ d.rate = c.rate /\ d.capacity = capacity
      /\ d.least = least /\ d.pushed = c.pushed /\ d.crumbs = ring
  BY DEF Client, Resized
<1>3. d = [c EXCEPT !.capacity = capacity, !.crumbs = ring, !.least = least]
  BY DEF Client, Resized
<1> HIDE DEF capacity, d
<1>4. extra \in Nat /\ extra <= n /\ n - extra <= capacity
      /\ (n - extra = n \/ n - extra = capacity)
  <2>1. n \in Nat
    OBVIOUS
  <2> HIDE DEF n
  <2>2. CASE n > capacity
    BY <1>1, <2>1, <2>2
  <2>3. CASE ~(n > capacity)
    BY <1>1, <2>1, <2>3
  <2> QED BY <2>2, <2>3
<1>5. least \in Nat /\ least <= capacity /\ least <= c.least
  BY <1>1
<1> HIDE DEF extra, least
<1>6. ring \in Seq(Nat) /\ Len(ring) = n - extra /\ Consecutive(ring, c.pushed)
  BY <1>4, Shorter
<1> HIDE DEF ring
<1>7. d \in Client
  BY <1>1, <1>3, <1>5, <1>6 DEF Client
<1>8. n - extra >= IF c.pushed < least THEN c.pushed ELSE least
  BY <1>1, <1>4, <1>5
<1>9. Ring(d)
  BY <1>1, <1>2, <1>4, <1>5, <1>6, <1>8 DEF Ring
<1> QED BY <1>7, <1>9 DEF d

(* A handshake.                                                            *)
LEMMA Applying ==
  ASSUME NEW c \in Client, Ring(c), NEW enabled \in BOOLEAN,
         NEW rate \in Rates \union {None}, NEW size \in Sizes \union {None}
  PROVE  Applied(c, enabled, rate, size) \in Client /\ Ring(Applied(c, enabled, rate, size))
<1> DEFINE off == [c EXCEPT !.enabled = FALSE]
           sampled == [c EXCEPT !.enabled = TRUE,
                                !.rate = IF rate = None THEN @ ELSE rate]
<1>1. off \in Client /\ sampled \in Client
  BY RatesAssumption DEF Client
<1>2. Ring(off) /\ Ring(sampled)
  BY DEF Client, Ring
<1>3. size # None => size \in Int
  BY RingAssumption
<1>4. size # None => Resized(sampled, size) \in Client /\ Ring(Resized(sampled, size))
  <2> HIDE DEF sampled
  <2> QED BY <1>1, <1>2, <1>3, Resizing
<1> HIDE DEF off, sampled
<1>5. Applied(c, enabled, rate, size)
        = IF ~enabled THEN off
          ELSE IF size = None THEN sampled ELSE Resized(sampled, size)
  BY DEF Applied, off, sampled
<1> QED BY <1>1, <1>2, <1>4, <1>5
-----------------------------------------------------------------------------
(* Types *)

LEMMA LayersAreLayers ==
  ASSUME NEW l \in Life
  PROVE  CrumbLayer(l) \in Layer /\ CaptureLayer(l) \in Layer
  BY LivesAssumption DEF CrumbLayer, CaptureLayer, Layer, Life

(* What a function was is never mistaken for "not replaced".               *)
LEMMA NoFunctionIsNotInstalled == NotInstalled \notin Seq(Layer)
<1>1. SUFFICES ASSUME NotInstalled \in Seq(Layer) PROVE FALSE
  OBVIOUS
<1>2. 1 \in 1 .. Len(NotInstalled) /\ NotInstalled[1] = None
  BY DEF NotInstalled
<1>3. None \in Layer
  BY <1>1, <1>2
<1> QED BY <1>3, NoneAssumption

LEMMA PuttingBack ==
  ASSUME NEW o \in Wrapped, NEW c \in Seq(Layer)
  PROVE  PutBack(o, c) \in Seq(Layer)
  BY DEF PutBack, Wrapped

LEMMA NewIsGood == NewClient \in Client /\ Ring(NewClient)
<1>1. Len(<<>>) = 0 /\ <<>> \in Seq(Nat) /\ Default \in Nat /\ Default > 0
  BY RingAssumption
<1>2. NewClient \in Client
  BY <1>1 DEF NewClient, Client
<1>3. Consecutive(<<>>, 0)
  BY DEF Consecutive
<1> QED BY <1>1, <1>2, <1>3 DEF NewClient, Ring

LEMMA InitType == Init => TypeInv /\ RingInv /\ ScopesInv
<1> SUFFICES ASSUME Init PROVE TypeInv /\ RingInv /\ ScopesInv
  OBVIOUS
<1>1. <<>> \in Seq(Layer) /\ <<>> \in Seq(Nat) /\ NotInstalled \in Wrapped
  BY DEF Wrapped
<1>2. client \in [Life -> Client] /\ RingInv
  BY NewIsGood DEF Init, RingInv
<1>3. lives \in 0 .. MaxLives /\ up \in 0 .. lives
  BY LivesAssumption DEF Init
<1>4. saved \in [Life -> [crumbs : Wrapped, capture : Wrapped]]
  BY <1>1 DEF Init
<1> QED BY <1>1, <1>2, <1>3, <1>4 DEF Init, TypeInv, ScopesInv

LEMMA LivesAreLives ==
  ASSUME TypeInv
  PROVE  1 .. lives \subseteq Life /\ (up # 0 => up \in Life) /\ lives \in Nat
  BY LivesAssumption DEF TypeInv, Life

(* The ring of a life when a layer of the chain runs.                      *)
LEMMA OutsideIsGood ==
  ASSUME TypeInv, RingInv, NEW k, NEW l \in Life
  PROVE  Outside(k, l) \in Client /\ Ring(Outside(k, l))
<1>1. client[l] \in Client /\ Ring(client[l])
  BY DEF TypeInv, RingInv
<1>2. Pushed(client[l]) \in Client /\ Ring(Pushed(client[l]))
  BY <1>1, Pushing
<1> QED BY <1>1, <1>2 DEF Outside

(* What a step does to the clients.                                        *)
LEMMA ClientsStep ==
  ASSUME TypeInv, RingInv, [Next]_vars
  PROVE  client' \in [Life -> Client] /\ RingInv'
<1> USE LivesAreLives
<1> DEFINE Good == client' \in [Life -> Client] /\ RingInv'
<1>0. ASSUME UNCHANGED client PROVE Good
  BY <1>0 DEF TypeInv, RingInv
<1>1. ASSUME NEW l \in Life, NEW d \in Client, Ring(d),
             client' = [client EXCEPT ![l] = d]
      PROVE  Good
  BY <1>1 DEF TypeInv, RingInv
<1>2. ASSUME NEW l \in Life, Crumb(l) PROVE Good
  <2> DEFINE d == Pushed(client[l])
  <2>1. client[l] \in Client /\ Ring(client[l])
    BY DEF TypeInv, RingInv
  <2>2. d \in Client /\ Ring(d)
    BY <2>1, Pushing
  <2>3. client' = [client EXCEPT ![l] = d]
    BY <1>2 DEF Crumb
  <2> HIDE DEF d, Good
  <2> QED BY <1>1, <2>2, <2>3
<1>3. ASSUME ConsoleError PROVE Good
  <2>1. client' = [l \in Life |-> Outside(0, l)]
    BY <1>3 DEF ConsoleError
  <2> QED BY <2>1, OutsideIsGood DEF RingInv
<1>4. ASSUME NEW enabled \in BOOLEAN, NEW rate \in Rates \union {None},
             NEW size \in Sizes \union {None}, Handshake(enabled, rate, size)
      PROVE  Good
  <2> DEFINE d == Applied(client[up], enabled, rate, size)
  <2>1. up \in Life /\ client' = [client EXCEPT ![up] = d]
    BY <1>4 DEF Handshake
  <2>2. client[up] \in Client /\ Ring(client[up])
    BY <2>1 DEF TypeInv, RingInv
  <2>3. d \in Client /\ Ring(d)
    BY <2>2, Applying
  <2> HIDE DEF d, Good
  <2> QED BY <1>1, <2>1, <2>3
<1>5. ASSUME \/ \E l \in Life : HostCaptures(l)
             \/ Uncaught \/ EnterScope
             \/ \E throws \in BOOLEAN : LeaveScope(throws)
             \/ \E a, b \in BOOLEAN : Setup(a, b)
             \/ Shutdown \/ HostWraps \/ HostUnwraps
             \/ UNCHANGED vars
      PROVE  UNCHANGED client
  BY <1>5 DEF HostCaptures, Uncaught, EnterScope, LeaveScope, Setup, Shutdown,
       HostWraps, HostUnwraps, vars, clientVars
<1> HIDE DEF Good
<1>6. Good
  BY <1>0, <1>2, <1>3, <1>4, <1>5 DEF Next
<1> QED BY <1>6 DEF Good

LEMMA SetupIs ==
  ASSUME TypeInv, NEW a \in BOOLEAN, NEW b \in BOOLEAN, Setup(a, b)
  PROVE  /\ lives + 1 \in Life /\ lives' = lives + 1 /\ up' = lives + 1
         /\ saved' = [saved EXCEPT ![lives + 1] =
               [crumbs |-> IF a THEN chain ELSE NotInstalled,
                capture |-> IF b THEN IF a THEN Append(chain, CrumbLayer(lives + 1))
                                     ELSE chain
                            ELSE NotInstalled]]
         /\ a /\ b => chain' = Append(Append(chain, CrumbLayer(lives + 1)),
                                      CaptureLayer(lives + 1))
         /\ a /\ ~b => chain' = Append(chain, CrumbLayer(lives + 1))
         /\ ~a /\ b => chain' = Append(chain, CaptureLayer(lives + 1))
         /\ ~a /\ ~b => chain' = chain
         /\ found' = chain /\ meddled' = FALSE /\ up = 0
         /\ UNCHANGED <<client, stack, running, hostSaved, revived>>
<1>1. lives + 1 \in Life
  BY LivesAssumption DEF TypeInv, Setup, Life
<1> QED BY <1>1 DEF Setup, scopeVars

(* The steps that touch neither the chain nor the lives.                   *)
LEMMA PageStep ==
  ASSUME [Next]_vars
  PROVE  \/ UNCHANGED <<lives, up, pageVars, historyVars>>
         \/ \E a, b \in BOOLEAN : Setup(a, b)
         \/ Shutdown \/ HostWraps \/ HostUnwraps
  BY DEF Next, HostCaptures, Uncaught, Crumb, ConsoleError, EnterScope,
     LeaveScope, Handshake, vars, clientVars

LEMMA SameType ==
  ASSUME TypeInv, client' \in [Life -> Client],
         UNCHANGED <<lives, up, pageVars, historyVars>>
  PROVE  TypeInv'
  BY DEF TypeInv, pageVars, historyVars

LEMMA SetupType ==
  ASSUME TypeInv, NEW a \in BOOLEAN, NEW b \in BOOLEAN, Setup(a, b)
  PROVE  TypeInv'
<1> DEFINE l == lives + 1
           crumbs == IF a THEN chain ELSE NotInstalled
           hooked == IF a THEN Append(chain, CrumbLayer(l)) ELSE chain
           capture == IF b THEN hooked ELSE NotInstalled
<1>1. /\ l \in Life /\ lives' = l /\ up' = l
      /\ saved' = [saved EXCEPT ![l] = [crumbs |-> crumbs, capture |-> capture]]
      /\ a /\ b => chain' = Append(Append(chain, CrumbLayer(l)), CaptureLayer(l))
      /\ a /\ ~b => chain' = Append(chain, CrumbLayer(l))
      /\ ~a /\ b => chain' = Append(chain, CaptureLayer(l))
      /\ ~a /\ ~b => chain' = chain
      /\ found' = chain /\ meddled' = FALSE
      /\ UNCHANGED <<client, hostSaved, revived>>
  BY SetupIs
<1>2. CrumbLayer(l) \in Layer /\ CaptureLayer(l) \in Layer
  BY <1>1, LayersAreLayers
<1>3. chain \in Seq(Layer)
  BY DEF TypeInv
<1>4. Append(chain, CrumbLayer(l)) \in Seq(Layer)
  BY <1>2, <1>3, Appending
<1>5. hooked \in Seq(Layer) /\ crumbs \in Wrapped /\ capture \in Wrapped
  BY <1>3, <1>4 DEF Wrapped
<1>6. /\ Append(Append(chain, CrumbLayer(l)), CaptureLayer(l)) \in Seq(Layer)
      /\ Append(chain, CaptureLayer(l)) \in Seq(Layer)
  BY <1>2, <1>3, <1>4, Appending
<1>7. chain' \in Seq(Layer)
  BY <1>1, <1>3, <1>4, <1>6
<1> HIDE DEF crumbs, capture
<1>8. saved' \in [Life -> [crumbs : Wrapped, capture : Wrapped]]
  BY <1>1, <1>5 DEF TypeInv
<1>9. lives' \in 0 .. MaxLives /\ up' \in 0 .. lives'
  BY <1>1, LivesAssumption DEF TypeInv, Life
<1> QED BY <1>1, <1>3, <1>7, <1>8, <1>9 DEF TypeInv

LEMMA ShutdownIs ==
  ASSUME TypeInv, Shutdown
  PROVE  /\ up \in Life /\ up' = 0 /\ running = <<>>
         /\ saved[up].crumbs \in Wrapped /\ saved[up].capture \in Wrapped
         /\ chain' = IF saved[up].crumbs # NotInstalled THEN saved[up].crumbs
                     ELSE IF saved[up].capture # NotInstalled
                          THEN saved[up].capture ELSE chain
         /\ UNCHANGED <<lives, client, stack, running, saved, hostSaved,
                        found, meddled, revived>>
<1>1. up \in Life
  BY LivesAreLives DEF Shutdown
<1> QED BY <1>1 DEF TypeInv, Shutdown, PutBack, scopeVars, historyVars, Idle

LEMMA HostIs ==
  ASSUME TypeInv, HostWraps \/ HostUnwraps
  PROVE  /\ UNCHANGED <<lives, up, client, saved>>
         /\ found' = (IF up = 0 THEN chain' ELSE found)
         /\ meddled' = (up # 0)
         /\ \/ /\ hostSaved' = chain /\ UNCHANGED revived
               /\ chain' = Append(chain, [by |-> "host", life |-> 0])
            \/ /\ hostSaved # NotInstalled /\ hostSaved \in Seq(Layer)
               /\ chain' = hostSaved /\ hostSaved' = NotInstalled
               /\ revived' = (revived \/ \E k \in DOMAIN hostSaved :
                                           hostSaved[k].life \notin {0, up})
<1>1. hostSaved # NotInstalled => hostSaved \in Seq(Layer)
  BY DEF TypeInv, Wrapped
<1>2. UNCHANGED <<lives, up, client, saved>>
  BY DEF HostWraps, HostUnwraps, clientVars
<1>3. CASE HostWraps
  BY <1>2, <1>3 DEF HostWraps
<1>4. CASE HostUnwraps
  BY <1>1, <1>2, <1>4 DEF HostUnwraps
<1> QED BY <1>3, <1>4

LEMMA StepType ==
  ASSUME TypeInv, RingInv, [Next]_vars PROVE TypeInv'
<1>0. client' \in [Life -> Client]
  BY ClientsStep
<1>1. CASE UNCHANGED <<lives, up, pageVars, historyVars>>
  BY <1>0, <1>1, SameType
<1>2. ASSUME NEW a \in BOOLEAN, NEW b \in BOOLEAN, Setup(a, b) PROVE TypeInv'
  BY <1>2, SetupType
<1>3. CASE Shutdown
  <2>1. chain' \in Seq(Layer)
    BY <1>3, ShutdownIs DEF TypeInv, Wrapped
  <2> QED BY <1>0, <1>3, <2>1, ShutdownIs DEF TypeInv
<1>4. CASE HostWraps \/ HostUnwraps
  <2>1. [by |-> "host", life |-> 0] \in Layer
    BY LivesAssumption DEF Layer
  <2>2. chain' \in Seq(Layer) /\ hostSaved' \in Wrapped
    <3>1. chain \in Seq(Layer)
      BY DEF TypeInv
    <3>2. Append(chain, [by |-> "host", life |-> 0]) \in Seq(Layer)
      BY <2>1, <3>1, Appending
    <3> QED BY <1>4, <3>1, <3>2, HostIs DEF Wrapped
  <2>3. revived' \in BOOLEAN /\ meddled' \in BOOLEAN
    BY <1>4, HostIs DEF TypeInv
  <2>4. found' \in Seq(Layer)
    BY <1>4, <2>2, HostIs DEF TypeInv
  <2> QED BY <1>0, <1>4, <2>2, <2>3, <2>4, HostIs DEF TypeInv
<1> QED BY <1>1, <1>2, <1>3, <1>4, PageStep

(* What always holds of the types and the rings.                           *)
LEMMA AlwaysTyped == Spec => [](TypeInv /\ RingInv)
<1>1. Init => TypeInv /\ RingInv
  BY InitType
<1>2. TypeInv /\ RingInv /\ [Next]_vars => (TypeInv /\ RingInv)'
  BY StepType, ClientsStep
<1> QED BY <1>1, <1>2, PTL DEF Spec

-----------------------------------------------------------------------------
(* Scopes *)

LEMMA StepScopes ==
  ASSUME ScopesInv, [Next]_vars PROVE ScopesInv'
<1>1. \/ UNCHANGED <<stack, running>>
      \/ EnterScope
      \/ \E throws \in BOOLEAN : LeaveScope(throws)
  BY DEF Next, HostCaptures, Uncaught, Crumb, ConsoleError, Handshake, Setup,
     Shutdown, HostWraps, HostUnwraps, vars, scopeVars
<1>2. CASE UNCHANGED <<stack, running>>
  BY <1>2 DEF ScopesInv
<1>3. CASE EnterScope
  <2>1. /\ stack' = Append(stack, Len(running) + 1)
        /\ running' = Append(running, Len(running) + 1)
    BY <1>3 DEF EnterScope
  <2>2. Append(running, Len(running) + 1) \in Seq(Nat)
    BY DEF ScopesInv
  <2> QED BY <2>1, <2>2 DEF ScopesInv
<1>4. ASSUME NEW throws \in BOOLEAN, LeaveScope(throws) PROVE ScopesInv'
  <2>1. running # <<>> /\ running' = Front(running) /\ stack' = Front(stack)
    BY <1>4 DEF LeaveScope
  <2>2. Front(running) \in Seq(Nat)
    <3>1. running \in Seq(Nat) /\ Len(running) \in Nat
      BY DEF ScopesInv
    <3>2. \A k \in 1 .. Len(running) - 1 : running[k] \in Nat
      BY <3>1
    <3>3. Len(running) - 1 \in Int /\ 1 \in Int
      BY <3>1
    <3> QED BY <3>2, <3>3, SubSeqProperties DEF Front
  <2> QED BY <2>1, <2>2 DEF ScopesInv
<1> QED BY <1>1, <1>2, <1>3, <1>4

LEMMA AlwaysScoped == Spec => []ScopesInv
<1>1. Init => ScopesInv
  BY InitType
<1>2. ScopesInv /\ [Next]_vars => ScopesInv'
  BY StepScopes
<1> QED BY <1>1, <1>2, PTL DEF Spec

(* The event a capture may hand over.                                      *)
EventOf(c, l, nth) ==
  [life |-> l, nth |-> nth, scope |-> Top(stack), within |-> Top(running),
   crumbs |-> c.crumbs, pushed |-> c.pushed, least |-> c.least]

LEMMA CapturedIs ==
  ASSUME NEW c, NEW l, NEW nth, NEW lucky \in BOOLEAN, NEW kept \in BOOLEAN
  PROVE  Captured(c, l, nth, lucky, kept) \subseteq {EventOf(c, l, nth)}
  BY DEF Captured, EventOf

(* Where the events of a step come from: one capture outside of the chain, *)
(* or the capture layers in it.                                            *)
CaptureLayers == {k \in DOMAIN chain : chain[k].by = "capture"}

LEMMA EventsStep ==
  ASSUME TypeInv, LayersInv, [Next]_vars
  PROVE  \/ UNCHANGED events
         \/ events' = {}
         \/ \E l \in Life : events' \subseteq {EventOf(client[l], l, 1)}
         \/ events' \subseteq {EventOf(Outside(k, chain[k].life), chain[k].life, k) :
                               k \in CaptureLayers}
<1> USE LivesAreLives
<1> DEFINE Goal == \/ UNCHANGED events
                   \/ events' = {}
                   \/ \E l \in Life : events' \subseteq {EventOf(client[l], l, 1)}
                   \/ events' \subseteq
                        {EventOf(Outside(k, chain[k].life), chain[k].life, k) :
                         k \in CaptureLayers}
<1>1. CASE UNCHANGED vars
  BY <1>1 DEF vars
<1>2. ASSUME NEW l \in Life, HostCaptures(l) PROVE Goal
  BY <1>2, CapturedIs DEF HostCaptures
<1>3. ASSUME Uncaught PROVE Goal
  <2>1. up \in Life
    BY <1>3 DEF Uncaught
  <2> QED BY <1>3, <2>1, CapturedIs DEF Uncaught
<1>4. ASSUME ConsoleError PROVE Goal
  <2>1. PICK lucky, kept \in SUBSET CaptureLayers :
          events' = UNION {Captured(Outside(k, chain[k].life), chain[k].life, k,
                                    k \in lucky, k \in kept) : k \in CaptureLayers}
    BY <1>4 DEF ConsoleError, CaptureLayers
  <2>2. ASSUME NEW e \in events'
        PROVE  \E k \in CaptureLayers :
                 e = EventOf(Outside(k, chain[k].life), chain[k].life, k)
    <3>1. PICK k \in CaptureLayers :
            e \in Captured(Outside(k, chain[k].life), chain[k].life, k,
                           k \in lucky, k \in kept)
      BY <2>1
    <3>2. Captured(Outside(k, chain[k].life), chain[k].life, k, k \in lucky, k \in kept)
            \subseteq {EventOf(Outside(k, chain[k].life), chain[k].life, k)}
      BY DEF Captured, EventOf
    <3> QED BY <3>1, <3>2
  <2> QED BY <2>2
<1>5. ASSUME \/ \E l \in Life : Crumb(l)
             \/ EnterScope
             \/ \E throws \in BOOLEAN : LeaveScope(throws)
             \/ \E a, b \in BOOLEAN : Setup(a, b)
             \/ Shutdown \/ HostWraps \/ HostUnwraps
             \/ \E enabled \in BOOLEAN, rate \in Rates \union {None},
                   size \in Sizes \union {None} : Handshake(enabled, rate, size)
      PROVE  events' = {}
  BY <1>5 DEF Crumb, EnterScope, LeaveScope, Setup, Shutdown, HostWraps,
     HostUnwraps, Handshake, Quiet
<1> HIDE DEF Goal
<1>6. Goal
  <2>1. events' = {} => Goal
    BY DEF Goal
  <2>2. UNCHANGED vars => Goal
    BY DEF Goal, vars
  <2> QED BY <1>2, <1>3, <1>4, <1>5, <2>1, <2>2 DEF Next
<1> QED BY <1>6 DEF Goal

-----------------------------------------------------------------------------
(* The layers of console.error *)

LEMMA SoundLater ==
  ASSUME NEW n \in Nat, NEW c \in Wrapped, Remembered(c, n)
  PROVE  Remembered(c, n + 1)
<1> SUFFICES ASSUME c # NotInstalled PROVE Sound(c, n + 1)
  BY DEF Remembered
<1>1. c \in Seq(Layer) /\ Sound(c, n)
  BY DEF Wrapped, Remembered
<1>2. ASSUME NEW k \in DOMAIN c PROVE c[k].life \in Int
  <2>1. c[k] \in Layer
    BY <1>1
  <2> QED BY <2>1, LivesAssumption DEF Layer
<1>3. \A k \in DOMAIN c : c[k].life <= n + 1
  BY <1>1, <1>2 DEF Sound
<1> QED BY <1>1, <1>3 DEF Sound

(* Wrapping it once more, with a layer that is new unless it is the host's.*)
LEMMA SoundWrapped ==
  ASSUME NEW n \in Nat, NEW c \in Seq(Layer), Sound(c, n), NEW e \in Layer,
         e.life <= n, e.by = "host" <=> e.life = 0,
         e.by = "host" \/ \A k \in DOMAIN c : c[k] # e
  PROVE  Sound(Append(c, e), n)
<1> DEFINE d == Append(c, e)
<1>1. /\ DOMAIN d = 1 .. Len(c) + 1 /\ DOMAIN c = 1 .. Len(c) /\ Len(c) \in Nat
      /\ \A k \in 1 .. Len(c) : d[k] = c[k]
      /\ d[Len(c) + 1] = e
  BY Appending
<1> HIDE DEF d
<1>2. ASSUME NEW k \in DOMAIN d
      PROVE  (k \in DOMAIN c /\ d[k] = c[k]) \/ (k = Len(c) + 1 /\ d[k] = e)
  BY <1>1
<1>3. \A k \in DOMAIN d : d[k].life <= n /\ (d[k].by = "host" <=> d[k].life = 0)
  BY <1>2 DEF Sound
<1>4. ASSUME NEW j \in DOMAIN d, NEW k \in DOMAIN d, d[j] = d[k], d[j].by # "host"
      PROVE  j = k
  BY <1>2, <1>4 DEF Sound
<1> QED BY <1>3, <1>4 DEF Sound, d

LEMMA InitLayers == Init => LayersInv
<1>1. ASSUME NEW n PROVE Sound(<<>>, n) /\ Remembered(NotInstalled, n)
  BY DEF Sound, Remembered
<1> QED BY <1>1 DEF Init, LayersInv

LEMMA SameLayers ==
  ASSUME LayersInv, UNCHANGED <<lives, chain, saved, hostSaved>>
  PROVE  LayersInv'
  BY DEF LayersInv

(* A layer of the next life is in no function yet.                         *)
LEMMA NotYet ==
  ASSUME NEW n \in Nat, NEW c \in Seq(Layer), Sound(c, n), NEW k \in DOMAIN c
  PROVE  c[k] # CrumbLayer(n + 1) /\ c[k] # CaptureLayer(n + 1)
<1>1. c[k].life <= n
  BY DEF Sound
<1>2. CrumbLayer(n + 1).life = n + 1 /\ CaptureLayer(n + 1).life = n + 1
  BY DEF CrumbLayer, CaptureLayer
<1>3. ~(n + 1 <= n)
  OBVIOUS
<1> QED BY <1>1, <1>2, <1>3

LEMMA SetupLayers ==
  ASSUME TypeInv, LayersInv, NEW a \in BOOLEAN, NEW b \in BOOLEAN, Setup(a, b)
  PROVE  LayersInv'
<1> DEFINE l == lives + 1
           crumb == CrumbLayer(l)
           capture == CaptureLayer(l)
           hooked == IF a THEN Append(chain, crumb) ELSE chain
           s == [crumbs |-> IF a THEN chain ELSE NotInstalled,
                 capture |-> IF b THEN hooked ELSE NotInstalled]
<1>1. /\ l \in Life /\ lives' = l /\ saved' = [saved EXCEPT ![l] = s]
      /\ chain' = IF b THEN Append(hooked, capture) ELSE hooked
      /\ UNCHANGED hostSaved
  BY SetupIs
<1>2. /\ chain \in Seq(Layer) /\ lives \in Nat /\ hostSaved \in Wrapped
      /\ chain \in Wrapped /\ NotInstalled \in Wrapped
  BY LivesAssumption DEF TypeInv, Wrapped
<1>3. /\ crumb \in Layer /\ capture \in Layer
      /\ crumb.by = "crumbs" /\ capture.by = "capture"
      /\ crumb.life = l /\ capture.life = l /\ l \in Nat /\ l # 0 /\ l <= l
  BY <1>1, <1>2, LayersAreLayers DEF CrumbLayer, CaptureLayer
<1>4. Sound(chain, l)
  <2>1. Remembered(chain, lives)
    BY DEF Remembered, LayersInv
  <2>2. Remembered(chain, lives + 1)
    BY <1>2, <2>1, SoundLater
  <2>3. chain # NotInstalled
    BY <1>2, NoFunctionIsNotInstalled
  <2> QED BY <2>2, <2>3 DEF Remembered
<1>5. \A k \in DOMAIN chain : chain[k] # crumb /\ chain[k] # capture
  BY <1>2, NotYet DEF LayersInv
<1> HIDE DEF l, crumb, capture
<1>6. Sound(Append(chain, crumb), l) /\ Append(chain, crumb) \in Seq(Layer)
  BY <1>2, <1>3, <1>4, <1>5, SoundWrapped, Appending
<1>7. hooked \in Seq(Layer) /\ Sound(hooked, l)
  BY <1>2, <1>4, <1>6
<1>8. \A k \in DOMAIN hooked : hooked[k] # capture
  <2>1. CASE ~a
    BY <1>5, <2>1
  <2>2. CASE a
    <3>1. \A k \in DOMAIN hooked : hooked[k] = crumb \/ \E j \in DOMAIN chain : hooked[k] = chain[j]
      BY <1>2, <1>3, <2>2, Appending
    <3>2. crumb # capture
      BY <1>3
    <3> QED BY <1>5, <3>1, <3>2
  <2> QED BY <2>1, <2>2
<1> HIDE DEF hooked
<1>9. Sound(Append(hooked, capture), l)
  BY <1>3, <1>7, <1>8, SoundWrapped
<1>10. Sound(chain', l)
  BY <1>1, <1>7, <1>9
<1>11. Remembered(hostSaved', l)
  <2>1. Remembered(hostSaved, lives)
    BY DEF LayersInv
  <2> QED BY <1>1, <1>2, <2>1, SoundLater DEF l
<1>12. ASSUME NEW m \in Life
       PROVE  Remembered(saved'[m].crumbs, l) /\ Remembered(saved'[m].capture, l)
  <2>1. CASE m = l
    <3>1. saved'[m] = s
      BY <1>1, <2>1 DEF TypeInv
    <3>2. /\ s.crumbs = NotInstalled \/ s.crumbs = chain
          /\ s.capture = NotInstalled \/ s.capture = hooked
      OBVIOUS
    <3> QED BY <1>4, <1>7, <3>1, <3>2 DEF Remembered
  <2>2. CASE m # l
    <3>1. saved'[m] = saved[m] /\ saved[m].crumbs \in Wrapped /\ saved[m].capture \in Wrapped
      BY <1>1, <2>2 DEF TypeInv
    <3>2. Remembered(saved[m].crumbs, lives) /\ Remembered(saved[m].capture, lives)
      BY DEF LayersInv
    <3>3. Remembered(saved[m].crumbs, l) /\ Remembered(saved[m].capture, l)
      BY <1>2, <3>1, <3>2, SoundLater DEF l
    <3> QED BY <3>1, <3>3
  <2> QED BY <2>1, <2>2
<1> QED BY <1>1, <1>10, <1>11, <1>12 DEF LayersInv

LEMMA StepLayers ==
  ASSUME TypeInv, LayersInv, [Next]_vars PROVE LayersInv'
<1>1. CASE UNCHANGED <<lives, up, pageVars, historyVars>>
  BY <1>1, SameLayers DEF pageVars
<1>2. ASSUME NEW a \in BOOLEAN, NEW b \in BOOLEAN, Setup(a, b) PROVE LayersInv'
  BY <1>2, SetupLayers
<1>3. CASE Shutdown
  <2>1. Sound(chain', lives)
    BY <1>3, ShutdownIs DEF LayersInv, Remembered
  <2> QED BY <1>3, <2>1, ShutdownIs DEF LayersInv
<1>4. CASE HostWraps \/ HostUnwraps
  <2> DEFINE host == [by |-> "host", life |-> 0]
  <2>1. host \in Layer /\ host.by = "host" /\ host.life = 0
    BY LivesAssumption DEF Layer
  <2>2. chain \in Seq(Layer) /\ lives \in Nat /\ Sound(chain, lives) /\ 0 <= lives
    BY LivesAssumption DEF TypeInv, LayersInv
  <2> HIDE DEF host
  <2>3. Sound(Append(chain, host), lives)
    BY <2>1, <2>2, SoundWrapped
  <2>4. Sound(chain', lives) /\ Remembered(hostSaved', lives)
    BY <1>4, <2>2, <2>3, HostIs DEF LayersInv, Remembered, host
  <2> QED BY <1>4, <2>4, HostIs DEF LayersInv
<1> QED BY <1>1, <1>2, <1>3, <1>4, PageStep

LEMMA AlwaysLayered == Spec => []LayersInv
<1>1. Init => LayersInv
  BY InitLayers
<1>2. TypeInv /\ LayersInv /\ [Next]_vars => LayersInv'
  BY StepLayers
<1> QED BY <1>1, <1>2, AlwaysTyped, PTL DEF Spec

-----------------------------------------------------------------------------
(* An event is composed under the scope whose function is being executed   *)
(* (scope.ts:101-109).                                                     *)
THEOREM ScopesAreFollowed == Spec => []ScopesFollowCalls
<1>1. Init => ScopesFollowCalls
  BY DEF Init, ScopesFollowCalls
<1>2. ASSUME ScopesInv, NEW c, NEW l, NEW nth
      PROVE  EventOf(c, l, nth).scope = EventOf(c, l, nth).within
  BY <1>2 DEF EventOf, ScopesInv
<1>3. ASSUME TypeInv, LayersInv, ScopesInv, ScopesFollowCalls, [Next]_vars
      PROVE  ScopesFollowCalls'
  BY <1>2, <1>3, EventsStep DEF ScopesFollowCalls
<1> QED BY <1>1, <1>3, AlwaysTyped, AlwaysLayered, AlwaysScoped, PTL DEF Spec

-----------------------------------------------------------------------------
(* Crumbs *)

CarriesTheLast(e) ==
  LET n == Len(e.crumbs)
  IN /\ \A k \in 1 .. n : e.crumbs[k] = e.pushed - n + k
     /\ n >= IF e.pushed < e.least THEN e.pushed ELSE e.least

LEMMA RingGivesTheLast ==
  ASSUME NEW c, Ring(c), NEW l, NEW nth
  PROVE  CarriesTheLast(EventOf(c, l, nth))
  BY DEF CarriesTheLast, EventOf, Ring, Consecutive

LEMMA LayerOfALife ==
  ASSUME TypeInv, LayersInv, NEW k \in CaptureLayers
  PROVE  chain[k] = CaptureLayer(chain[k].life) /\ chain[k].life \in Life
<1>1. chain[k] \in Layer /\ chain[k].by = "capture"
  BY DEF TypeInv, CaptureLayers
<1>2. chain[k].life <= lives /\ chain[k].life # 0
  BY <1>1 DEF LayersInv, Sound, CaptureLayers
<1> QED BY <1>1, <1>2, LivesAssumption DEF TypeInv, Layer, Life, CaptureLayer

(* An event carries the crumbs right before it, without a gap, and no      *)
(* fewer than the smallest ring held (breadcrumbs.ts:19-35).               *)
THEOREM CrumbsAreKept == Spec => []CrumbsAreTheLast
<1>1. Init => CrumbsAreTheLast
  BY DEF Init, CrumbsAreTheLast
<1>2. ASSUME TypeInv, RingInv, LayersInv, CrumbsAreTheLast, [Next]_vars
      PROVE  CrumbsAreTheLast'
  <2>1. CrumbsAreTheLast <=> \A e \in events : CarriesTheLast(e)
    BY DEF CrumbsAreTheLast, CarriesTheLast
  <2>2. CrumbsAreTheLast' <=> \A e \in events' : CarriesTheLast(e)
    BY DEF CrumbsAreTheLast, CarriesTheLast
  <2>3. ASSUME NEW l \in Life PROVE CarriesTheLast(EventOf(client[l], l, 1))
    BY <1>2, RingGivesTheLast DEF RingInv
  <2>4. ASSUME NEW k \in CaptureLayers
        PROVE  CarriesTheLast(EventOf(Outside(k, chain[k].life), chain[k].life, k))
    BY <1>2, LayerOfALife, OutsideIsGood, RingGivesTheLast
  <2> QED BY <1>2, <2>1, <2>2, <2>3, <2>4, EventsStep
<1> QED BY <1>1, <1>2, AlwaysTyped, AlwaysLayered, PTL DEF Spec

-----------------------------------------------------------------------------
(* What a shutdown puts back *)

LEMMA StepHooked ==
  ASSUME TypeInv, HookedInv, [Next]_vars PROVE HookedInv'
<1> USE NoFunctionIsNotInstalled
<1>1. CASE UNCHANGED <<lives, up, pageVars, historyVars>>
  BY <1>1 DEF HookedInv, Hooked, pageVars, historyVars
<1>2. ASSUME NEW a \in BOOLEAN, NEW b \in BOOLEAN, Setup(a, b) PROVE HookedInv'
  <2> DEFINE l == lives + 1
             s == [crumbs |-> IF a THEN chain ELSE NotInstalled,
                   capture |-> IF b THEN IF a THEN Append(chain, CrumbLayer(l))
                                         ELSE chain
                               ELSE NotInstalled]
             hooked == Append(chain, CrumbLayer(l))
  <2>1. /\ l \in Life /\ up' = l /\ saved' = [saved EXCEPT ![l] = s]
        /\ found' = chain
        /\ a /\ b => chain' = Append(hooked, CaptureLayer(l))
        /\ a /\ ~b => chain' = hooked
        /\ ~a /\ b => chain' = Append(chain, CaptureLayer(l))
        /\ ~a /\ ~b => chain' = chain
    BY <1>2, SetupIs
  <2>2. l # 0 /\ chain \in Seq(Layer)
    BY <2>1 DEF TypeInv, Life
  <2>3. saved'[l] = s
    BY <2>1 DEF TypeInv
  <2>4. saved'[up'].crumbs = s.crumbs /\ saved'[up'].capture = s.capture
    BY <2>1, <2>3
  <2>5. hooked \in Seq(Layer)
    BY <2>1, <2>2, LayersAreLayers, Appending
  <2>6. chain # NotInstalled /\ hooked # NotInstalled
    BY <2>2, <2>5
  <2>7. a => s.crumbs = chain
    OBVIOUS
  <2>8. ~a => s.crumbs = NotInstalled
    OBVIOUS
  <2>9. b => s.capture = IF a THEN hooked ELSE chain
    OBVIOUS
  <2>10. ~b => s.capture = NotInstalled
    OBVIOUS
  <2>11. Hooked(saved[up].crumbs)' = IF a THEN hooked ELSE chain
    BY <2>1, <2>4, <2>6, <2>7, <2>8 DEF Hooked
  <2> HIDE DEF l, s, hooked
  <2>12. /\ saved'[up'].crumbs = found' \/ saved'[up'].crumbs = NotInstalled
         /\ saved'[up'].capture = Hooked(saved[up].crumbs)' \/ saved'[up'].capture = NotInstalled
    BY <2>1, <2>4, <2>7, <2>8, <2>9, <2>10, <2>11
  <2>13. chain' = IF saved'[up'].capture = NotInstalled THEN Hooked(saved[up].crumbs)'
                  ELSE Append(Hooked(saved[up].crumbs)', CaptureLayer(up'))
    <3>1. CASE b
      BY <2>1, <2>4, <2>6, <2>9, <2>11, <3>1
    <3>2. CASE ~b
      BY <2>1, <2>4, <2>10, <2>11, <3>2
    <3> QED BY <3>1, <3>2
  <2> QED BY <2>1, <2>2, <2>12, <2>13 DEF HookedInv
<1>3. CASE Shutdown
  <2>1. ~meddled => chain' = found
    <3> SUFFICES ASSUME ~meddled PROVE chain' = found
      OBVIOUS
    <3>1. up # 0
      BY <1>3 DEF Shutdown
    <3>2. /\ saved[up].crumbs \in {found, NotInstalled}
          /\ saved[up].capture \in {Hooked(saved[up].crumbs), NotInstalled}
          /\ chain = IF saved[up].capture = NotInstalled THEN Hooked(saved[up].crumbs)
                     ELSE Append(Hooked(saved[up].crumbs), CaptureLayer(up))
      BY <3>1 DEF HookedInv
    <3>3. found # NotInstalled
      BY DEF TypeInv
    <3> QED BY <1>3, <3>2, <3>3, ShutdownIs DEF Hooked
  <2> QED BY <1>3, <2>1, ShutdownIs DEF HookedInv
<1>4. CASE HostWraps \/ HostUnwraps
  BY <1>4, HostIs DEF HookedInv
<1> QED BY <1>1, <1>2, <1>3, <1>4, PageStep

(* Once shut down, console.error is what the setup found, unless the host  *)
(* replaced it in between (handlers.ts:103-105, breadcrumbs.ts:128-135).   *)
THEOREM ShutdownUnhooks == Spec => []Unhooked
<1>1. Init => HookedInv
  BY DEF Init, HookedInv
<1>2. TypeInv /\ HookedInv /\ [Next]_vars => HookedInv'
  BY StepHooked
<1>3. HookedInv => Unhooked
  BY DEF HookedInv, Unhooked
<1> QED BY <1>1, <1>2, <1>3, AlwaysTyped, PTL DEF Spec

-----------------------------------------------------------------------------
(* Whose layers there are *)

LEMMA StepOwn ==
  ASSUME TypeInv, LayersInv, OwnInv, [Next]_vars PROVE OwnInv'
<1> USE NoFunctionIsNotInstalled
<1>0. SUFFICES ASSUME ~revived'
               PROVE  /\ \A k \in DOMAIN chain' : chain'[k].life \in {0, up'}
                      /\ up' # 0 => Cleans'
  BY DEF OwnInv
<1> DEFINE Own == /\ \A k \in DOMAIN chain' : chain'[k].life \in {0, up'}
                  /\ up' # 0 => Cleans'
<1>00. ~revived
  <2>1. UNCHANGED revived \/ HostUnwraps
    BY PageStep, SetupIs, ShutdownIs, HostIs DEF historyVars, HostWraps
  <2> QED BY <1>0, <2>1 DEF HostUnwraps
<1>01. /\ \A k \in DOMAIN chain : chain[k].life \in {0, up}
       /\ up # 0 => Cleans
  BY <1>00 DEF OwnInv
<1>1. CASE UNCHANGED <<lives, up, pageVars, historyVars>>
  BY <1>1, <1>01 DEF Cleans, pageVars
<1>2. ASSUME NEW a \in BOOLEAN, NEW b \in BOOLEAN, Setup(a, b) PROVE Own
  <2> DEFINE l == lives + 1
             crumb == CrumbLayer(l)
             capture == CaptureLayer(l)
             hooked == Append(chain, crumb)
             s == [crumbs |-> IF a THEN chain ELSE NotInstalled,
                   capture |-> IF b THEN IF a THEN hooked ELSE chain
                               ELSE NotInstalled]
  <2>1. /\ l \in Life /\ up' = l /\ saved' = [saved EXCEPT ![l] = s] /\ up = 0
        /\ a /\ b => chain' = Append(hooked, capture)
        /\ a /\ ~b => chain' = hooked
        /\ ~a /\ b => chain' = Append(chain, capture)
        /\ ~a /\ ~b => chain' = chain
        /\ hostSaved' = hostSaved
    BY <1>2, SetupIs
  <2>2. chain \in Seq(Layer)
    BY DEF TypeInv
  <2>3. crumb \in Layer /\ capture \in Layer /\ crumb.life = l /\ capture.life = l
    BY <2>1, LayersAreLayers DEF CrumbLayer, CaptureLayer
  <2>4. Bare(chain)
    BY <1>01, <2>1 DEF Bare
  <2>5. hooked \in Seq(Layer)
    BY <2>2, <2>3, Appending
  <2>6. chain # NotInstalled /\ hooked # NotInstalled
    BY <2>2, <2>5
  <2>7. saved'[up'].crumbs = s.crumbs /\ saved'[up'].capture = s.capture
    BY <2>1 DEF TypeInv
  <2> HIDE DEF l, crumb, capture
  <2>8. ASSUME NEW c \in Seq(Layer), NEW e \in Layer, e.life = l,
               \A k \in DOMAIN c : c[k].life \in {0, l}
        PROVE  \A k \in DOMAIN Append(c, e) : Append(c, e)[k].life \in {0, l}
    BY <2>8, Appending
  <2>9. \A k \in DOMAIN chain : chain[k].life \in {0, l}
    BY <2>4 DEF Bare
  <2>10. \A k \in DOMAIN hooked : hooked[k].life \in {0, l}
    BY <2>2, <2>3, <2>8, <2>9
  <2>11. /\ \A k \in DOMAIN Append(hooked, capture) :
              Append(hooked, capture)[k].life \in {0, l}
         /\ \A k \in DOMAIN Append(chain, capture) :
              Append(chain, capture)[k].life \in {0, l}
    BY <2>2, <2>3, <2>5, <2>8, <2>9, <2>10
  <2>12. \A k \in DOMAIN chain' : chain'[k].life \in {0, up'}
    BY <2>1, <2>9, <2>10, <2>11
  <2>13. Cleans'
    <3>1. CASE a
      <4>1. saved'[up'].crumbs = chain
        BY <2>7, <3>1
      <4> QED BY <2>4, <2>6, <4>1 DEF Cleans, Bare
    <3>2. CASE ~a /\ b
      <4>1. saved'[up'].crumbs = NotInstalled /\ saved'[up'].capture = chain
        BY <2>7, <3>2
      <4> QED BY <2>4, <2>6, <4>1 DEF Cleans, Bare
    <3>3. CASE ~a /\ ~b
      <4>1. saved'[up'].crumbs = NotInstalled /\ saved'[up'].capture = NotInstalled
        BY <2>7, <3>3
      <4>2. Bare(chain)'
        BY <2>1, <2>4, <3>3 DEF Bare
      <4>3. hostSaved # NotInstalled =>
              \A k \in DOMAIN hostSaved : hostSaved[k].life # l
        <5> SUFFICES ASSUME hostSaved # NotInstalled, NEW k \in DOMAIN hostSaved,
                            hostSaved[k].life = l
                     PROVE  FALSE
          OBVIOUS
        <5>1. hostSaved[k].life <= lives
          BY DEF LayersInv, Remembered, Sound
        <5>2. lives + 1 <= lives /\ lives \in Nat
          BY <5>1, LivesAreLives DEF l
        <5> QED BY <5>2
      <4> QED BY <2>1, <4>1, <4>2, <4>3 DEF Cleans
    <3> QED BY <3>1, <3>2, <3>3
  <2> QED BY <2>12, <2>13
<1>3. ASSUME Shutdown PROVE Own
  <2>1. Bare(chain')
    <3>1. up # 0 /\ Cleans
      BY <1>01, <1>3 DEF Shutdown
    <3> QED BY <1>3, <3>1, ShutdownIs DEF Cleans
  <2> QED BY <1>3, <2>1, ShutdownIs DEF Bare
<1>4. ASSUME HostWraps \/ HostUnwraps PROVE Own
  <2>1. /\ up' = up /\ saved' = saved
        /\ \/ /\ hostSaved' = chain
              /\ chain' = Append(chain, [by |-> "host", life |-> 0])
           \/ /\ hostSaved # NotInstalled
              /\ chain' = hostSaved /\ hostSaved' = NotInstalled
              /\ \A k \in DOMAIN hostSaved : hostSaved[k].life \in {0, up}
    BY <1>0, <1>4, HostIs
  <2>2. CASE /\ hostSaved' = chain
             /\ chain' = Append(chain, [by |-> "host", life |-> 0])
    <3> DEFINE host == [by |-> "host", life |-> 0]
    <3>1. chain \in Seq(Layer) /\ host \in Layer /\ host.life = 0
      BY LivesAssumption DEF TypeInv, Layer
    <3> HIDE DEF host
    <3>2. chain' = Append(chain, host)
      BY <2>2 DEF host
    <3>3. ASSUME NEW k \in DOMAIN chain'
          PROVE  chain'[k].life = 0 \/ \E j \in DOMAIN chain : chain'[k] = chain[j]
      BY <3>1, <3>2, Appending
    <3>4. \A k \in DOMAIN chain' : chain'[k].life \in {0, up'}
      BY <1>01, <2>1, <3>3
    <3>5. Bare(chain) => Bare(chain')
      BY <3>3 DEF Bare
    <3>6. up # 0 /\ Bare(chain) => \A k \in DOMAIN chain : chain[k].life # up
      BY DEF Bare
    <3>7. up' # 0 => Cleans'
      BY <1>01, <2>1, <2>2, <3>5, <3>6 DEF Cleans
    <3> QED BY <3>4, <3>7
  <2>3. CASE /\ hostSaved # NotInstalled
             /\ chain' = hostSaved /\ hostSaved' = NotInstalled
             /\ \A k \in DOMAIN hostSaved : hostSaved[k].life \in {0, up}
    <3>1. \A k \in DOMAIN chain' : chain'[k].life \in {0, up'}
      BY <2>1, <2>3
    <3>2. (\A k \in DOMAIN hostSaved : hostSaved[k].life # up) => Bare(chain')
      BY <2>3 DEF Bare
    <3>3. up' # 0 => Cleans'
      BY <1>01, <2>1, <2>3, <3>2 DEF Cleans
    <3> QED BY <3>1, <3>3
  <2> QED BY <2>1, <2>2, <2>3
<1> QED BY <1>1, <1>2, <1>3, <1>4, PageStep

(* The capture layers of a chain nothing was put back into are one.        *)
LEMMA OneCaptureLayer ==
  ASSUME TypeInv, LayersInv, OwnInv, ~revived,
         NEW j \in CaptureLayers, NEW k \in CaptureLayers
  PROVE  j = k
<1>1. /\ chain[j] = CaptureLayer(chain[j].life) /\ chain[j].life \in Life
      /\ chain[k] = CaptureLayer(chain[k].life) /\ chain[k].life \in Life
  BY LayerOfALife
<1>2. j \in DOMAIN chain /\ k \in DOMAIN chain /\ chain[j].by = "capture"
  BY DEF CaptureLayers
<1>3. chain[j].life = up /\ chain[k].life = up
  BY <1>1, <1>2 DEF OwnInv, Life
<1>4. chain[j] = chain[k]
  BY <1>1, <1>3
<1> QED BY <1>2, <1>4 DEF LayersInv, Sound

LEMMA AtMostOne ==
  ASSUME NEW S, NEW e, S \subseteq {e}
  PROVE  Cardinality(S) <= 1
<1>1. IsFiniteSet({e}) /\ Cardinality({e}) = 1
  BY FS_Singleton
<1>2. Cardinality(S) <= Cardinality({e})
  BY <1>1, FS_Subset
<1> QED BY <1>1, <1>2

(* One console.error() or captured error makes at most one event, unless   *)
(* the host put back a wrapper of an ended life (handlers.ts:90-106).      *)
THEOREM ErrorsMakeOneEvent == Spec => []OneEventPerError
<1>1. Init => OwnInv /\ OneEventPerError
  BY FS_EmptySet DEF Init, OwnInv, OneEventPerError
<1>2. TypeInv /\ LayersInv /\ OwnInv /\ [Next]_vars => OwnInv'
  BY StepOwn
<1>3. ASSUME TypeInv, LayersInv, OwnInv, OneEventPerError, [Next]_vars
      PROVE  OneEventPerError'
  <2> SUFFICES ASSUME ~revived' PROVE Cardinality(events') <= 1
    BY DEF OneEventPerError
  <2>0. ~revived
    <3>1. UNCHANGED revived \/ HostUnwraps
      BY <1>3, PageStep, SetupIs, ShutdownIs, HostIs DEF historyVars, HostWraps
    <3> QED BY <3>1 DEF HostUnwraps
  <2>1. CASE UNCHANGED events
    BY <1>3, <2>0, <2>1 DEF OneEventPerError
  <2>2. CASE events' = {}
    BY <2>2, FS_EmptySet
  <2>3. CASE \E l \in Life : events' \subseteq {EventOf(client[l], l, 1)}
    BY <2>3, AtMostOne
  <2>4. CASE events' \subseteq {EventOf(Outside(k, chain[k].life), chain[k].life, k) :
                                k \in CaptureLayers}
    <3>1. CASE CaptureLayers = {}
      BY <2>4, <3>1, FS_EmptySet
    <3>2. CASE CaptureLayers # {}
      <4>1. PICK k \in CaptureLayers : TRUE
        BY <3>2
      <4>2. \A j \in CaptureLayers : j = k
        BY <1>3, <2>0, OneCaptureLayer
      <4>3. events' \subseteq {EventOf(Outside(k, chain[k].life), chain[k].life, k)}
        BY <2>4, <4>2
      <4> QED BY <4>3, AtMostOne
    <3> QED BY <3>1, <3>2
  <2> QED BY <1>3, <2>1, <2>2, <2>3, <2>4, EventsStep
<1> QED BY <1>1, <1>2, <1>3, AlwaysTyped, AlwaysLayered, PTL DEF Spec
=============================================================================
