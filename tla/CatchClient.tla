---------------------------- MODULE CatchClient ----------------------------
(***************************************************************************)
(* The Catch client (packages/catch/src/client.ts) with what feeds it: the *)
(* breadcrumb ring and its hooks (breadcrumbs.ts), the withScope() stack   *)
(* (scope.ts), the global error handlers (handlers.ts), the handshake that *)
(* the plugin manager routes to it, and the plugin's setup and shutdown    *)
(* (plugin.ts), over several lives of the plugin on one page.              *)
(*                                                                         *)
(* console.error stands for every function the hooks replace: it is the    *)
(* one that two parts of the SDK wrap, one over the other, and that the    *)
(* host wraps too.  A wrapper calls what it found when it was installed,   *)
(* so the function is the sequence of its layers, the innermost first, and *)
(* the browser's own function is the empty one.                            *)
(*                                                                         *)
(* A step is one task of the page.  The function given to withScope() runs *)
(* inside its caller's task: while one runs, no handler, no handshake and  *)
(* no shutdown does.  What the transport does with an event it is handed   *)
(* is CatchTransport; `events` are the arguments of its push().            *)
(***************************************************************************)
EXTENDS Integers, Sequences, SequencesExt, FiniteSets

CONSTANTS
  MaxLives,    \* bound: setups of the plugin on the page
  MaxCrumbs,   \* bound: breadcrumbs pushed in a life
  MaxDepth,    \* bound: nested withScope() calls
  Floor,       \* the least capacity of the ring (10)
  Default,     \* its capacity until a handshake sets another (100)
  Sizes,       \* breadcrumbs.max_buffer of a handshake
  Rates,       \* sampling.error_sample_rate of a handshake
  None         \* a setting a handshake leaves out

ASSUME RingAssumption ==
  Floor \in Nat \ {0} /\ Default \in Nat /\ Default >= Floor /\ Sizes \subseteq Int
ASSUME RatesAssumption == Rates \subseteq {"none", "some", "all"}
ASSUME LivesAssumption == MaxLives \in Nat

Life == 1 .. MaxLives

VARIABLES
  lives,      \* how often the plugin was set up
  up,         \* the life whose plugin is set up, or 0
  client,     \* client[l]: the client and the breadcrumb ring of a life
  stack,      \* scopeManager.stack: the scopes by depth, the innermost last
  chain,      \* console.error: its layers, the innermost first
  saved,      \* saved[l]: what the two wrappers of a life will put back
  hostSaved,  \* what the host's own wrapper found
  events,     \* what the last step handed to the transports
  \* history
  running,    \* the scopes whose function is being executed
  found,      \* console.error as the last setup found it
  meddled,    \* has the host replaced console.error during this life?
  revived     \* has the host put back a wrapper of an ended life?

clientVars == <<lives, up, client>>
scopeVars == <<stack, running>>
pageVars == <<chain, saved, hostSaved>>
historyVars == <<found, meddled, revived>>
vars == <<clientVars, scopeVars, pageVars, events, historyVars>>

(* A function that was replaced: what it was, layer by layer.              *)
Layer == [by : {"crumbs", "capture", "host"}, life : 0 .. MaxLives]

NotInstalled == <<None>>
ASSUME NoneAssumption == None \notin Layer

(* A new client over a new ring; `pushed` counts what went in and `least`  *)
(* is the smallest capacity the ring has had.                              *)
NewClient ==
  [enabled |-> TRUE, rate |-> "all", capacity |-> Default, crumbs |-> <<>>,
   pushed |-> 0, least |-> Default]

Init ==
  /\ lives = 0
  /\ up = 0
  /\ client = [l \in Life |-> NewClient]
  /\ stack = <<>>
  /\ chain = <<>>
  /\ saved = [l \in Life |-> [crumbs |-> NotInstalled, capture |-> NotInstalled]]
  /\ hostSaved = NotInstalled
  /\ events = {}
  /\ running = <<>>
  /\ found = <<>>
  /\ meddled = FALSE
  /\ revived = FALSE

(* No function given to withScope() is being executed. *)
Idle == running = <<>>
-----------------------------------------------------------------------------
(* The breadcrumb ring *)

(* Mutant: a full ring lets go of the newest crumb but one.                *)
PushedOverNewest(c) ==
  LET crumb == c.pushed + 1
  IN [c EXCEPT !.pushed = crumb,
               !.crumbs = IF Len(@) = c.capacity
                          THEN Append(Front(@), crumb) ELSE Append(@, crumb)]

(* push(): the crumb goes in, the oldest goes out of a full ring.  A crumb *)
(* is its number in its life.                                              *)
Pushed(c) ==
  LET longer == Append(c.crumbs, c.pushed + 1)
  IN [c EXCEPT !.pushed = @ + 1,
               !.crumbs = IF Len(longer) > c.capacity THEN Tail(longer)
                          ELSE longer]

(* setCapacity(): the oldest go until the rest fits.                       *)
Resized(c, n) ==
  LET capacity == IF n > Floor THEN n ELSE Floor
      extra == IF Len(c.crumbs) > capacity THEN Len(c.crumbs) - capacity ELSE 0
  IN [c EXCEPT !.capacity = capacity,
               !.crumbs = SubSeq(@, extra + 1, Len(@)),
               !.least = IF capacity < @ THEN capacity ELSE @]
-----------------------------------------------------------------------------
(* capture() *)

(* The scope an event is composed under: the top of the stack, if any.     *)
Top(scopesOpen) == IF scopesOpen = <<>> THEN 0 ELSE Last(scopesOpen)

(* A client that is enabled and whose sample admits the error.             *)
Admits(c, lucky) ==
  c.enabled /\ (c.rate = "all" \/ (c.rate = "some" /\ lucky))

(* What client l, in state c, hands over as the nth capture of a step: the *)
(* event, composed from its scope and its ring, or nothing when the client *)
(* is disabled, the sample misses the error or beforeSend() returns null.  *)
Captured(c, l, nth, lucky, kept) ==
  IF ~Admits(c, lucky) \/ ~kept THEN {}
  ELSE {[life |-> l, nth |-> nth,
         scope |-> Top(stack), within |-> Top(running),
         crumbs |-> c.crumbs, pushed |-> c.pushed, least |-> c.least]}

Quiet == events' = {}

(* captureException() and captureMessage(), through Sankofa.* while the    *)
(* plugin is set up or through a handle the host kept from getCatch().     *)
HostCaptures(l) ==
  /\ l \in 1 .. lives
  /\ Idle \/ l = up
  /\ \E lucky, kept \in BOOLEAN : events' = Captured(client[l], l, 1, lucky, kept)
  /\ UNCHANGED <<clientVars, scopeVars, pageVars, historyVars>>

(* window.onerror and unhandledrejection, as long as they are installed.   *)
Uncaught ==
  /\ up # 0
  /\ Idle
  /\ \E lucky, kept \in BOOLEAN : events' = Captured(client[up], up, 1, lucky, kept)
  /\ UNCHANGED <<clientVars, scopeVars, pageVars, historyVars>>
-----------------------------------------------------------------------------
(* Breadcrumbs *)

(* addBreadcrumb(), log(), a click, a navigation; and fetch and XHR, which *)
(* push their crumb when the request ends, into the ring of the life in    *)
(* which it began, even after the shutdown.                                *)
Crumb(l) ==
  /\ l \in 1 .. lives
  /\ client[l].pushed < MaxCrumbs
  /\ client' = [client EXCEPT ![l] = Pushed(@)]
  /\ Quiet
  /\ UNCHANGED <<lives, up, scopeVars, pageVars, historyVars>>

CrumbLayer(l) == [by |-> "crumbs", life |-> l]
CaptureLayer(l) == [by |-> "capture", life |-> l]

(* The client of life l once the layers outside the k-th have run: its own *)
(* crumb layer, which is in the chain at most once, may be one of them.    *)
Outside(k, l) ==
  IF \E j \in k + 1 .. Len(chain) : chain[j] = CrumbLayer(l)
  THEN Pushed(client[l]) ELSE client[l]

(* console.error(): the layers run from the outermost inwards; the SDK's   *)
(* capture layer hands over an event and its crumb layer pushes a crumb.   *)
ConsoleError ==
  /\ \A l \in 1 .. lives : client[l].pushed < MaxCrumbs
  /\ client' = [l \in Life |-> Outside(0, l)]
  /\ LET captures == {k \in DOMAIN chain : chain[k].by = "capture"}
     IN \E lucky, kept \in SUBSET captures :
          events' = UNION {LET l == chain[k].life
                           IN Captured(Outside(k, l), l, k, k \in lucky, k \in kept) :
                           k \in captures}
  /\ UNCHANGED <<lives, up, scopeVars, pageVars, historyVars>>
-----------------------------------------------------------------------------
(* withScope() *)

EnterScope ==
  /\ up # 0
  /\ Len(running) < MaxDepth
  /\ stack' = Append(stack, Len(running) + 1)
  /\ running' = Append(running, Len(running) + 1)
  /\ Quiet
  /\ UNCHANGED <<clientVars, pageVars, historyVars>>

(* Mutant: the pop is not in a `finally`.                                  *)
LeaveScopePopless(throws) ==
  /\ running # <<>>
  /\ running' = Front(running)
  /\ stack' = IF throws THEN stack ELSE Front(stack)
  /\ Quiet
  /\ UNCHANGED <<clientVars, pageVars, historyVars>>

(* The function returns or throws; `finally` pops its scope either way.    *)
LeaveScope(throws) ==
  /\ running # <<>>
  /\ running' = Front(running)
  /\ stack' = Front(stack)
  /\ Quiet
  /\ UNCHANGED <<clientVars, pageVars, historyVars>>
-----------------------------------------------------------------------------
(* The plugin *)

(* setup(): the breadcrumb hooks wrap console.error unless `autocapture`   *)
(* is false, then the global handlers do if `captureConsoleError` is true. *)
Setup(autocapture, captureConsoleError) ==
  LET l == lives + 1
      hooked == IF autocapture THEN Append(chain, CrumbLayer(l))
                ELSE chain
  IN /\ up = 0
     /\ lives < MaxLives
     /\ lives' = l
     /\ up' = l
     /\ saved' = [saved EXCEPT ![l] =
                    [crumbs |-> IF autocapture THEN chain ELSE NotInstalled,
                     capture |-> IF captureConsoleError THEN hooked
                                 ELSE NotInstalled]]
     /\ chain' = IF captureConsoleError
                 THEN Append(hooked, CaptureLayer(l)) ELSE hooked
     /\ found' = chain
     /\ meddled' = FALSE
     /\ Quiet
     /\ UNCHANGED <<client, scopeVars, hostSaved, revived>>

PutBack(original, current) ==
  IF original = NotInstalled THEN current ELSE original

(* Mutant: the breadcrumb hooks are uninstalled before the handlers.       *)
ShutdownOutOfOrder ==
  /\ up # 0
  /\ Idle
  /\ chain' = PutBack(saved[up].capture, PutBack(saved[up].crumbs, chain))
  /\ up' = 0
  /\ Quiet
  /\ UNCHANGED <<lives, client, scopeVars, saved, hostSaved, historyVars>>

(* Mutant: only the breadcrumb hooks put back what they found, and only    *)
(* where they were installed.                                              *)
ShutdownHandlersStay ==
  /\ up # 0
  /\ Idle
  /\ chain' = PutBack(saved[up].crumbs, chain)
  /\ up' = 0
  /\ Quiet
  /\ UNCHANGED <<lives, client, scopeVars, saved, hostSaved, historyVars>>

(* shutdown(): each assigns what it found, the handlers first.             *)
Shutdown ==
  /\ up # 0
  /\ Idle
  /\ chain' = PutBack(saved[up].crumbs, PutBack(saved[up].capture, chain))
  /\ up' = 0
  /\ Quiet
  /\ UNCHANGED <<lives, client, scopeVars, saved, hostSaved, historyVars>>

(* applyHandshake() of the client.                                         *)
Applied(c, enabled, rate, size) ==
  IF ~enabled THEN [c EXCEPT !.enabled = FALSE]
  ELSE LET sampled == [c EXCEPT !.enabled = TRUE,
                                !.rate = IF rate = None THEN @ ELSE rate]
       IN IF size = None THEN sampled ELSE Resized(sampled, size)

(* routeHandshake(): a module that is not enabled is not called at all.    *)
Handshake(enabled, rate, size) ==
  /\ up # 0
  /\ Idle
  /\ enabled
  /\ client' = [client EXCEPT ![up] = Applied(@, enabled, rate, size)]
  /\ Quiet
  /\ UNCHANGED <<lives, up, scopeVars, pageVars, historyVars>>
-----------------------------------------------------------------------------
(* The host and console.error *)

(* Some other library of the page wraps console.error, before, during or   *)
(* after a life of the SDK.                                                *)
HostWraps ==
  /\ hostSaved = NotInstalled
  /\ Idle
  /\ hostSaved' = chain
  /\ chain' = Append(chain, [by |-> "host", life |-> 0])
  /\ found' = IF up = 0 THEN chain' ELSE found
  /\ meddled' = (up # 0)
  /\ Quiet
  /\ UNCHANGED <<clientVars, scopeVars, saved, revived>>

(* It puts back what it found, as the SDK itself does.                     *)
HostUnwraps ==
  /\ hostSaved # NotInstalled
  /\ Idle
  /\ hostSaved' = NotInstalled
  /\ chain' = hostSaved
  /\ found' = IF up = 0 THEN hostSaved ELSE found
  /\ meddled' = (up # 0)
  /\ revived' = (revived \/ \E k \in DOMAIN hostSaved :
                               hostSaved[k].life \notin {0, up})
  /\ Quiet
  /\ UNCHANGED <<clientVars, scopeVars, saved>>
-----------------------------------------------------------------------------
Next ==
  \/ \E l \in Life : HostCaptures(l)
  \/ Uncaught
  \/ \E l \in Life : Crumb(l)
  \/ ConsoleError
  \/ EnterScope
  \/ \E throws \in BOOLEAN : LeaveScope(throws)
  \/ \E autocapture, captureConsoleError \in BOOLEAN :
       Setup(autocapture, captureConsoleError)
  \/ Shutdown
  \/ \E enabled \in BOOLEAN, rate \in Rates \union {None},
        size \in Sizes \union {None} : Handshake(enabled, rate, size)
  \/ HostWraps
  \/ HostUnwraps

Spec == Init /\ [][Next]_vars
-----------------------------------------------------------------------------
(***************************************************************************)
(* Properties                                                              *)
(***************************************************************************)

(* An event is composed under the scope whose function is being executed,  *)
(* and under none outside of them: no scope outlives its withScope(),      *)
(* whether its function returned or threw (scope.ts:101-109).              *)
ScopesFollowCalls == \A e \in events : e.scope = e.within

(* An event carries the crumbs that came right before it, without a gap    *)
(* and in order, and at least as many as the smallest ring held, however   *)
(* handshakes resized the ring in between (breadcrumbs.ts:19-35).          *)
CrumbsAreTheLast ==
  \A e \in events :
    LET n == Len(e.crumbs)
    IN /\ \A k \in 1 .. n : e.crumbs[k] = e.pushed - n + k
       /\ n >= IF e.pushed < e.least THEN e.pushed ELSE e.least

(* Once the plugin is shut down console.error is what the setup found,     *)
(* host wrappers included, unless the host replaced it in between          *)
(* (handlers.ts:103-105, breadcrumbs.ts:128-135).                          *)
Unhooked == up = 0 /\ ~meddled => chain = found

(* One console.error() or captured error makes at most one event, whatever *)
(* was installed, removed and installed again, unless the host put back a  *)
(* wrapper of an ended life (handlers.ts:90-106).                          *)
OneEventPerError == ~revived => Cardinality(events) <= 1
=============================================================================
