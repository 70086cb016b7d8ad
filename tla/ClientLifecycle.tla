-------------------------- MODULE ClientLifecycle --------------------------
(***************************************************************************)
(* init() and shutdown() of the browser client                             *)
(* (packages/browser/src/client.ts) with what they start and stop: the     *)
(* flush interval, the lifecycle listeners, the presence heartbeat, the    *)
(* history patch of the page-view autocapture, the plugins with their      *)
(* slots in the module registry, and the handshake with its cache.         *)
(*                                                                         *)
(* Both are async functions of one client object: a second call may begin  *)
(* at every await of the first.  A step is the code between two awaits.    *)
(* The managers are fields that init() replaces together, so `mgr` names   *)
(* the init() call whose managers, and whose project, are current.         *)
(***************************************************************************)
EXTENDS Naturals, FiniteSets, Sequences

CONSTANTS
  MaxCalls,      \* bound: calls of init() and shutdown() in a behaviour
  MaxPending,    \* bound: calls suspended at the same time
  MaxAbandoned,  \* bound: instances whose setup() throws half way
  Faulty,        \* the plugins whose setup() may throw
  Project,       \* pairs of API key and endpoint, each with a storage prefix
  None

ASSUME BoundsAssumption ==
  MaxCalls \in Nat /\ MaxPending \in Nat \ {0} /\ MaxAbandoned \in Nat
ASSUME FaultyAssumption == Faulty \subseteq {"catch", "switch"}

Call == 1 .. MaxCalls

(* Catch wraps history and clears its registry slot at once; Switch clears *)
(* its slot after the await of the last exposure flush.                    *)
Plugin == {"catch", "switch"}
Eager == {"catch"}
Hooking == {"catch"}

Resource == {"interval", "lifecycle", "presence"}

Instance == Plugin \X Call           \* a plugin and the init() that set it up
Owner == {"core", "catch"} \X Call   \* who wrapped history.pushState

ASSUME NoneAssumption == None \notin Call \union Owner

VARIABLES
  calls,        \* how many calls have begun
  step,         \* step[c]: the await call c is suspended at
  op,           \* op[c]: which function was called
  project,      \* project[c]: the options of an init()
  cached,       \* cached[c]: what loadCachedHandshake() returned
  modules,      \* modules[c]: the project that handshakeModules came from
  target,       \* target[c]: the plugin manager call c is working on
  closing,      \* closing[c]: the instances whose shutdown() c awaits
  mgr,          \* the current managers
  plugins,      \* plugins[g]: the instances in manager g
  up,           \* the instances that were set up and not shut down
  abandoned,    \* those whose setup() threw after registering them
  registry,     \* registry[p]: the instance in the module registry
  applied,      \* applied[i]: the project whose handshake instance i got
  running,      \* running[r]: the calls whose resource r is still running
  held,         \* held[r]: the one the client has a reference to
  initialized,  \* _isInitialized
  hidden,       \* document.hidden
  ticking,      \* the heartbeats whose timer runs
  chain,        \* history.pushState: its wrappers, the outermost first
  patch,        \* patch[o]: the chain owner o found and will put back
  cache,        \* cache[k]: whose modules are stored under the prefix of k
  opened,       \* the projects with a first_open mark
  overlap       \* history: has a call begun while another was suspended?

hostVars == <<calls, op, project, hidden, overlap>>
callVars == <<step, cached, modules, target, closing>>
pluginVars == <<plugins, up, abandoned, registry, applied>>
resourceVars == <<running, held, ticking, initialized>>
historyVars == <<chain, patch>>
storageVars == <<cache, opened>>
vars == <<hostVars, callVars, mgr, pluginVars, resourceVars, historyVars,
          storageVars>>

Pending == {c \in Call : step[c] \notin {"new", "done"}}

Unpatched == <<None>>   \* patch[o] of an owner that is not installed

Init ==
  /\ calls = 0
  /\ step = [c \in Call |-> "new"]
  /\ op = [c \in Call |-> None]
  /\ project = [c \in Call |-> None]
  /\ cached = [c \in Call |-> None]
  /\ modules = [c \in Call |-> None]
  /\ target = [c \in Call |-> None]
  /\ closing = [c \in Call |-> {}]
  /\ mgr = None
  /\ plugins = [g \in Call |-> {}]
  /\ up = {}
  /\ abandoned = {}
  /\ registry = [p \in Plugin |-> None]
  /\ applied = [i \in Instance |-> None]
  /\ running = [r \in Resource |-> {}]
  /\ held = [r \in Resource |-> None]
  /\ initialized = FALSE
  /\ hidden \in BOOLEAN
  /\ ticking = {}
  /\ chain = <<>>
  /\ patch = [o \in Owner |-> Unpatched]
  /\ cache = [k \in Project |-> None]
  /\ opened = {}
  /\ overlap = FALSE

-----------------------------------------------------------------------------
(* Starting and stopping *)

(* Mutant: what is started is not kept in its field.                       *)
StartedUnheld(c, R) ==
  /\ ticking' = ticking \union {d \in {c} : "presence" \in R /\ ~hidden}
  /\ running' = [r \in Resource |-> running[r] \union {d \in {c} : r \in R}]
  /\ UNCHANGED held

Started(c, R) ==
  /\ ticking' = ticking \union {d \in {c} : "presence" \in R /\ ~hidden}
  /\ running' = [r \in Resource |-> running[r] \union {d \in {c} : r \in R}]
  /\ held' = [r \in Resource |-> IF r \in R THEN c ELSE held[r]]

(* Every wrapper assigns history.pushState what it found there; the core   *)
(* goes first, then the plugins, so the last one to write wins.            *)
Restored(g) ==
  LET installed(o) == patch[o] # Unpatched
      hooks == {i \in plugins[g] : i[1] \in Hooking /\ installed(i)}
  IN IF hooks # {} THEN patch[CHOOSE i \in hooks : TRUE]
     ELSE IF installed(<<"core", g>>) THEN patch[<<"core", g>>]
     ELSE chain

(* The part of shutdown() before its await, for call c. *)
StopAll(c) ==
  /\ ticking' = ticking \ {held["presence"]}
  /\ running' = [r \in Resource |-> running[r] \ {held[r]}]
  /\ held' = [r \in Resource |-> None]
  /\ IF mgr = None
     THEN UNCHANGED <<historyVars, up, registry, closing>>
     ELSE /\ chain' = Restored(mgr)
          /\ patch' = [o \in Owner |->
                         IF o \in plugins[mgr] \union {<<"core", mgr>>}
                         THEN Unpatched ELSE patch[o]]
          /\ up' = {i \in up : i \notin plugins[mgr] \/ i[1] \notin Eager}
          /\ registry' = [p \in Plugin |->
               IF p \in Eager /\ \E i \in plugins[mgr] : i[1] = p
               THEN None ELSE registry[p]]
          /\ closing' = [closing EXCEPT ![c] = plugins[mgr]]
  /\ target' = [target EXCEPT ![c] = mgr]

Begin(c, o, k) ==
  /\ c = calls + 1
  /\ Cardinality(Pending) < MaxPending
  /\ calls' = c
  /\ step' = [step EXCEPT ![c] = "closing"]
  /\ op' = [d \in Call |->
       IF d = c THEN o ELSE IF d \in Pending THEN op[d] ELSE None]
  /\ project' = [project EXCEPT ![c] = k]
  /\ overlap' = (overlap \/ Pending # {})
  /\ StopAll(c)
  /\ UNCHANGED <<cached, modules, mgr, plugins, abandoned, applied,
                 initialized, hidden, storageVars>>

CallInit(c) == \E k \in Project : Begin(c, "init", k)

CallShutdown(c) == Begin(c, "shutdown", None)

(* Mutant: shutdown() leaves the module registry alone.                    *)
PluginsClosedRegistered(c) ==
  /\ plugins' = [g \in Call |->
       IF g = target[c] /\ closing[c] # {} THEN {} ELSE plugins[g]]
  /\ up' = up \ closing[c]
  /\ applied' = [i \in Instance |->
       IF i \in closing[c] THEN None ELSE applied[i]]
  /\ closing' = [closing EXCEPT ![c] = {}]
  /\ target' = [target EXCEPT ![c] = None]
  /\ UNCHANGED registry

(* The awaited plugins.shutdown(): it empties the list it found, unless    *)
(* that was empty already, whatever the list holds by now.                 *)
PluginsClosed(c) ==
  /\ plugins' = [g \in Call |->
       IF g = target[c] /\ closing[c] # {} THEN {} ELSE plugins[g]]
  /\ up' = up \ closing[c]
  /\ registry' = [p \in Plugin |->
       IF p \notin Eager /\ \E i \in closing[c] : i[1] = p
       THEN None ELSE registry[p]]
  /\ applied' = [i \in Instance |->
       IF i \in closing[c] THEN None ELSE applied[i]]
  /\ closing' = [closing EXCEPT ![c] = {}]
  /\ target' = [target EXCEPT ![c] = None]

ShutdownEnds(c) ==
  /\ step[c] = "closing"
  /\ op[c] = "shutdown"
  /\ PluginsClosed(c)
  /\ initialized' = FALSE
  /\ step' = [step EXCEPT ![c] = "done"]
  /\ UNCHANGED <<hostVars, cached, modules, mgr, abandoned, running, held,
                 ticking, historyVars, storageVars>>

(* init() after its shutdown(): new managers, the history patch (whose     *)
(* first page view finds _isInitialized false and is dropped), and the     *)
(* handshake request, with the cached modules read before the await.       *)
NewManagers(c) ==
  /\ step[c] = "closing"
  /\ op[c] = "init"
  /\ PluginsClosed(c)
  /\ initialized' = FALSE
  /\ mgr' = c
  /\ held' = [held EXCEPT !["lifecycle"] = None]
  /\ patch' = [patch EXCEPT ![<<"core", c>>] = chain]
  /\ chain' = <<<<"core", c>>>> \o chain
  /\ cached' = [cached EXCEPT ![c] = cache[project[c]]]
  /\ step' = [step EXCEPT ![c] = "handshake"]
  /\ UNCHANGED <<hostVars, modules, abandoned, running, ticking, storageVars>>

-----------------------------------------------------------------------------
(* The handshake and the plugins *)

Handshaken(c, m) ==
  /\ step[c] = "handshake"
  /\ step' = [step EXCEPT ![c] = "replay"]
  /\ modules' = [modules EXCEPT ![c] = m]
  /\ cached' = [cached EXCEPT ![c] = None]
  /\ UNCHANGED <<hostVars, target, closing, mgr, pluginVars, resourceVars,
                 historyVars, opened>>

(* Mutant: one handshake cache for all projects.                           *)
HandshakeOkOneSlot(c) ==
  /\ Handshaken(c, project[c])
  /\ cache' = [k \in Project |-> project[c]]

(* The storage key is built from the prefix at the time of the answer. *)
HandshakeOk(c) ==
  /\ Handshaken(c, project[c])
  /\ cache' = [cache EXCEPT ![project[mgr]] = project[c]]

(* Unreachable, 304 or an error status: the cached modules, if any. *)
HandshakeFromCache(c) ==
  /\ Handshaken(c, cached[c])
  /\ UNCHANGED cache

(* An answer that is no JSON throws: no modules, whatever is cached. *)
HandshakeThrows(c) ==
  /\ Handshaken(c, None)
  /\ UNCHANGED cache

(* After the replay config (awaited unless the modules hold it), every     *)
(* plugin is set up in the current manager.  A setup() that throws is made *)
(* an empty instance, which stops nothing at shutdown: if it threw after   *)
(* it had registered its client (late), or had wrapped history as well     *)
(* (hooked), that is abandoned as it stands.                               *)
SetUp(c) ==
  /\ step[c] = "replay"
  /\ \E fail \in SUBSET Faulty :
     \E late \in SUBSET fail :
     \E hooked \in SUBSET (late \intersect Hooking) :
       LET sound == Plugin \ fail
           half == abandoned \union (late \X {c})
           wraps == ((sound \intersect Hooking) \union hooked) \X {c}
       IN /\ Cardinality(half) <= MaxAbandoned
          /\ up' = up \union (sound \X {c})
          /\ abandoned' = half
          /\ registry' = [p \in Plugin |->
               IF p \in sound \union late THEN <<p, c>> ELSE registry[p]]
          /\ patch' = [o \in Owner |-> IF o \in wraps THEN chain ELSE patch[o]]
          /\ chain' = IF wraps = {} THEN chain
                      ELSE <<CHOOSE i \in wraps : TRUE>> \o chain
  /\ target' = [target EXCEPT ![c] = mgr]
  /\ step' = [step EXCEPT ![c] = "setup"]
  /\ UNCHANGED <<hostVars, cached, modules, closing, mgr, plugins, applied,
                 resourceVars, storageVars>>

(* setup() has the instances of this call; routeHandshake() asks the       *)
(* manager that is current now.                                            *)
Route(c) ==
  LET made == {i \in up : i[2] = c}
      listed == [plugins EXCEPT ![target[c]] = made]
  IN /\ step[c] = "setup"
     /\ plugins' = listed
     /\ applied' = [i \in Instance |->
          IF i \in listed[mgr] /\ modules[c] # None
          THEN modules[c] ELSE applied[i]]
     /\ step' = [step EXCEPT ![c] = "boot"]
     /\ modules' = [modules EXCEPT ![c] = None]
     /\ target' = [target EXCEPT ![c] = None]
     /\ UNCHANGED <<hostVars, cached, closing, mgr, up, abandoned, registry,
                    resourceVars, historyVars, storageVars>>

(* init() goes on to its next await, or to its end: _isInitialized and the *)
(* last two resources.                                                     *)
Resumes(c, next, R) ==
  /\ Started(c, IF next = "done" THEN R \union {"lifecycle", "presence"} ELSE R)
  /\ initialized' = (initialized \/ next = "done")
  /\ step' = [step EXCEPT ![c] = next]
  /\ UNCHANGED <<hostVars, cached, modules, target, closing, mgr, pluginVars,
                 historyVars, cache>>

(* The interval starts; the first open of a project is tracked, and        *)
(* awaited; so is the start of a session that rotated.                     *)
Boot(c) ==
  /\ step[c] = "boot"
  /\ opened' = opened \union {project[mgr]}
  /\ \E next \in IF project[mgr] \notin opened THEN {"first_open"}
                 ELSE {"session_start", "done"} :
       Resumes(c, next, {"interval"})

FirstOpenTracked(c) ==
  /\ step[c] = "first_open"
  /\ \E next \in {"session_start", "done"} : Resumes(c, next, {})
  /\ UNCHANGED opened

SessionStartTracked(c) ==
  /\ step[c] = "session_start"
  /\ Resumes(c, "done", {})
  /\ UNCHANGED opened

(* The heartbeats that were started and not stopped hear of it.            *)
VisibilityChange ==
  /\ hidden' = ~hidden
  /\ ticking' = IF hidden THEN running["presence"] ELSE {}
  /\ UNCHANGED <<calls, op, project, overlap, callVars, mgr, pluginVars,
                 running, held, initialized, historyVars, storageVars>>

-----------------------------------------------------------------------------
Proceed(c) ==
  \/ ShutdownEnds(c)
  \/ NewManagers(c)
  \/ HandshakeOk(c)
  \/ HandshakeFromCache(c)
  \/ HandshakeThrows(c)
  \/ SetUp(c)
  \/ Route(c)
  \/ Boot(c)
  \/ FirstOpenTracked(c)
  \/ SessionStartTracked(c)

Next ==
  \/ \E c \in Call : CallInit(c) \/ CallShutdown(c) \/ Proceed(c)
  \/ VisibilityChange

Spec == Init /\ [][Next]_vars

-----------------------------------------------------------------------------
(* As long as the host awaits every call before the next one, a finished   *)
(* init() has left its own resources and plugins running, registered and   *)
(* referenced, and nothing of an earlier one; a finished shutdown() has    *)
(* left nothing running.  Of the wrappers of history.pushState, no Catch   *)
(* that was shut down is left, and the client's own is there once; that of *)
(* an earlier client may stay, since Catch puts back what it had found.    *)
(* The exception is a plugin whose setup() threw half way: its slot in the *)
(* registry outlives shutdown(), its wrapper only the call it was made in. *)
OnlyTheLatest ==
  LET latest == {c \in {calls} : c > 0 /\ op[c] = "init"}
  IN ~overlap /\ Pending = {} =>
       /\ initialized = (latest # {})
       /\ \A r \in Resource : running[r] = latest
       /\ ticking = IF hidden THEN {} ELSE latest
       /\ up \subseteq Plugin \X latest
       /\ \A c \in latest : mgr = c /\ plugins[c] = up
       /\ \A p \in Plugin :
            IF <<p, calls>> \in up THEN registry[p] = <<p, calls>>
            ELSE registry[p] \in abandoned \union {None}
       /\ \A i \in DOMAIN chain : chain[i][1] = "catch" =>
            chain[i] \in up \/ (chain[i] \in abandoned /\ chain[i][2] = calls)
       /\ \A c \in latest :
            Cardinality({i \in DOMAIN chain : chain[i] = <<"core", c>>}) = 1

(* Whatever overlaps, the registry never names an instance that has been   *)
(* shut down: "a stale singleton can't leak across re-inits"               *)
(* (module-registry.ts).  An instance that no shutdown() can reach, since  *)
(* its setup() threw after it had registered, may stay there.              *)
NoStaleSingleton ==
  \A p \in Plugin : registry[p] \in up \union abandoned \union {None}

(* What is stored under the prefix of a project, and what its plugins were *)
(* given, came from its own handshake, unless calls overlapped.            *)
OwnModules ==
  ~overlap => /\ \A k \in Project : cache[k] \in {k, None}
              /\ \A i \in up : applied[i] \in {project[i[2]], None}
=============================================================================
