----------------------- MODULE ClientLifecycle_proofs -----------------------
(***************************************************************************)
(* For any number of init() and shutdown() calls, overlapping at any       *)
(* await: the registry never names an instance that was shut down; and as  *)
(* long as calls do not overlap, handshakes stay within their project and  *)
(* only the latest client is there.                                        *)
(***************************************************************************)
EXTENDS ClientLifecycle, FiniteSetTheorems, TLAPS

Steps == {"new", "closing", "handshake", "replay", "setup", "boot", "first_open",
          "session_start", "done"}
Passed == {"boot", "first_open", "session_start", "done"}

TypeInv ==
  /\ calls \in Nat
  /\ step \in [Call -> Steps]
  /\ mgr \in Call \union {None}
  /\ plugins \in [Call -> SUBSET Instance]
  /\ closing \in [Call -> SUBSET Instance]
  /\ up \subseteq Instance
  /\ abandoned \subseteq Instance
  /\ registry \in [Plugin -> Instance \union {None}]
  /\ \A c \in Call : c > calls => step[c] = "new"

(* A plugin that clears its slot at once is down while its shutdown() is   *)
(* awaited, and it does not come up again: an instance is set up by its    *)
(* own init() only, before it is listed anywhere.                          *)
Named(p) ==
  registry[p] # None =>
    registry[p][1] = p /\ (registry[p] \in up \/ registry[p] \in abandoned)

SlotInv ==
  /\ \A p \in Plugin : Named(p)
  /\ \A g \in Call : \A i \in plugins[g] : step[i[2]] \in Passed
  /\ \A c \in Call : \A i \in closing[c] :
       step[i[2]] \in Passed /\ (i[1] \in Eager => i \notin up)

Inv == TypeInv /\ SlotInv

LEMMA InitInv == Init => Inv
  BY BoundsAssumption DEF Init, Inv, TypeInv, SlotInv, Named, Steps, Instance, Call

(* The teardown of the current managers, up to its await.                  *)
LEMMA BeginInv ==
  ASSUME Inv, NEW c \in Call, NEW o, NEW k, Begin(c, o, k)
  PROVE  Inv'
<1> USE DEF Inv
<1>1. /\ c = calls + 1 /\ calls' = c
      /\ step' = [step EXCEPT ![c] = "closing"]
      /\ step[c] = "new"
      /\ UNCHANGED <<mgr, plugins, abandoned>>
  BY BoundsAssumption DEF Begin, TypeInv, Call
<1>2. \A i \in Instance : step[i[2]] \in Passed => step'[i[2]] \in Passed
  BY <1>1 DEF Instance, TypeInv, Passed
<1>3. CASE mgr = None
  <2>1. UNCHANGED <<up, registry, closing>>
    BY <1>3 DEF Begin, StopAll
  <2>2. TypeInv'
    BY <1>1, <2>1, BoundsAssumption DEF TypeInv, Steps, Call
  <2>3. SlotInv'
    BY <1>1, <1>2, <2>1 DEF TypeInv, SlotInv, Named
  <2> QED BY <2>2, <2>3
<1>4. CASE mgr # None
  <2>1. /\ up' = {i \in up : i \notin plugins[mgr] \/ i[1] \notin Eager}
        /\ registry' = [p \in Plugin |->
               IF p \in Eager /\ \E i \in plugins[mgr] : i[1] = p
               THEN None ELSE registry[p]]
        /\ closing' = [closing EXCEPT ![c] = plugins[mgr]]
        /\ mgr \in Call
    BY <1>4 DEF Begin, StopAll, TypeInv
  <2>2. TypeInv'
    <3>1. /\ closing' \in [Call -> SUBSET Instance]
          /\ up' \subseteq Instance
          /\ registry' \in [Plugin -> Instance \union {None}]
      BY <2>1 DEF TypeInv
    <3> QED BY <1>1, <3>1, BoundsAssumption DEF TypeInv, Steps, Call
  <2>3. ASSUME NEW p \in Plugin PROVE Named(p)'
    <3>1. CASE registry'[p] = None
      BY <3>1 DEF Named
    <3>2. CASE registry'[p] # None
      <4>1. registry'[p] = registry[p] /\ registry[p][1] = p
            /\ (registry[p] \in up \/ registry[p] \in abandoned)
        BY <2>1, <3>2 DEF SlotInv, Named
      <4>2. registry[p] \in up => registry[p] \in up'
        BY <2>1, <3>2, <4>1
      <4> QED BY <1>1, <4>1, <4>2 DEF Named
    <3> QED BY <3>1, <3>2
  <2>4. \A g \in Call : \A i \in plugins'[g] : step'[i[2]] \in Passed
    BY <1>1, <1>2 DEF SlotInv, TypeInv
  <2>5. ASSUME NEW d \in Call, NEW i \in closing'[d]
        PROVE  step'[i[2]] \in Passed /\ (i[1] \in Eager => i \notin up')
    <3>1. CASE d = c
      BY <1>1, <1>2, <2>1, <2>5, <3>1 DEF SlotInv, TypeInv
    <3>2. CASE d # c
      BY <1>2, <2>1, <2>5, <3>2 DEF SlotInv, TypeInv
    <3> QED BY <3>1, <3>2
  <2> QED BY <2>2, <2>3, <2>4, <2>5 DEF SlotInv
<1> QED BY <1>3, <1>4

(* The end of an awaited teardown.                                         *)
LEMMA ClosedInv ==
  ASSUME Inv, NEW c \in Call, PluginsClosed(c), NEW s \in Steps \ {"new"},
         step[c] = "closing", step' = [step EXCEPT ![c] = s],
         UNCHANGED <<calls, abandoned>>, mgr' \in Call \union {None}
  PROVE  Inv'
<1> USE DEF Inv
<1>1. \A i \in Instance : step[i[2]] \in Passed => step'[i[2]] \in Passed
  BY DEF Instance, TypeInv, Passed, Steps
<1>2. /\ up' = up \ closing[c]
      /\ registry' = [p \in Plugin |->
           IF p \notin Eager /\ \E i \in closing[c] : i[1] = p
           THEN None ELSE registry[p]]
      /\ closing' = [closing EXCEPT ![c] = {}]
      /\ \A g \in Call : plugins'[g] \subseteq plugins[g]
      /\ plugins' \in [Call -> SUBSET Instance]
  BY DEF PluginsClosed, TypeInv
<1>3. TypeInv'
  <2>1. /\ closing' \in [Call -> SUBSET Instance]
        /\ up' \subseteq Instance
        /\ registry' \in [Plugin -> Instance \union {None}]
    BY <1>2 DEF TypeInv
  <2>2. step' \in [Call -> Steps] /\ \A d \in Call : d > calls' => step'[d] = "new"
    BY DEF TypeInv
  <2> QED BY <1>2, <2>1, <2>2 DEF TypeInv
<1>4. ASSUME NEW p \in Plugin PROVE Named(p)'
  <2>1. CASE registry'[p] = None
    BY <2>1 DEF Named
  <2>2. CASE registry'[p] # None
    <3>1. registry'[p] = registry[p] /\ registry[p][1] = p
          /\ (registry[p] \in up \/ registry[p] \in abandoned)
      BY <1>2, <2>2 DEF SlotInv, Named
    <3>2. registry[p] \in up => registry[p] \notin closing[c]
      BY <1>2, <2>2, <3>1 DEF SlotInv
    <3> QED BY <1>2, <3>1, <3>2 DEF Named
  <2> QED BY <2>1, <2>2
<1>5. \A g \in Call : \A i \in plugins'[g] : step'[i[2]] \in Passed
  BY <1>1, <1>2 DEF SlotInv, TypeInv
<1>6. \A d \in Call : \A i \in closing'[d] :
         step'[i[2]] \in Passed /\ (i[1] \in Eager => i \notin up')
  BY <1>1, <1>2 DEF SlotInv, TypeInv
<1> QED BY <1>3, <1>4, <1>5, <1>6 DEF SlotInv

(* Steps that leave instances and slots alone.                             *)
LEMMA AdvanceInv ==
  ASSUME Inv, NEW c \in Call, NEW s \in Steps \ {"new"}, step[c] # "new",
         step[c] \in Passed => s \in Passed,
         step' = [step EXCEPT ![c] = s],
         UNCHANGED <<calls, mgr, plugins, up, abandoned, registry, closing>>
  PROVE  Inv'
<1>1. \A i \in Instance : step[i[2]] \in Passed => step'[i[2]] \in Passed
  BY DEF Instance, Inv, TypeInv
<1> QED BY <1>1 DEF Inv, TypeInv, SlotInv, Named

LEMMA SetUpInv == ASSUME Inv, NEW c \in Call, SetUp(c) PROVE Inv'
<1> USE DEF Inv
<1>1. PICK fail \in SUBSET Faulty : \E late \in SUBSET fail :
        /\ up' = up \union ((Plugin \ fail) \X {c})
        /\ abandoned' = abandoned \union (late \X {c})
        /\ registry' = [p \in Plugin |->
             IF p \in (Plugin \ fail) \union late THEN <<p, c>> ELSE registry[p]]
  BY DEF SetUp
<1>0. PICK late \in SUBSET fail :
        /\ abandoned' = abandoned \union (late \X {c})
        /\ registry' = [p \in Plugin |->
             IF p \in (Plugin \ fail) \union late THEN <<p, c>> ELSE registry[p]]
  BY <1>1
<1>2. /\ step[c] = "replay" /\ step' = [step EXCEPT ![c] = "setup"]
      /\ UNCHANGED <<calls, mgr, plugins, closing>>
  BY DEF SetUp, hostVars
<1>3. \A i \in Instance : step[i[2]] \in Passed => i[2] # c /\ step'[i[2]] \in Passed
  BY <1>2 DEF Instance, TypeInv, Passed
<1>4. TypeInv'
  <2>1. fail \subseteq Plugin /\ late \subseteq Plugin
    BY FaultyAssumption DEF Plugin
  <2>2. \A p \in Plugin : <<p, c>> \in Instance
    BY DEF Instance
  <2>3. up' \subseteq Instance /\ abandoned' \subseteq Instance
    BY <1>0, <1>1, <2>1, <2>2 DEF TypeInv
  <2>4. registry' \in [Plugin -> Instance \union {None}]
    BY <1>0, <2>2 DEF TypeInv
  <2> QED BY <1>2, <2>3, <2>4 DEF TypeInv, Steps
<1>5. ASSUME NEW p \in Plugin PROVE Named(p)'
  BY <1>0, <1>1 DEF SlotInv, Named
<1>6. \A g \in Call : \A i \in plugins'[g] : step'[i[2]] \in Passed
  BY <1>2, <1>3 DEF SlotInv, TypeInv
<1>7. ASSUME NEW d \in Call, NEW i \in closing'[d]
      PROVE  step'[i[2]] \in Passed /\ (i[1] \in Eager => i \notin up')
  <2>1. i \in Instance /\ i \in closing[d] /\ step[i[2]] \in Passed
    BY <1>2, <1>7 DEF SlotInv, TypeInv
  <2>2. i \notin (Plugin \ fail) \X {c}
    BY <1>3, <2>1
  <2> QED BY <1>1, <1>3, <2>1, <2>2 DEF SlotInv
<1> QED BY <1>4, <1>5, <1>6, <1>7 DEF SlotInv

LEMMA RouteInv == ASSUME Inv, NEW c \in Call, Route(c) PROVE Inv'
<1> USE DEF Inv
<1>1. /\ step[c] = "setup" /\ step' = [step EXCEPT ![c] = "boot"]
      /\ plugins' = [plugins EXCEPT ![target[c]] = {i \in up : i[2] = c}]
      /\ UNCHANGED <<calls, mgr, up, abandoned, registry, closing>>
  BY DEF Route, hostVars
<1>2. /\ \A i \in Instance : step[i[2]] \in Passed => step'[i[2]] \in Passed
      /\ step'[c] \in Passed
  BY <1>1 DEF Instance, TypeInv, Passed
<1>3. TypeInv'
  BY <1>1 DEF TypeInv, Steps
<1>4. ASSUME NEW g \in Call, NEW i \in plugins'[g] PROVE step'[i[2]] \in Passed
  <2>1. i \in plugins[g] \/ i[2] = c
    BY <1>1, <1>4 DEF TypeInv
  <2> QED BY <1>2, <2>1 DEF SlotInv, TypeInv
<1> QED BY <1>1, <1>2, <1>3, <1>4 DEF SlotInv, TypeInv, Named

(* The last steps of init(): what is tracked, and awaited, before the end. *)
LEMMA ResumedFacts ==
  ASSUME NEW c \in Call, Boot(c) \/ FirstOpenTracked(c) \/ SessionStartTracked(c)
  PROVE  \E s \in {"first_open", "session_start", "done"}, R \in {{"interval"}, {}} :
           /\ step[c] \in {"boot", "first_open", "session_start"}
           /\ R = IF step[c] = "boot" THEN {"interval"} ELSE {}
           /\ step' = [step EXCEPT ![c] = s]
           /\ Started(c, IF s = "done" THEN R \union {"lifecycle", "presence"} ELSE R)
           /\ initialized' = (initialized \/ s = "done")
           /\ UNCHANGED <<calls, op, project, overlap, hidden, cached, modules, target,
                          closing, mgr, plugins, up, abandoned, registry, applied,
                          chain, patch, cache>>
<1>1. CASE Boot(c)
  <2>1. PICK s \in {"first_open", "session_start", "done"} : Resumes(c, s, {"interval"})
    BY <1>1 DEF Boot
  <2> QED BY <1>1, <2>1 DEF Boot, Resumes, hostVars, pluginVars, historyVars
<1>2. CASE FirstOpenTracked(c)
  <2>1. PICK s \in {"session_start", "done"} : Resumes(c, s, {})
    BY <1>2 DEF FirstOpenTracked
  <2> QED BY <1>2, <2>1 DEF FirstOpenTracked, Resumes, hostVars, pluginVars, historyVars
<1>3. CASE SessionStartTracked(c)
  BY <1>3 DEF SessionStartTracked, Resumes, hostVars, pluginVars, historyVars
<1> QED BY <1>1, <1>2, <1>3

LEMMA NextInv == ASSUME Inv, [Next]_vars PROVE Inv'
<1>1. CASE VisibilityChange \/ UNCHANGED vars
  BY <1>1 DEF VisibilityChange, vars, hostVars, callVars, pluginVars, Inv, TypeInv,
              SlotInv, Named
<1>2. ASSUME NEW c \in Call, CallInit(c) \/ CallShutdown(c) PROVE Inv'
  BY <1>2, BeginInv DEF CallInit, CallShutdown
<1>3. ASSUME NEW c \in Call, ShutdownEnds(c) PROVE Inv'
  <2>1. mgr' \in Call \union {None}
    BY <1>3 DEF ShutdownEnds, Inv, TypeInv
  <2> QED BY <1>3, <2>1, ClosedInv DEF ShutdownEnds, hostVars, Steps
<1>4. ASSUME NEW c \in Call, NewManagers(c) PROVE Inv'
  BY <1>4, ClosedInv DEF NewManagers, hostVars, Steps
<1>5. ASSUME NEW c \in Call, HandshakeOk(c) \/ HandshakeFromCache(c) \/ HandshakeThrows(c)
      PROVE  Inv'
  <2>1. \E m : Handshaken(c, m)
    BY <1>5 DEF HandshakeOk, HandshakeFromCache, HandshakeThrows
  <2> QED BY <2>1, AdvanceInv DEF Handshaken, hostVars, pluginVars, Steps, Passed
<1>6. ASSUME NEW c \in Call, Boot(c) \/ FirstOpenTracked(c) \/ SessionStartTracked(c)
      PROVE  Inv'
  BY <1>6, ResumedFacts, AdvanceInv DEF Steps, Passed
<1> QED BY <1>1, <1>2, <1>3, <1>4, <1>5, <1>6, SetUpInv, RouteInv DEF Next, Proceed

(* Whatever overlaps, a plugin's slot in the module registry is empty or   *)
(* holds an instance that is up, or one that no shutdown() can reach, for  *)
(* its setup() threw after it had registered (module-registry.ts,          *)
(* plugins.ts:45-64 and 199-214, catch/plugin.ts:208-271).                 *)
THEOREM RegistryIsLive == Spec => []NoStaleSingleton
<1>1. Inv => NoStaleSingleton
  BY DEF Inv, SlotInv, Named, NoStaleSingleton
<1> QED BY <1>1, InitInv, NextInv, PTL DEF Spec
-----------------------------------------------------------------------------
(* As long as calls do not overlap, only the latest is under way, and from *)
(* its handshake on the current managers are its own.                      *)
UnderWay == {"handshake", "replay", "setup", "boot", "first_open", "session_start"}

Own(x, c) == x = None \/ (x = project[c] /\ c <= calls)

DataTypeInv ==
  /\ op \in [Call -> {"init", "shutdown", None}]
  /\ project \in [Call -> Project \union {None}]
  /\ cached \in [Call -> Project \union {None}]
  /\ modules \in [Call -> Project \union {None}]
  /\ target \in [Call -> Call \union {None}]
  /\ applied \in [Instance -> Project \union {None}]
  /\ cache \in [Project -> Project \union {None}]
  /\ \A c \in Call : step[c] \in UnderWay => project[c] \in Project
  /\ \A c \in Call : step[c] = "closing" /\ op[c] = "init" => project[c] \in Project

AloneInv ==
  /\ \A c \in Call : step[c] \notin {"new", "done"} => c = calls
  /\ \A c \in Call : step[c] \in UnderWay => mgr = c
  /\ \A c \in Call : step[c] = "setup" => target[c] = c
  /\ \A c \in Call : Own(cached[c], c) /\ Own(modules[c], c)
  /\ \A k \in Project : cache[k] \in {k, None}
  /\ \A i \in Instance : Own(applied[i], i[2])

DataInv == TypeInv /\ DataTypeInv /\ (overlap \/ AloneInv)

LEMMA InitData == Init => DataTypeInv /\ AloneInv
  BY DEF Init, DataTypeInv, AloneInv, Own, Instance, UnderWay, Call

LEMMA BeginData ==
  ASSUME DataInv, NEW c \in Call, NEW o \in {"init", "shutdown"},
         NEW k \in Project \union {None}, o = "init" => k \in Project, Begin(c, o, k)
  PROVE  DataTypeInv' /\ (overlap \/ AloneInv)'
<1> USE DEF DataInv
<1>1. /\ c = calls + 1 /\ calls' = c
      /\ step[c] = "new" /\ step' = [step EXCEPT ![c] = "closing"]
      /\ project' = [project EXCEPT ![c] = k]
      /\ overlap' = (overlap \/ Pending # {})
      /\ UNCHANGED <<mgr, cached, modules, applied, cache>>
  BY BoundsAssumption DEF Begin, TypeInv, Call, storageVars
<1>2. op' = [d \in Call |->
         IF d = c THEN o ELSE IF d \in Pending THEN op[d] ELSE None]
  BY DEF Begin
<1>3. target' = [target EXCEPT ![c] = mgr]
  BY DEF Begin, StopAll
<1>4. DataTypeInv'
  <2>1. /\ project' \in [Call -> Project \union {None}]
        /\ op' \in [Call -> {"init", "shutdown", None}]
        /\ target' \in [Call -> Call \union {None}]
    BY <1>1, <1>2, <1>3 DEF DataTypeInv, TypeInv
  <2>2. ASSUME NEW d \in Call, step'[d] \in UnderWay PROVE project'[d] \in Project
    BY <1>1, <2>2 DEF DataTypeInv, TypeInv, UnderWay
  <2>3. ASSUME NEW d \in Call, step'[d] = "closing", op'[d] = "init"
        PROVE  project'[d] \in Project
    BY <1>1, <1>2, <2>3 DEF DataTypeInv, TypeInv, Pending
  <2> QED BY <1>1, <2>1, <2>2, <2>3 DEF DataTypeInv
<1>5. ASSUME ~overlap' PROVE AloneInv'
  <2>1. AloneInv /\ Pending = {} /\ calls \in Nat
    BY <1>1, <1>5 DEF TypeInv
  <2>2. \A d \in Call : d # c => step'[d] \in {"new", "done"}
    BY <1>1, <2>1 DEF TypeInv, Pending
  <2>3. step'[c] = "closing"
    BY <1>1 DEF TypeInv
  <2>4. ASSUME NEW d \in Call, NEW x, Own(x, d) PROVE Own(x, d)'
    BY <1>1, <2>1, <2>4 DEF Own, DataTypeInv, Call
  <2>5. \A d \in Call : Own(cached[d], d)' /\ Own(modules[d], d)'
    BY <1>1, <2>1, <2>4 DEF AloneInv
  <2>6. \A i \in Instance : Own(applied[i], i[2])'
    <3>1. \A i \in Instance : i[2] \in Call
      BY DEF Instance
    <3> QED BY <1>1, <2>1, <2>4, <3>1 DEF AloneInv
  <2> QED BY <1>1, <2>1, <2>2, <2>3, <2>5, <2>6 DEF AloneInv, UnderWay
<1> QED BY <1>4, <1>5

LEMMA ClosedData ==
  ASSUME DataInv, NEW c \in Call,
         step[c] = "closing",
         \/ ShutdownEnds(c)
         \/ NewManagers(c)
  PROVE  DataTypeInv' /\ (overlap \/ AloneInv)'
<1> USE DEF DataInv
<1>1. /\ applied' = [i \in Instance |-> IF i \in closing[c] THEN None ELSE applied[i]]
      /\ target' = [target EXCEPT ![c] = None]
      /\ UNCHANGED <<calls, op, project, overlap, modules, cache>>
  BY DEF ShutdownEnds, NewManagers, PluginsClosed, hostVars, storageVars
<1>2. \/ /\ op[c] = "shutdown" /\ step' = [step EXCEPT ![c] = "done"]
         /\ UNCHANGED <<mgr, cached>>
      \/ /\ op[c] = "init" /\ step' = [step EXCEPT ![c] = "handshake"]
         /\ mgr' = c /\ cached' = [cached EXCEPT ![c] = cache[project[c]]]
  BY DEF ShutdownEnds, NewManagers
<1>3. op[c] = "init" => project[c] \in Project
  BY DEF DataTypeInv
<1>4. DataTypeInv'
  <2>1. /\ applied' \in [Instance -> Project \union {None}]
        /\ target' \in [Call -> Call \union {None}]
        /\ cached' \in [Call -> Project \union {None}]
    BY <1>1, <1>2, <1>3 DEF DataTypeInv
  <2>2. \A d \in Call : step'[d] \in UnderWay => project[d] \in Project
    BY <1>2, <1>3 DEF DataTypeInv, TypeInv, UnderWay
  <2>3. \A d \in Call : step'[d] = "closing" /\ op[d] = "init" => project[d] \in Project
    BY <1>2 DEF DataTypeInv, TypeInv
  <2> QED BY <1>1, <2>1, <2>2, <2>3 DEF DataTypeInv
<1>5. ASSUME ~overlap' PROVE AloneInv'
  <2>1. AloneInv
    BY <1>1, <1>5
  <2>2. c = calls /\ \A d \in Call : d # c => step[d] \in {"new", "done"}
    BY <2>1 DEF AloneInv
  <2>3. \A d \in Call : d # c => step'[d] \in {"new", "done"}
    BY <1>2, <2>2 DEF TypeInv
  <2>4. step'[c] \in {"done", "handshake"} /\ (step'[c] = "handshake" => mgr' = c)
    BY <1>2 DEF TypeInv
  <2>5. \A d \in Call : Own(cached[d], d)'
    <3>1. cache[project[c]] = None \/ cache[project[c]] = project[c] \/ op[c] = "shutdown"
      BY <1>2, <1>3, <2>1 DEF AloneInv
    <3> QED BY <1>1, <1>2, <1>3, <2>1, <2>2, <3>1 DEF AloneInv, Own, TypeInv, DataTypeInv
  <2>6. \A i \in Instance : Own(applied[i], i[2])'
    BY <1>1, <2>1 DEF AloneInv, Own
  <2>7. \A d \in Call : Own(modules[d], d)'
    BY <1>1, <2>1 DEF AloneInv, Own
  <2> QED BY <1>1, <2>1, <2>2, <2>3, <2>4, <2>5, <2>6, <2>7 DEF AloneInv, UnderWay
<1> QED BY <1>4, <1>5

(* A handshake that answers gives its own call the modules of its project. *)
LEMMA HandshakeData ==
  ASSUME DataInv, NEW c \in Call, NEW m \in {project[c], cached[c], None},
         Handshaken(c, m),
         \/ UNCHANGED cache
         \/ cache' = [cache EXCEPT ![project[mgr]] = project[c]]
  PROVE  DataTypeInv' /\ (overlap \/ AloneInv)'
<1> USE DEF DataInv
<1>1. /\ step[c] = "handshake" /\ step' = [step EXCEPT ![c] = "replay"]
      /\ modules' = [modules EXCEPT ![c] = m]
      /\ cached' = [cached EXCEPT ![c] = None]
      /\ UNCHANGED <<calls, op, project, overlap, target, mgr, applied>>
  BY DEF Handshaken, hostVars, pluginVars
<1>2. project[c] \in Project
  BY <1>1 DEF DataTypeInv, UnderWay
<1>3. DataTypeInv'
  <2>1. /\ modules' \in [Call -> Project \union {None}]
        /\ cached' \in [Call -> Project \union {None}]
        /\ cache' \in [Project -> Project \union {None}]
    BY <1>1, <1>2 DEF DataTypeInv
  <2>2. \A d \in Call : step'[d] \in UnderWay => project[d] \in Project
    BY <1>1, <1>2 DEF DataTypeInv, TypeInv, UnderWay
  <2>3. \A d \in Call : step'[d] = "closing" /\ op[d] = "init" => project[d] \in Project
    BY <1>1 DEF DataTypeInv, TypeInv
  <2> QED BY <1>1, <2>1, <2>2, <2>3 DEF DataTypeInv
<1>4. ASSUME ~overlap' PROVE AloneInv'
  <2>1. AloneInv
    BY <1>1, <1>4
  <2>2. c = calls /\ mgr = c
    BY <1>1, <2>1 DEF AloneInv, UnderWay
  <2>3. \A k \in Project : cache'[k] \in {k, None}
    BY <1>2, <2>1, <2>2 DEF AloneInv, DataTypeInv
  <2>4. \A d \in Call : Own(modules[d], d)' /\ Own(cached[d], d)'
    BY <1>1, <2>1, <2>2 DEF AloneInv, Own, DataTypeInv, TypeInv
  <2>5. \A d \in Call : step'[d] \notin {"new", "done"} => d = calls'
    BY <1>1, <2>1, <2>2 DEF AloneInv, TypeInv
  <2>6. \A d \in Call : step'[d] \in UnderWay => mgr' = d
    BY <1>1, <2>1, <2>2 DEF AloneInv, TypeInv
  <2>7. \A d \in Call : step'[d] = "setup" => target'[d] = d
    BY <1>1, <2>1 DEF AloneInv, TypeInv
  <2>8. \A i \in Instance : Own(applied[i], i[2])'
    BY <1>1, <2>1 DEF AloneInv, Own
  <2> QED BY <2>3, <2>4, <2>5, <2>6, <2>7, <2>8 DEF AloneInv
<1> QED BY <1>3, <1>4

LEMMA SetUpData ==
  ASSUME DataInv, NEW c \in Call, SetUp(c)
  PROVE  DataTypeInv' /\ (overlap \/ AloneInv)'
<1> USE DEF DataInv
<1>1. /\ step[c] = "replay" /\ step' = [step EXCEPT ![c] = "setup"]
      /\ target' = [target EXCEPT ![c] = mgr]
      /\ UNCHANGED <<calls, op, project, overlap, cached, modules, mgr, applied, cache>>
  BY DEF SetUp, hostVars, storageVars
<1>2. DataTypeInv'
  BY <1>1 DEF DataTypeInv, TypeInv, UnderWay
<1>3. ASSUME ~overlap' PROVE AloneInv'
  BY <1>1, <1>3 DEF AloneInv, TypeInv, DataTypeInv, UnderWay, Own
<1> QED BY <1>2, <1>3

(* routeHandshake() reaches the instances of its own call.                 *)
LEMMA RouteData ==
  ASSUME DataInv, NEW c \in Call, Route(c)
  PROVE  DataTypeInv' /\ (overlap \/ AloneInv)'
<1> USE DEF DataInv
<1>1. /\ step[c] = "setup" /\ step' = [step EXCEPT ![c] = "boot"]
      /\ modules' = [modules EXCEPT ![c] = None]
      /\ target' = [target EXCEPT ![c] = None]
      /\ UNCHANGED <<calls, op, project, overlap, cached, mgr, cache>>
  BY DEF Route, hostVars, storageVars
<1>2. applied' = [i \in Instance |->
        IF i \in [plugins EXCEPT ![target[c]] = {j \in up : j[2] = c}][mgr]
           /\ modules[c] # None
        THEN modules[c] ELSE applied[i]]
  BY DEF Route
<1>3. DataTypeInv'
  <2>1. applied' \in [Instance -> Project \union {None}]
    BY <1>2 DEF DataTypeInv
  <2> QED BY <1>1, <2>1 DEF DataTypeInv, TypeInv, UnderWay
<1>4. ASSUME ~overlap' PROVE AloneInv'
  <2>1. AloneInv
    BY <1>1, <1>4
  <2>2. c = calls /\ mgr = c /\ target[c] = c
    BY <1>1, <2>1 DEF AloneInv, UnderWay
  <2>3. ASSUME NEW i \in Instance PROVE Own(applied[i], i[2])'
    <3>1. CASE applied'[i] = applied[i]
      BY <1>1, <2>1, <3>1 DEF AloneInv, Own
    <3>2. CASE applied'[i] # applied[i]
      <4>1. i[2] = c /\ applied'[i] = modules[c]
        BY <1>2, <2>2, <3>2 DEF TypeInv
      <4> QED BY <1>1, <2>1, <4>1 DEF AloneInv, Own
    <3> QED BY <3>1, <3>2
  <2>4. \A d \in Call : Own(modules[d], d)' /\ Own(cached[d], d)'
    BY <1>1, <2>1 DEF AloneInv, Own, DataTypeInv
  <2>5. /\ \A d \in Call : step'[d] \notin {"new", "done"} => d = calls'
        /\ \A d \in Call : step'[d] \in UnderWay => mgr' = d
        /\ \A d \in Call : step'[d] = "setup" => target'[d] = d
    BY <1>1, <2>1, <2>2 DEF AloneInv, TypeInv, UnderWay, DataTypeInv
  <2> QED BY <1>1, <2>1, <2>3, <2>4, <2>5 DEF AloneInv
<1> QED BY <1>3, <1>4

LEMMA BootData ==
  ASSUME DataInv, NEW c \in Call, Boot(c) \/ FirstOpenTracked(c) \/ SessionStartTracked(c)
  PROVE  DataTypeInv' /\ (overlap \/ AloneInv)'
<1> USE DEF DataInv
<1>1. /\ step[c] \in {"boot", "first_open", "session_start"}
      /\ \E s \in {"first_open", "session_start", "done"} : step' = [step EXCEPT ![c] = s]
      /\ UNCHANGED <<calls, op, project, overlap, cached, modules, target, mgr, applied, cache>>
  BY ResumedFacts
<1>2. DataTypeInv'
  BY <1>1 DEF DataTypeInv, TypeInv, UnderWay
<1>3. ASSUME ~overlap' PROVE AloneInv'
  BY <1>1, <1>3 DEF AloneInv, TypeInv, UnderWay, Own
<1> QED BY <1>2, <1>3

LEMMA NextData == ASSUME DataInv, [Next]_vars PROVE DataTypeInv' /\ (overlap \/ AloneInv)'
<1>1. CASE VisibilityChange \/ UNCHANGED vars
  BY <1>1 DEF VisibilityChange, vars, hostVars, callVars, pluginVars, storageVars,
              DataInv, DataTypeInv, AloneInv, Own
<1>2. ASSUME NEW c \in Call, CallInit(c) \/ CallShutdown(c)
      PROVE  DataTypeInv' /\ (overlap \/ AloneInv)'
  BY <1>2, BeginData DEF CallInit, CallShutdown
<1>3. ASSUME NEW c \in Call, ShutdownEnds(c) \/ NewManagers(c)
      PROVE  DataTypeInv' /\ (overlap \/ AloneInv)'
  <2>1. step[c] = "closing"
    BY <1>3 DEF ShutdownEnds, NewManagers
  <2> QED BY <1>3, <2>1, ClosedData
<1>4. ASSUME NEW c \in Call, HandshakeOk(c) \/ HandshakeFromCache(c) \/ HandshakeThrows(c)
      PROVE  DataTypeInv' /\ (overlap \/ AloneInv)'
  BY <1>4, HandshakeData DEF HandshakeOk, HandshakeFromCache, HandshakeThrows
<1> QED BY <1>1, <1>2, <1>3, <1>4, SetUpData, RouteData, BootData DEF Next, Proceed

(* Calls that do not overlap keep to their project: what is cached under a *)
(* project's prefix, and what its plugins were given, came from its own    *)
(* handshake (client.ts:633-686, plugins.ts:83-104).                       *)
THEOREM ModulesAreOwn == Spec => []OwnModules
<1>1. Spec => []Inv
  BY InitInv, NextInv, PTL DEF Spec
<1>2. Init => DataTypeInv /\ (overlap \/ AloneInv)
  BY InitData
<1>3. Inv /\ DataTypeInv /\ (overlap \/ AloneInv) /\ [Next]_vars
        => DataTypeInv' /\ (overlap \/ AloneInv)'
  BY NextData DEF Inv, DataInv
<1>4. Spec => [](Inv /\ DataTypeInv /\ (overlap \/ AloneInv))
  BY <1>1, <1>2, <1>3, PTL DEF Spec
<1>5. Inv /\ DataTypeInv /\ (overlap \/ AloneInv) => OwnModules
  BY DEF Inv, TypeInv, AloneInv, Own, OwnModules
<1> QED BY <1>4, <1>5, PTL
-----------------------------------------------------------------------------
(***************************************************************************)
(* Calls one after the other: what the latest call has got to decides what *)
(* is running, which instances are up and listed, and who wraps history.   *)
(***************************************************************************)
Phase ==
  IF calls = 0 THEN "off"
  ELSE IF step[calls] # "done" THEN step[calls]
  ELSE IF op[calls] = "init" THEN "on" ELSE "off"

InUse ==
  IF Phase = "on" THEN Resource
  ELSE IF Phase \in {"first_open", "session_start"} THEN {"interval"} ELSE {}

Listed == IF mgr = None THEN {} ELSE plugins[mgr]

PhaseInv ==
  /\ calls \in Call \union {0}
  /\ Phase # "new"
  /\ Phase \notin {"off", "closing"} => op[calls] = "init"

ResourceInv ==
  /\ running \in [Resource -> SUBSET Call]
  /\ held \in [Resource -> Call \union {None}]
  /\ \A r \in Resource : /\ running[r] = {c \in {calls} : r \in InUse}
                         /\ held[r] = IF r \in InUse THEN calls ELSE None
  /\ ticking = IF hidden THEN {} ELSE running["presence"]
  /\ Phase # "closing" => initialized = (Phase = "on")

(* Instances: only the current managers list any, only theirs are up, and  *)
(* the registry names those; what is abandoned is nobody's.                *)
InstanceInv ==
  /\ mgr # None => mgr <= calls
  /\ Phase \notin {"off", "closing"} => mgr = calls
  /\ \A g \in Call : g # mgr => plugins[g] = {}
  /\ \A i \in up : i[2] = mgr
  /\ \A p \in Plugin : IF <<p, mgr>> \in up THEN registry[p] = <<p, mgr>>
                        ELSE registry[p] \in abandoned \union {None}
  /\ \A i \in abandoned :
       /\ i \notin up /\ i[2] <= calls
       /\ i[2] = calls => Phase \notin {"closing", "handshake", "replay"}
  /\ \A c \in Call : step[c] = "new" => closing[c] = {}
  /\ Phase \in {"off", "handshake", "replay", "setup"} => Listed = {}
  /\ Phase \in {"off", "handshake", "replay"} => up = {}
  /\ Phase \in {"boot", "first_open", "session_start", "on"} => Listed = up
  /\ Phase = "closing" => /\ target[calls] = mgr
                          /\ closing[calls] = Listed
                          /\ up \subseteq Listed
                          /\ \A i \in up : i[1] \notin Eager

(* Wrappers: what will be put back holds no Catch, and a Catch is in the   *)
(* chain only while it is up, or abandoned by the call that is latest.     *)
NoCatchIn(s) == \A i \in DOMAIN s : s[i][1] = "core" /\ s[i][2] <= calls

Once(o) == \E i \in DOMAIN chain : \A j \in DOMAIN chain : chain[j] = o <=> j = i

Idle == Phase \in {"off", "closing"}

WrapperInv ==
  /\ chain \in Seq(Owner)
  /\ patch \in [Owner -> Seq(Owner) \union {Unpatched}]
  /\ \A i \in DOMAIN chain :
       /\ chain[i][2] <= calls
       /\ chain[i][1] = "catch" =>
            chain[i] \in up \/ (~Idle /\ chain[i] \in abandoned /\ chain[i][2] = calls)
  /\ \A o \in Owner : patch[o] # Unpatched /\ o \notin abandoned =>
       /\ o[2] = mgr /\ (o[1] = "catch" => o \in up)
       /\ patch[o] \in Seq(Owner) /\ NoCatchIn(patch[o])
  /\ \A o \in Owner : o \in up => patch[o] # Unpatched
  /\ Idle => \A o \in Owner : o \notin abandoned => patch[o] = Unpatched
  /\ Phase = "closing" => \A i \in DOMAIN chain : chain[i][2] # calls
  /\ ~Idle => Once(<<"core", calls>>) /\ patch[<<"core", calls>>] # Unpatched

LatestInv == PhaseInv /\ ResourceInv /\ InstanceInv /\ WrapperInv

Alone == TypeInv /\ DataTypeInv /\ AloneInv /\ LatestInv

LEMMA OwnerIsPair ==
  /\ \A i \in Instance : i[1] \in Plugin /\ i[2] \in Call /\ i = <<i[1], i[2]>>
  /\ \A o \in Owner : /\ o[1] \in {"core", "catch"} /\ o[2] \in Call
                      /\ o = <<o[1], o[2]>>
                      /\ o[1] = "catch" => o \in Instance
                      /\ o[1] = "core" => o \notin Instance
  BY DEF Instance, Owner, Plugin

(* A wrapper goes in front of the chain.                                   *)
LEMMA PrependFacts ==
  ASSUME NEW s \in Seq(Owner), NEW o \in Owner
  PROVE  /\ <<o>> \o s \in Seq(Owner)
         /\ DOMAIN (<<o>> \o s) = 1 .. Len(s) + 1
         /\ DOMAIN s = 1 .. Len(s)
         /\ (<<o>> \o s)[1] = o
         /\ \A i \in 1 .. Len(s) : (<<o>> \o s)[i + 1] = s[i]
         /\ \A i \in DOMAIN (<<o>> \o s) :
              i = 1 \/ (i - 1 \in DOMAIN s /\ (<<o>> \o s)[i] = s[i - 1])
<1>1. <<o>> \in Seq(Owner) /\ Len(<<o>>) = 1 /\ <<o>>[1] = o
  OBVIOUS
<1>2. /\ <<o>> \o s \in Seq(Owner)
      /\ Len(<<o>> \o s) = Len(s) + 1
      /\ DOMAIN s = 1 .. Len(s)
      /\ \A i \in 1 .. Len(s) + 1 :
           (<<o>> \o s)[i] = IF i = 1 THEN o ELSE s[i - 1]
  BY <1>1
<1> QED BY <1>2

LEMMA PhaseOf ==
  ASSUME Alone, NEW c \in Call, step[c] \notin {"new", "done"}
  PROVE  c = calls /\ Phase = step[c]
BY DEF Alone, AloneInv, Phase, Call

LEMMA PhaseThen ==
  ASSUME Alone, NEW c \in Call, step[c] \notin {"new", "done"},
         NEW s, step' = [step EXCEPT ![c] = s], UNCHANGED <<calls, op>>
  PROVE  /\ s # "done" => Phase' = s
         /\ s = "done" => Phase' = IF op[c] = "init" THEN "on" ELSE "off"
<1>1. c = calls /\ calls # 0
  BY PhaseOf, BoundsAssumption DEF Call
<1>2. step'[c] = s
  BY DEF Alone, TypeInv
<1> QED BY <1>1, <1>2 DEF Phase

-----------------------------------------------------------------------------
(* A call begins when the one before it is over.                           *)
LEMMA BeginFacts ==
  ASSUME Alone, NEW c \in Call, NEW o \in {"init", "shutdown"}, NEW k,
         Begin(c, o, k), ~overlap'
  PROVE  /\ c = calls + 1 /\ calls' = c /\ calls \in Nat
         /\ step[c] = "new" /\ step' = [step EXCEPT ![c] = "closing"]
         /\ Phase \in {"off", "on"} /\ Phase' = "closing"
         /\ target' = [target EXCEPT ![c] = mgr]
         /\ UNCHANGED <<mgr, plugins, abandoned, initialized, hidden>>
<1> USE DEF Alone
<1>1. /\ c = calls + 1 /\ calls' = c /\ calls \in Nat
      /\ step[c] = "new" /\ step' = [step EXCEPT ![c] = "closing"]
      /\ Pending = {}
      /\ target' = [target EXCEPT ![c] = mgr]
      /\ UNCHANGED <<mgr, plugins, abandoned, initialized, hidden>>
  <2>1. /\ c = calls + 1 /\ calls' = c
        /\ step' = [step EXCEPT ![c] = "closing"]
        /\ UNCHANGED <<mgr, plugins, abandoned, initialized, hidden>>
    BY DEF Begin
  <2>2. calls \in Nat /\ step[c] = "new"
    BY <2>1, BoundsAssumption DEF TypeInv, Call
  <2>3. Pending = {}
    BY DEF Begin
  <2>4. target' = [target EXCEPT ![c] = mgr]
    BY DEF Begin, StopAll
  <2> QED BY <2>1, <2>2, <2>3, <2>4
<1>2. Phase \in {"off", "on"}
  <2>1. CASE calls = 0
    BY <2>1 DEF Phase
  <2>2. CASE calls # 0
    <3>1. calls \in Call
      BY <2>2 DEF LatestInv, PhaseInv
    <3>2. step[calls] \in {"new", "done"}
      BY <1>1, <3>1 DEF Pending
    <3> QED BY <2>2, <3>2 DEF LatestInv, PhaseInv, Phase
  <2> QED BY <2>1, <2>2
<1>3. Phase' = "closing"
  <2>1. step'[c] = "closing" /\ calls' # 0
    BY <1>1 DEF TypeInv
  <2> QED BY <1>1, <2>1 DEF Phase
<1> QED BY <1>1, <1>2, <1>3

LEMMA BeginResources ==
  ASSUME Alone, NEW c \in Call, NEW o \in {"init", "shutdown"}, NEW k,
         Begin(c, o, k), ~overlap'
  PROVE  PhaseInv' /\ ResourceInv'
<1>1. /\ Phase \in {"off", "on"} /\ Phase' = "closing" /\ calls' = c
      /\ UNCHANGED <<initialized, hidden>>
  BY BeginFacts
<1>2. PhaseInv'
  BY <1>1 DEF PhaseInv
<1>3. /\ running' = [r \in Resource |-> running[r] \ {held[r]}]
      /\ held' = [r \in Resource |-> None]
      /\ ticking' = ticking \ {held["presence"]}
  BY DEF Begin, StopAll
<1>4. /\ \A r \in Resource : running[r] \ {held[r]} = {}
      /\ ticking \ {held["presence"]} = {}
  <2>1. "presence" \in Resource
    BY DEF Resource
  <2>2. \A r \in Resource : running[r] \subseteq {held[r]}
    BY DEF Alone, LatestInv, ResourceInv
  <2>3. ticking \subseteq running["presence"]
    BY DEF Alone, LatestInv, ResourceInv
  <2> QED BY <2>1, <2>2, <2>3
<1>5. InUse' = {}
  BY <1>1 DEF InUse
<1>6. /\ \A r \in Resource : running'[r] = {} /\ held'[r] = None
      /\ ticking' = {}
      /\ running' \in [Resource -> SUBSET Call]
      /\ held' \in [Resource -> Call \union {None}]
  BY <1>3, <1>4
<1>7. running'["presence"] = {}
  BY <1>6 DEF Resource
<1> QED BY <1>1, <1>2, <1>5, <1>6, <1>7 DEF ResourceInv

LEMMA BeginInstances ==
  ASSUME Alone, NEW c \in Call, NEW o \in {"init", "shutdown"}, NEW k,
         Begin(c, o, k), ~overlap'
  PROVE  InstanceInv' /\ \A i \in up' : i \in up /\ i[1] \notin Eager
<1> USE DEF Alone
<1>1. /\ c = calls + 1 /\ calls' = c /\ calls \in Nat
      /\ step[c] = "new" /\ step' = [step EXCEPT ![c] = "closing"]
      /\ Phase \in {"off", "on"} /\ Phase' = "closing"
      /\ target' = [target EXCEPT ![c] = mgr]
      /\ UNCHANGED <<mgr, plugins, abandoned>>
  BY BeginFacts
<1>7. \A i \in abandoned : i \notin up /\ i[2] <= calls' /\ i[2] # calls'
  <2>1. \A i \in abandoned : i \in Instance /\ i \notin up /\ i[2] <= calls
    BY DEF LatestInv, InstanceInv, TypeInv
  <2> QED BY <1>1, <2>1, OwnerIsPair, BoundsAssumption DEF Call
<1>2. up \subseteq Listed
  BY <1>1 DEF LatestInv, InstanceInv
<1>3. Listed' = Listed
  BY <1>1 DEF Listed
<1>4. /\ target'[c] = mgr
      /\ \A d \in Call : step'[d] = "new" => step[d] = "new" /\ d # c
  BY <1>1 DEF TypeInv, DataTypeInv
<1>5. CASE mgr = None
  <2>1. UNCHANGED <<up, registry, closing>>
    BY <1>5 DEF Begin, StopAll
  <2>2. up = {} /\ Listed = {}
    BY <1>2, <1>5 DEF Listed
  <2>3. closing[c] = {}
    BY <1>1 DEF LatestInv, InstanceInv
  <2> QED BY <1>1, <1>3, <1>4, <1>5, <1>7, <2>1, <2>2, <2>3 DEF LatestInv, InstanceInv
<1>6. CASE mgr # None
  <2>1. /\ up' = {i \in up : i \notin plugins[mgr] \/ i[1] \notin Eager}
        /\ registry' = [p \in Plugin |->
               IF p \in Eager /\ \E i \in plugins[mgr] : i[1] = p
               THEN None ELSE registry[p]]
        /\ closing' = [closing EXCEPT ![c] = plugins[mgr]]
    BY <1>6 DEF Begin, StopAll
  <2>2. Listed = plugins[mgr]
    BY <1>6 DEF Listed
  <2>3. \A i \in up : i \in up' <=> i[1] \notin Eager
    BY <1>2, <2>1, <2>2
  <2>4. up' \subseteq up /\ \A i \in up' : i[1] \notin Eager
    BY <2>1, <2>3
  <2>5. \A p \in Plugin : IF <<p, mgr>> \in up' THEN registry'[p] = <<p, mgr>>
                          ELSE registry'[p] \in abandoned \union {None}
    <3> TAKE p \in Plugin
    <3>1. IF <<p, mgr>> \in up THEN registry[p] = <<p, mgr>>
          ELSE registry[p] \in abandoned \union {None}
      BY DEF LatestInv, InstanceInv
    <3>2. CASE <<p, mgr>> \in up
      <4>1. <<p, mgr>> \in plugins[mgr] /\ <<p, mgr>>[1] = p
        BY <1>2, <2>2, <3>2
      <4>2. <<p, mgr>> \in up' <=> p \notin Eager
        BY <2>3, <3>2, <4>1
      <4> QED BY <2>1, <3>1, <3>2, <4>1, <4>2
    <3>3. CASE <<p, mgr>> \notin up
      BY <2>1, <2>4, <3>1, <3>3
    <3> QED BY <3>2, <3>3
  <2>6. /\ closing'[c] = Listed
        /\ \A d \in Call : d # c => closing'[d] = closing[d]
    BY <2>1, <2>2 DEF TypeInv
  <2>7. \A d \in Call : step'[d] = "new" => closing'[d] = {}
    BY <1>4, <2>6 DEF LatestInv, InstanceInv
  <2>8. mgr <= calls'
    <3>1. mgr \in Call /\ mgr <= calls
      BY <1>6 DEF TypeInv, LatestInv, InstanceInv
    <3> QED BY <1>1, <3>1, BoundsAssumption DEF Call
  <2> QED BY <1>1, <1>2, <1>3, <1>4, <1>6, <1>7, <2>4, <2>5, <2>6, <2>7, <2>8
          DEF LatestInv, InstanceInv
<1> QED BY <1>5, <1>6

(* shutdown() leaves no Catch in the chain: what it puts back has none.    *)
LEMMA BeginWrappers ==
  ASSUME Alone, NEW c \in Call, NEW o \in {"init", "shutdown"}, NEW k,
         Begin(c, o, k), ~overlap'
  PROVE  WrapperInv'
<1> USE DEF Alone
<1>1. /\ c = calls + 1 /\ calls' = c /\ calls \in Nat
      /\ Phase \in {"off", "on"} /\ Phase' = "closing"
      /\ abandoned' = abandoned
  BY BeginFacts
<1>2. \A i \in up' : i \in up /\ i[1] \notin Eager
  BY BeginInstances
<1>6. \A i \in abandoned : i \notin up /\ i[1] # "core"
  BY OwnerIsPair DEF LatestInv, InstanceInv, TypeInv, Plugin
<1>7. Phase = "on" => mgr = calls /\ calls \in Call
  BY DEF Phase, LatestInv, PhaseInv, InstanceInv
<1>8. Phase = "off" => /\ up = {} /\ Listed = {}
                       /\ \A i \in DOMAIN chain : chain[i][1] # "catch"
  BY DEF LatestInv, InstanceInv, WrapperInv, Idle
<1>3. up \subseteq Listed /\ up \subseteq Instance
  BY <1>1 DEF LatestInv, InstanceInv, TypeInv
<1>4. CASE mgr = None
  <2>1. UNCHANGED <<chain, patch>>
    BY <1>4 DEF Begin, StopAll, historyVars
  <2>2. up = {}
    BY <1>3, <1>4 DEF Listed
  <2>3. \A w \in Owner : w \notin abandoned => patch[w] = Unpatched
    BY <1>4, NoneAssumption, OwnerIsPair DEF LatestInv, WrapperInv
  <2>4. \A i \in DOMAIN chain : chain[i][2] <= calls /\ chain[i] \in Owner
    BY DEF LatestInv, WrapperInv
  <2>5. \A i \in DOMAIN chain : chain[i][2] <= c /\ chain[i][2] # c
    BY <1>1, <2>4, OwnerIsPair, BoundsAssumption DEF Call
  <2>6. \A i \in DOMAIN chain : chain[i][1] # "catch"
    BY <1>1, <1>4, <1>7, <1>8, NoneAssumption
  <2>7. \A w \in Owner : w \notin up'
    BY <1>2, <2>2
  <2> QED BY <1>1, <2>1, <2>3, <2>5, <2>6, <2>7 DEF LatestInv, WrapperInv, Idle
<1>5. CASE mgr # None
  <2>1. /\ chain' = Restored(mgr)
        /\ patch' = [w \in Owner |->
                         IF w \in plugins[mgr] \union {<<"core", mgr>>}
                         THEN Unpatched ELSE patch[w]]
        /\ mgr \in Call
    BY <1>5 DEF Begin, StopAll, TypeInv
  <2>2. \A w \in Owner : w \notin abandoned => patch'[w] = Unpatched
    <3> SUFFICES ASSUME NEW w \in Owner, w \notin abandoned, patch[w] # Unpatched
                 PROVE  w \in plugins[mgr] \union {<<"core", mgr>>}
      BY <2>1
    <3>1. w[2] = mgr /\ (w[1] = "catch" => w \in up)
      BY DEF LatestInv, WrapperInv
    <3> QED BY <1>3, <1>5, <3>1, OwnerIsPair DEF Listed
  <2>3. \A w \in Owner : w \notin up'
    BY <1>2, <1>3, OwnerIsPair DEF Eager
  <2>4. /\ chain' \in Seq(Owner)
        /\ \A i \in DOMAIN chain' : chain'[i][1] = "core" /\ chain'[i][2] <= calls
    <3> DEFINE hooks == {i \in plugins[mgr] : i[1] \in Hooking /\ patch[i] # Unpatched}
    <3>1. \A w \in Owner : patch[w] # Unpatched /\ w \notin abandoned =>
            /\ patch[w] \in Seq(Owner)
            /\ \A i \in DOMAIN patch[w] : patch[w][i][1] = "core" /\ patch[w][i][2] <= calls
      BY DEF LatestInv, WrapperInv, NoCatchIn
    <3>2. <<"core", mgr>> \in Owner /\ <<"core", mgr>> \notin abandoned
      BY <1>6, <2>1 DEF Owner
    <3>3. \A i \in hooks : i \in Owner /\ i \notin abandoned
      <4>1. \A i \in plugins[mgr] : i \in Instance
        BY <2>1 DEF TypeInv
      <4>2. \A i \in plugins[mgr] : i \in up
        BY <1>1, <1>5, <1>8 DEF Listed, LatestInv, InstanceInv
      <4> QED BY <1>6, <4>1, <4>2, OwnerIsPair DEF Owner, Hooking
    <3>4. CASE hooks # {}
      <4>1. PICK i \in hooks : chain' = patch[i]
        BY <2>1, <3>4 DEF Restored
      <4> QED BY <3>1, <3>3, <4>1
    <3>5. CASE hooks = {} /\ patch[<<"core", mgr>>] # Unpatched
      <4>1. chain' = patch[<<"core", mgr>>]
        BY <2>1, <3>5 DEF Restored
      <4> QED BY <3>1, <3>2, <3>5, <4>1
    <3>6. CASE hooks = {} /\ patch[<<"core", mgr>>] = Unpatched
      <4>1. chain' = chain
        BY <2>1, <3>6 DEF Restored
      <4>2. /\ chain \in Seq(Owner)
            /\ \A i \in DOMAIN chain : chain[i] \in Owner /\ chain[i][2] <= calls
        BY DEF LatestInv, WrapperInv
      <4>3. Phase = "off"
        BY <1>1, <1>7, <3>6 DEF LatestInv, WrapperInv, Idle
      <4> QED BY <1>8, <4>1, <4>2, <4>3, OwnerIsPair
    <3> QED BY <3>4, <3>5, <3>6
  <2>5. \A i \in DOMAIN chain' : chain'[i][2] <= c /\ chain'[i][2] # c
    <3>1. \A i \in DOMAIN chain' : chain'[i] \in Owner
      BY <2>4
    <3> QED BY <1>1, <2>4, <3>1, OwnerIsPair, BoundsAssumption DEF Call
  <2>6. patch' \in [Owner -> Seq(Owner) \union {Unpatched}]
    BY <2>1 DEF LatestInv, WrapperInv
  <2> QED BY <1>1, <2>2, <2>3, <2>4, <2>5, <2>6 DEF WrapperInv, Idle
<1> QED BY <1>4, <1>5
-----------------------------------------------------------------------------
(* The awaited teardown ends: nothing of the old managers is left.         *)
LEMMA ClosedInstances ==
  ASSUME Alone, NEW c \in Call, step[c] = "closing", PluginsClosed(c)
  PROVE  /\ c = calls /\ Phase = "closing"
         /\ up' = {}
         /\ \A p \in Plugin : registry'[p] \in abandoned \union {None}
         /\ \A g \in Call : plugins'[g] = {}
         /\ \A d \in Call : step[d] = "new" => closing'[d] = {}
<1> USE DEF Alone
<1>1. c = calls /\ Phase = "closing"
  BY PhaseOf
<1>2. /\ target[c] = mgr /\ closing[c] = Listed
      /\ up \subseteq Listed /\ \A i \in up : i[1] \notin Eager
  BY <1>1 DEF LatestInv, InstanceInv
<1>3. /\ plugins' = [g \in Call |->
           IF g = mgr /\ Listed # {} THEN {} ELSE plugins[g]]
      /\ up' = up \ Listed
      /\ registry' = [p \in Plugin |->
           IF p \notin Eager /\ \E i \in Listed : i[1] = p THEN None ELSE registry[p]]
      /\ closing' = [closing EXCEPT ![c] = {}]
  BY <1>2 DEF PluginsClosed
<1>4. up' = {}
  BY <1>2, <1>3
<1>5. ASSUME NEW p \in Plugin PROVE registry'[p] \in abandoned \union {None}
  <2>1. IF <<p, mgr>> \in up THEN registry[p] = <<p, mgr>>
        ELSE registry[p] \in abandoned \union {None}
    BY DEF LatestInv, InstanceInv
  <2>2. CASE <<p, mgr>> \in up
    <3>1. <<p, mgr>> \in Listed /\ <<p, mgr>>[1] = p /\ p \notin Eager
      BY <1>2, <2>2
    <3> QED BY <1>3, <3>1
  <2> QED BY <1>3, <2>1, <2>2
<1>6. ASSUME NEW g \in Call PROVE plugins'[g] = {}
  <2>1. CASE g = mgr
    <3>1. Listed = plugins[mgr]
      BY <2>1, NoneAssumption DEF Listed
    <3> QED BY <1>3, <2>1, <3>1
  <2>2. CASE g # mgr
    BY <1>3, <2>2 DEF LatestInv, InstanceInv
  <2> QED BY <2>1, <2>2
<1>7. \A d \in Call : step[d] = "new" => closing'[d] = {}
  BY <1>3 DEF LatestInv, InstanceInv, TypeInv
<1> QED BY <1>1, <1>4, <1>5, <1>6, <1>7

(* After the teardown the chain holds no Catch, and nothing is patched.    *)
LEMMA ClosedWrappers ==
  ASSUME Alone, Phase = "closing"
  PROVE  /\ NoCatchIn(chain) /\ chain \in Seq(Owner)
         /\ \A i \in DOMAIN chain : chain[i] \in Owner /\ chain[i][2] # calls
         /\ \A o \in Owner : o \notin abandoned => patch[o] = Unpatched
<1> USE DEF Alone
<1>1. /\ chain \in Seq(Owner)
      /\ \A i \in DOMAIN chain : /\ chain[i] \in Owner
                                 /\ chain[i][2] <= calls /\ chain[i][2] # calls
                                 /\ chain[i][1] = "catch" => chain[i] \in up
      /\ \A o \in Owner : o \notin abandoned => patch[o] = Unpatched
  BY DEF LatestInv, WrapperInv, Idle
<1>2. \A i \in up : i[1] \notin Eager
  BY DEF LatestInv, InstanceInv
<1> QED BY <1>1, <1>2, OwnerIsPair DEF NoCatchIn, Eager

LEMMA ShutdownEndsLatest ==
  ASSUME Alone, NEW c \in Call, ShutdownEnds(c)
  PROVE  LatestInv'
<1> USE DEF Alone
<1>1. /\ step[c] = "closing" /\ op[c] = "shutdown" /\ PluginsClosed(c)
      /\ step' = [step EXCEPT ![c] = "done"] /\ initialized' = FALSE
      /\ UNCHANGED <<calls, op, hidden, mgr, abandoned, running, held, ticking, chain, patch>>
  BY DEF ShutdownEnds, hostVars, historyVars
<1>2. c = calls /\ Phase = "closing" /\ Phase' = "off"
  BY <1>1, PhaseOf, PhaseThen
<1>3. PhaseInv'
  BY <1>1, <1>2 DEF LatestInv, PhaseInv
<1>4. InUse' = InUse
  BY <1>2 DEF InUse
<1>5. ResourceInv'
  BY <1>1, <1>2, <1>4 DEF LatestInv, ResourceInv
<1>6. /\ up' = {}
      /\ \A p \in Plugin : registry'[p] \in abandoned' \union {None}
      /\ \A g \in Call : plugins'[g] = {}
      /\ \A d \in Call : step[d] = "new" => closing'[d] = {}
  BY <1>1, ClosedInstances
<1>7. InstanceInv'
  <2>1. Listed' = {}
    BY <1>1, <1>6 DEF Listed, TypeInv
  <2>2. \A d \in Call : step'[d] = "new" => closing'[d] = {}
    BY <1>1, <1>6 DEF TypeInv
  <2> QED BY <1>1, <1>2, <1>6, <2>1, <2>2 DEF LatestInv, InstanceInv
<1>8. WrapperInv'
  <2>1. /\ NoCatchIn(chain) /\ chain \in Seq(Owner)
        /\ \A o \in Owner : o \notin abandoned => patch[o] = Unpatched
    BY <1>2, ClosedWrappers
  <2> QED BY <1>1, <1>2, <1>6, <2>1 DEF LatestInv, WrapperInv, NoCatchIn, Idle
<1> QED BY <1>3, <1>5, <1>7, <1>8 DEF LatestInv

LEMMA NewManagersLatest ==
  ASSUME Alone, NEW c \in Call, NewManagers(c)
  PROVE  LatestInv'
<1> USE DEF Alone
<1>1. /\ step[c] = "closing" /\ op[c] = "init" /\ PluginsClosed(c)
      /\ step' = [step EXCEPT ![c] = "handshake"] /\ initialized' = FALSE
      /\ mgr' = c
      /\ held' = [held EXCEPT !["lifecycle"] = None]
      /\ patch' = [patch EXCEPT ![<<"core", c>>] = chain]
      /\ chain' = <<<<"core", c>>>> \o chain
      /\ UNCHANGED <<calls, op, hidden, abandoned, running, ticking>>
  BY DEF NewManagers, hostVars
<1>2. c = calls /\ Phase = "closing" /\ Phase' = "handshake"
  BY <1>1, PhaseOf, PhaseThen
<1>3. PhaseInv'
  BY <1>1, <1>2 DEF LatestInv, PhaseInv
<1>4. InUse' = {} /\ InUse = {}
  BY <1>2 DEF InUse
<1>5. ResourceInv'
  <2>1. held' \in [Resource -> Call \union {None}] /\ \A r \in Resource : held'[r] = None
    BY <1>1, <1>4 DEF LatestInv, ResourceInv
  <2> QED BY <1>1, <1>2, <1>4, <2>1 DEF LatestInv, ResourceInv
<1>6. /\ up' = {}
      /\ \A p \in Plugin : registry'[p] \in abandoned' \union {None}
      /\ \A g \in Call : plugins'[g] = {}
      /\ \A d \in Call : step[d] = "new" => closing'[d] = {}
  BY <1>1, ClosedInstances
<1>7. InstanceInv'
  <2>1. Listed' = {}
    BY <1>1, <1>6 DEF Listed
  <2>2. \A d \in Call : step'[d] = "new" => closing'[d] = {}
    BY <1>1, <1>6 DEF TypeInv
  <2>3. c <= calls'
    BY <1>1, <1>2, BoundsAssumption DEF Call
  <2> QED BY <1>1, <1>2, <1>6, <2>1, <2>2, <2>3 DEF LatestInv, InstanceInv
<1>8. WrapperInv'
  <2> DEFINE o == <<"core", c>>
  <2>1. /\ NoCatchIn(chain) /\ chain \in Seq(Owner)
        /\ \A i \in DOMAIN chain : chain[i] \in Owner /\ chain[i][2] # c
        /\ \A w \in Owner : w \notin abandoned => patch[w] = Unpatched
    BY <1>2, ClosedWrappers
  <2>2. o \in Owner /\ o[1] = "core" /\ o[2] = c
    BY DEF Owner
  <2>3. /\ chain' \in Seq(Owner)
        /\ DOMAIN chain' = 1 .. Len(chain) + 1
        /\ chain'[1] = o
        /\ \A i \in DOMAIN chain' : i = 1 \/ (i - 1 \in DOMAIN chain /\ chain'[i] = chain[i - 1])
    <3> HIDE DEF o
    <3> QED BY <1>1, <2>1, <2>2, PrependFacts DEF o
  <2>4. /\ patch'[o] = chain
        /\ \A w \in Owner : w # o /\ w \notin abandoned => patch'[w] = Unpatched
        /\ patch' \in [Owner -> Seq(Owner) \union {Unpatched}]
    BY <1>1, <2>1, <2>2 DEF LatestInv, WrapperInv
  <2> HIDE DEF o
  <2>5. \A i \in DOMAIN chain' : chain'[i][2] <= calls' /\ chain'[i][1] = "core"
    <3>1. c <= c
      BY BoundsAssumption DEF Call
    <3> QED BY <1>1, <1>2, <2>1, <2>2, <2>3, <3>1 DEF NoCatchIn
  <2>6. Once(o)'
    <3>1. 1 \in DOMAIN chain'
      <4>1. Len(chain) \in Nat
        BY <2>1
      <4> QED BY <2>3, <4>1
    <3>2. \A i \in DOMAIN chain' : chain'[i] = o <=> i = 1
      BY <2>1, <2>2, <2>3
    <3> QED BY <3>1, <3>2 DEF Once, o
  <2>7. Once(<<"core", calls>>)'
    BY <1>1, <1>2, <2>6 DEF o, Once
  <2>9. patch'[<<"core", calls>>] # Unpatched
    <3>1. chain # <<None>>
      BY <2>1, NoneAssumption
    <3> QED BY <1>2, <2>4, <3>1 DEF Unpatched, o
  <2>8. \A w \in Owner : patch'[w] # Unpatched /\ w \notin abandoned' =>
          /\ w[2] = mgr' /\ (w[1] = "catch" => w \in up')
          /\ patch'[w] \in Seq(Owner)
          /\ \A i \in DOMAIN patch'[w] : patch'[w][i][1] = "core" /\ patch'[w][i][2] <= calls'
    BY <1>1, <1>2, <2>1, <2>2, <2>4 DEF NoCatchIn
  <2> QED BY <1>1, <1>2, <1>6, <2>3, <2>4, <2>5, <2>7, <2>8, <2>9
          DEF WrapperInv, NoCatchIn, Idle
<1> QED BY <1>3, <1>5, <1>7, <1>8 DEF LatestInv
-----------------------------------------------------------------------------
LEMMA HandshakenLatest ==
  ASSUME Alone, NEW c \in Call, NEW m, Handshaken(c, m)
  PROVE  LatestInv'
<1> USE DEF Alone
<1>1. /\ step[c] = "handshake" /\ step' = [step EXCEPT ![c] = "replay"]
      /\ UNCHANGED <<calls, op, hidden, mgr, plugins, up, abandoned, registry, closing,
                     running, held, ticking, initialized, chain, patch>>
  BY DEF Handshaken, hostVars, pluginVars, resourceVars, historyVars
<1>2. c = calls /\ Phase = "handshake" /\ Phase' = "replay"
  BY <1>1, PhaseOf, PhaseThen
<1>3. PhaseInv'
  BY <1>1, <1>2 DEF LatestInv, PhaseInv
<1>4. ResourceInv'
  <2>1. InUse' = InUse
    BY <1>2 DEF InUse
  <2> QED BY <1>1, <1>2, <2>1 DEF LatestInv, ResourceInv
<1>5. InstanceInv'
  <2>1. \A d \in Call : step'[d] = "new" => step[d] = "new"
    BY <1>1 DEF TypeInv
  <2>2. Listed' = Listed
    BY <1>1 DEF Listed
  <2> QED BY <1>1, <1>2, <2>1, <2>2 DEF LatestInv, InstanceInv
<1>6. WrapperInv'
  BY <1>1, <1>2 DEF LatestInv, WrapperInv, NoCatchIn, Once, Idle
<1> QED BY <1>3, <1>4, <1>5, <1>6 DEF LatestInv

(* The plugins of this call come up, are registered, and Catch wraps the   *)
(* chain it finds; one whose setup() threw may have done so half way.      *)
LEMMA SetUpLatest ==
  ASSUME Alone, NEW c \in Call, SetUp(c)
  PROVE  LatestInv'
<1> USE DEF Alone
<1>1. /\ step[c] = "replay" /\ step' = [step EXCEPT ![c] = "setup"]
      /\ UNCHANGED <<calls, op, hidden, mgr, plugins, closing,
                     running, held, ticking, initialized>>
  BY DEF SetUp, hostVars, resourceVars
<1>2. PICK fail \in SUBSET Faulty : \E late \in SUBSET fail :
      \E hooked \in SUBSET (late \intersect Hooking) :
        LET sound == Plugin \ fail
            half == abandoned \union (late \X {c})
            wraps == ((sound \intersect Hooking) \union hooked) \X {c}
        IN /\ Cardinality(half) <= MaxAbandoned
           /\ up' = up \union (sound \X {c})
           /\ abandoned' = half
           /\ registry' = [p \in Plugin |->
                IF p \in sound \union late THEN <<p, c>> ELSE registry[p]]
           /\ patch' = [o \in Owner |-> IF o \in wraps THEN chain ELSE patch[o]]
           /\ chain' = IF wraps = {} THEN chain
                       ELSE <<CHOOSE i \in wraps : TRUE>> \o chain
  BY DEF SetUp
<1> DEFINE sound == Plugin \ fail
<1>2b. PICK late \in SUBSET fail : \E hooked \in SUBSET (late \intersect Hooking) :
        LET half == abandoned \union (late \X {c})
            wraps == ((sound \intersect Hooking) \union hooked) \X {c}
        IN /\ Cardinality(half) <= MaxAbandoned
           /\ up' = up \union (sound \X {c})
           /\ abandoned' = half
           /\ registry' = [p \in Plugin |->
                IF p \in sound \union late THEN <<p, c>> ELSE registry[p]]
           /\ patch' = [o \in Owner |-> IF o \in wraps THEN chain ELSE patch[o]]
           /\ chain' = IF wraps = {} THEN chain
                       ELSE <<CHOOSE i \in wraps : TRUE>> \o chain
  BY <1>2
<1>3. c = calls /\ Phase = "replay" /\ Phase' = "setup"
  BY <1>1, PhaseOf, PhaseThen
<1>4. PhaseInv'
  BY <1>1, <1>3 DEF LatestInv, PhaseInv
<1>5. ResourceInv'
  <2>1. InUse' = InUse
    BY <1>3 DEF InUse
  <2> QED BY <1>1, <1>3, <2>1 DEF LatestInv, ResourceInv
<1>2c. PICK hooked \in SUBSET (late \intersect Hooking) :
        LET wraps == ((sound \intersect Hooking) \union hooked) \X {c}
        IN /\ up' = up \union (sound \X {c})
           /\ abandoned' = abandoned \union (late \X {c})
           /\ registry' = [p \in Plugin |->
                IF p \in sound \union late THEN <<p, c>> ELSE registry[p]]
           /\ patch' = [o \in Owner |-> IF o \in wraps THEN chain ELSE patch[o]]
           /\ chain' = IF wraps = {} THEN chain
                       ELSE <<CHOOSE i \in wraps : TRUE>> \o chain
  BY <1>2b
<1> DEFINE wraps == ((sound \intersect Hooking) \union hooked) \X {c}
<1>2a. /\ up' = up \union (sound \X {c})
       /\ abandoned' = abandoned \union (late \X {c})
       /\ registry' = [p \in Plugin |->
            IF p \in sound \union late THEN <<p, c>> ELSE registry[p]]
       /\ patch' = [o \in Owner |-> IF o \in wraps THEN chain ELSE patch[o]]
       /\ chain' = IF wraps = {} THEN chain ELSE <<CHOOSE i \in wraps : TRUE>> \o chain
  BY <1>2c
<1>2d. /\ sound \subseteq Plugin /\ late \subseteq Plugin /\ sound \intersect late = {}
       /\ hooked \subseteq late /\ hooked \subseteq {"catch"}
  BY FaultyAssumption DEF Plugin, Hooking
<1> HIDE DEF sound
<1>6. /\ mgr = c /\ up = {} /\ Listed = {} /\ Listed' = Listed
      /\ \A p \in Plugin : registry[p] \in abandoned \union {None}
      /\ \A i \in abandoned : i[2] # c
  BY <1>1, <1>3 DEF LatestInv, InstanceInv, Listed
<1>7. \A i : i \in up' <=> \E p \in sound : i = <<p, c>>
  BY <1>2a, <1>6
<1>7a. \A i : i \in abandoned' <=> i \in abandoned \/ \E p \in late : i = <<p, c>>
  BY <1>2a
<1>8. InstanceInv'
  <2>1. \A d \in Call : step'[d] = "new" => step[d] = "new"
    BY <1>1 DEF TypeInv
  <2>2. \A p \in Plugin : IF <<p, c>> \in up' THEN registry'[p] = <<p, c>>
                          ELSE registry'[p] \in abandoned' \union {None}
    <3> TAKE p \in Plugin
    <3>1. <<p, c>> \in up' <=> p \in sound
      BY <1>7
    <3>2. p \in late => <<p, c>> \in abandoned'
      BY <1>2a
    <3>3. registry'[p] = IF p \in sound \union late THEN <<p, c>> ELSE registry[p]
      BY <1>2a
    <3> QED BY <1>6, <1>7a, <3>1, <3>2, <3>3
  <2>3. \A i \in up' : i[2] = c
    BY <1>7
  <2>4. \A i \in abandoned' : i \notin up' /\ i[2] <= calls
    <3>1. \A i \in abandoned : i \notin up' /\ i[2] <= calls
      BY <1>6, <1>7 DEF LatestInv, InstanceInv
    <3>2. c <= calls
      BY <1>3, BoundsAssumption DEF Call
    <3>3. ASSUME NEW p \in late PROVE <<p, c>> \notin up' /\ <<p, c>>[2] <= calls
      BY <1>2d, <1>7, <3>2
    <3> QED BY <1>7a, <3>1, <3>3
  <2> HIDE DEF wraps
  <2> QED BY <1>1, <1>3, <1>6, <2>1, <2>2, <2>3, <2>4 DEF LatestInv, InstanceInv
<1>9. WrapperInv'
  <2> DEFINE o == <<"catch", c>>
  <2>1. /\ o \in Owner /\ o[1] = "catch" /\ o[2] = c
        /\ wraps \in {{}, {o}}
        /\ o \in up' => wraps = {o}
        /\ wraps = {o} => o \in up' \/ o \in abandoned'
        /\ \A w \in Owner : w # o => w \notin up'
    <3>1. o \in Owner /\ o[1] = "catch" /\ o[2] = c
      BY DEF Owner
    <3>2. \A i : i \in wraps <=> i = o /\ ("catch" \in sound \/ "catch" \in hooked)
      <4>1. \A p : p \in (sound \intersect Hooking) \union hooked
                     <=> p = "catch" /\ ("catch" \in sound \/ "catch" \in hooked)
        BY <1>2d DEF Hooking
      <4> QED BY <4>1
    <3>3. o \in up' <=> "catch" \in sound
      BY <1>7
    <3>4. ASSUME NEW w \in Owner, w \in up' PROVE w = o
      BY <1>2d, <1>7, <3>4, OwnerIsPair DEF Plugin, Instance
    <3>5. "catch" \in hooked => o \in abandoned'
      BY <1>2d, <1>7a
    <3> HIDE DEF wraps, o
    <3> QED BY <3>1, <3>2, <3>3, <3>4, <3>5
  <2>2. /\ chain \in Seq(Owner)
        /\ patch \in [Owner -> Seq(Owner) \union {Unpatched}]
        /\ \A i \in DOMAIN chain : /\ chain[i] \in Owner
                                   /\ chain[i][2] <= calls
                                   /\ chain[i][1] # "catch"
        /\ Once(<<"core", c>>) /\ patch[<<"core", c>>] # Unpatched
    BY <1>3, <1>6 DEF LatestInv, WrapperInv, Idle
  <2>3. \A w \in Owner : patch[w] # Unpatched /\ w \notin abandoned =>
          w[2] = mgr /\ w[1] # "catch" /\ patch[w] \in Seq(Owner) /\ NoCatchIn(patch[w])
    BY <1>6 DEF LatestInv, WrapperInv
  <2>4. abandoned \subseteq abandoned' /\ ~Idle' /\ <<"core", c>> # o
    BY <1>3, <1>7a DEF Idle
  <2> HIDE DEF wraps
  <2>5. CASE wraps = {}
    <3>1. chain' = chain /\ \A w \in Owner : patch'[w] = patch[w]
      BY <1>2a, <2>5
    <3>2. patch' \in [Owner -> Seq(Owner) \union {Unpatched}]
      BY <1>2a, <2>2
    <3>3. \A w \in Owner : w \notin up'
      BY <2>1, <2>5
    <3> HIDE DEF o
    <3>4. Once(<<"core", c>>)'
      BY <1>1, <2>2, <3>1 DEF Once
    <3>5. <<"core", c>> \in Owner
      BY DEF Owner
    <3> QED BY <1>1, <1>3, <2>2, <2>3, <2>4, <3>1, <3>2, <3>3, <3>4, <3>5
            DEF WrapperInv, NoCatchIn, Once
  <2>6. CASE wraps = {o}
    <3>1. chain' = <<o>> \o chain
      <4>1. (CHOOSE i \in {o} : TRUE) = o
        OBVIOUS
      <4> QED BY <1>2a, <2>6, <4>1
    <3> HIDE DEF o
    <3>2. /\ patch'[o] = chain
          /\ \A w \in Owner : w # o => patch'[w] = patch[w]
          /\ patch' \in [Owner -> Seq(Owner) \union {Unpatched}]
      BY <1>2a, <2>1, <2>2, <2>6
    <3>3. /\ chain' \in Seq(Owner)
          /\ DOMAIN chain' = 1 .. Len(chain) + 1
          /\ DOMAIN chain = 1 .. Len(chain)
          /\ chain'[1] = o
          /\ \A i \in 1 .. Len(chain) : chain'[i + 1] = chain[i]
          /\ \A i \in DOMAIN chain' :
               i = 1 \/ (i - 1 \in DOMAIN chain /\ chain'[i] = chain[i - 1])
      BY <2>1, <2>2, <3>1, PrependFacts
    <3>4. o \in up' \/ o \in abandoned'
      BY <2>1, <2>6
    <3>5. \A i \in DOMAIN chain' :
            /\ chain'[i][2] <= calls
            /\ chain'[i][1] = "catch" =>
                 chain'[i] \in up' \/ (chain'[i] \in abandoned' /\ chain'[i][2] = c)
      <4>1. c <= calls
        BY <1>3, BoundsAssumption DEF Call
      <4> QED BY <2>1, <2>2, <3>3, <3>4, <4>1
    <3>6. NoCatchIn(chain) /\ chain # Unpatched
      <4>1. NoCatchIn(chain)
        BY <2>2, OwnerIsPair DEF NoCatchIn
      <4>2. chain # Unpatched
        <5>1. chain # <<None>>
          BY <2>2, NoneAssumption
        <5> QED BY <5>1 DEF Unpatched
      <4> QED BY <4>1, <4>2
    <3>7. \A w \in Owner : patch'[w] # Unpatched /\ w \notin abandoned' =>
            /\ w[2] = mgr' /\ (w[1] = "catch" => w \in up')
            /\ patch'[w] \in Seq(Owner) /\ NoCatchIn(patch'[w])
      BY <1>1, <1>6, <2>1, <2>2, <2>3, <2>4, <3>2, <3>4, <3>6
    <3>8. \A w \in Owner : w \in up' => patch'[w] # Unpatched
      BY <2>1, <3>2, <3>6
    <3>9. Once(<<"core", c>>)'
      <4>1. PICK i \in DOMAIN chain : \A j \in DOMAIN chain : chain[j] = <<"core", c>> <=> j = i
        BY <2>2 DEF Once
      <4>2. i + 1 \in DOMAIN chain' /\ Len(chain) \in Nat /\ i \in Nat
        BY <2>2, <3>3
      <4>3. o # <<"core", c>>
        BY <2>1
      <4>4. \A j \in DOMAIN chain' : chain'[j] = <<"core", c>> <=> j = i + 1
        <5> TAKE j \in DOMAIN chain'
        <5>1. CASE j = 1
          BY <3>3, <4>1, <4>2, <4>3, <5>1
        <5>2. CASE j # 1
          <6>1. j - 1 \in DOMAIN chain /\ chain'[j] = chain[j - 1] /\ j \in Nat
            BY <3>3, <5>2
          <6> QED BY <4>1, <4>2, <6>1
        <5> QED BY <5>1, <5>2
      <4> QED BY <1>1, <4>2, <4>4 DEF Once
    <3>10. Once(<<"core", calls>>)' /\ patch'[<<"core", c>>] # Unpatched
      <4>1. <<"core", c>> \in Owner
        BY DEF Owner
      <4>2. Once(<<"core", calls>>)'
        BY <1>1, <1>3, <3>9 DEF Once
      <4> QED BY <2>2, <2>4, <3>2, <4>1, <4>2
    <3> QED BY <1>1, <1>3, <2>4, <3>2, <3>3, <3>5, <3>7, <3>8, <3>10 DEF WrapperInv, NoCatchIn
  <2> QED BY <2>1, <2>5, <2>6
<1> QED BY <1>4, <1>5, <1>8, <1>9 DEF LatestInv

LEMMA RouteLatest ==
  ASSUME Alone, NEW c \in Call, Route(c)
  PROVE  LatestInv'
<1> USE DEF Alone
<1>1. /\ step[c] = "setup" /\ step' = [step EXCEPT ![c] = "boot"]
      /\ plugins' = [plugins EXCEPT ![target[c]] = {i \in up : i[2] = c}]
      /\ UNCHANGED <<calls, op, hidden, mgr, up, abandoned, registry, closing,
                     running, held, ticking, initialized, chain, patch>>
  BY DEF Route, hostVars, resourceVars, historyVars
<1>2. c = calls /\ Phase = "setup" /\ Phase' = "boot"
  BY <1>1, PhaseOf, PhaseThen
<1>3. PhaseInv'
  BY <1>1, <1>2 DEF LatestInv, PhaseInv
<1>4. ResourceInv'
  <2>1. InUse' = InUse
    BY <1>2 DEF InUse
  <2> QED BY <1>1, <1>2, <2>1 DEF LatestInv, ResourceInv
<1>5. InstanceInv'
  <2>1. mgr = c /\ target[c] = c
    BY <1>1, <1>2 DEF LatestInv, InstanceInv, AloneInv
  <2>2. \A d \in Call : step'[d] = "new" => step[d] = "new"
    BY <1>1 DEF TypeInv
  <2>3. {i \in up : i[2] = c} = up
    BY <2>1 DEF LatestInv, InstanceInv
  <2>4. /\ plugins'[c] = up
        /\ \A g \in Call : g # c => plugins'[g] = plugins[g]
    BY <1>1, <2>1, <2>3 DEF TypeInv
  <2>5. Listed' = up
    BY <1>1, <2>1, <2>4, NoneAssumption DEF Listed
  <2> QED BY <1>1, <1>2, <2>1, <2>2, <2>4, <2>5 DEF LatestInv, InstanceInv
<1>6. WrapperInv'
  BY <1>1, <1>2 DEF LatestInv, WrapperInv, NoCatchIn, Once, Idle
<1> QED BY <1>3, <1>4, <1>5, <1>6 DEF LatestInv

(* What is left of init() starts what is not running yet.                  *)
LEMMA StartedLatest ==
  ASSUME Alone, NEW c \in Call, NEW R \in SUBSET Resource, Started(c, R),
         step[c] \in {"boot", "first_open", "session_start"},
         NEW s \in {"first_open", "session_start", "done"},
         step' = [step EXCEPT ![c] = s],
         s # "done" => R \union InUse = {"interval"} /\ initialized' = initialized,
         s = "done" => R \union InUse = Resource /\ initialized' = TRUE,
         "presence" \notin InUse,
         UNCHANGED <<calls, op, hidden, mgr, plugins, up, abandoned, registry, closing,
                     chain, patch>>
  PROVE  LatestInv'
<1> USE DEF Alone
<1>1. /\ c = calls /\ Phase = step[c] /\ op[c] = "init"
      /\ Phase' = IF s = "done" THEN "on" ELSE s
  BY PhaseOf, PhaseThen DEF LatestInv, PhaseInv
<1>2. PhaseInv'
  BY <1>1 DEF LatestInv, PhaseInv
<1>3. ResourceInv'
  <2>1. InUse' = InUse \union R /\ InUse \subseteq Resource
    BY <1>1 DEF InUse, Resource
  <2>2. /\ running' = [r \in Resource |-> running[r] \union {d \in {c} : r \in R}]
        /\ held' = [r \in Resource |-> IF r \in R THEN c ELSE held[r]]
        /\ ticking' = ticking \union {d \in {c} : "presence" \in R /\ ~hidden}
    BY DEF Started
  <2>3. \A r \in Resource : running[r] = {d \in {c} : r \in InUse}
    BY <1>1 DEF LatestInv, ResourceInv
  <2>4. \A r \in Resource : running'[r] = {d \in {c} : r \in InUse'}
    BY <2>1, <2>2, <2>3
  <2>5. \A r \in Resource : held'[r] = IF r \in InUse' THEN c ELSE None
    BY <1>1, <2>1, <2>2 DEF LatestInv, ResourceInv
  <2>6. /\ running' \in [Resource -> SUBSET Call]
        /\ held' \in [Resource -> Call \union {None}]
    BY <2>2, <2>3 DEF LatestInv, ResourceInv
  <2>7. ticking' = IF hidden' THEN {} ELSE running'["presence"]
    <3>1. "presence" \in Resource
      BY DEF Resource
    <3>2. ticking = {}
      BY <2>3, <3>1 DEF LatestInv, ResourceInv
    <3>3. running'["presence"] = {d \in {c} : "presence" \in R}
      BY <2>1, <2>4, <3>1
    <3> QED BY <2>2, <3>2, <3>3
  <2>8. initialized' = (Phase' = "on")
    <3>1. s # "done" => initialized = FALSE
      BY <1>1 DEF LatestInv, ResourceInv
    <3> QED BY <1>1, <3>1
  <2> QED BY <1>1, <2>4, <2>5, <2>6, <2>7, <2>8 DEF ResourceInv
<1>4. InstanceInv'
  <2>1. \A d \in Call : step'[d] = "new" => step[d] = "new"
    BY DEF TypeInv
  <2>2. Listed' = Listed
    BY DEF Listed
  <2> QED BY <1>1, <2>1, <2>2 DEF LatestInv, InstanceInv
<1>5. WrapperInv'
  BY <1>1 DEF LatestInv, WrapperInv, NoCatchIn, Once, Idle
<1> QED BY <1>2, <1>3, <1>4, <1>5 DEF LatestInv

LEMMA BootLatest ==
  ASSUME Alone, NEW c \in Call, Boot(c) \/ FirstOpenTracked(c) \/ SessionStartTracked(c)
  PROVE  LatestInv'
<1> USE DEF Alone
<1>1. PICK s \in {"first_open", "session_start", "done"}, R \in {{"interval"}, {}} :
        /\ Resumes(c, s, R)
        /\ R = IF step[c] = "boot" THEN {"interval"} ELSE {}
        /\ step[c] \in {"boot", "first_open", "session_start"}
  BY DEF Boot, FirstOpenTracked, SessionStartTracked
<1> DEFINE S == IF s = "done" THEN R \union {"lifecycle", "presence"} ELSE R
<1>2. /\ Started(c, S) /\ initialized' = (initialized \/ s = "done")
      /\ step' = [step EXCEPT ![c] = s]
      /\ UNCHANGED <<calls, op, hidden, mgr, plugins, up, abandoned, registry, closing,
                     chain, patch>>
  BY <1>1 DEF Resumes, hostVars, pluginVars, historyVars
<1>3. Phase = step[c]
  BY <1>1, PhaseOf
<1>4. InUse = IF step[c] = "boot" THEN {} ELSE {"interval"}
  BY <1>1, <1>3 DEF InUse
<1>5. /\ S \in SUBSET Resource /\ "presence" \notin InUse
      /\ s # "done" => S \union InUse = {"interval"}
      /\ s = "done" => S \union InUse = Resource
  BY <1>1, <1>4 DEF Resource
<1>6. /\ s # "done" => initialized' = initialized
      /\ s = "done" => initialized' = TRUE
  <2>1. initialized \in BOOLEAN
    BY <1>1, <1>3 DEF LatestInv, ResourceInv
  <2> QED BY <1>2, <2>1
<1> HIDE DEF S
<1> QED BY <1>1, <1>2, <1>5, <1>6, StartedLatest

LEMMA VisibilityLatest == ASSUME Alone, VisibilityChange PROVE LatestInv'
<1> USE DEF Alone
<1>1. /\ hidden' = ~hidden
      /\ ticking' = IF hidden THEN running["presence"] ELSE {}
      /\ UNCHANGED <<calls, op, step, mgr, plugins, up, abandoned, registry, closing, target,
                     running, held, initialized, chain, patch>>
  BY DEF VisibilityChange, callVars, pluginVars, historyVars
<1>2. Phase' = Phase
  BY <1>1 DEF Phase
<1>3. InUse' = InUse /\ Listed' = Listed
  BY <1>1, <1>2 DEF InUse, Listed
<1>4. PhaseInv' /\ InstanceInv'
  BY <1>1, <1>2, <1>3 DEF LatestInv, PhaseInv, InstanceInv
<1>5. ResourceInv'
  BY <1>1, <1>2, <1>3 DEF LatestInv, ResourceInv
<1>6. WrapperInv'
  BY <1>1, <1>2 DEF LatestInv, WrapperInv, NoCatchIn, Once, Idle
<1> QED BY <1>4, <1>5, <1>6 DEF LatestInv

LEMMA InitLatest == Init => LatestInv
<1> SUFFICES ASSUME Init PROVE LatestInv
  OBVIOUS
<1>1. Phase = "off" /\ InUse = {} /\ Listed = {}
  BY DEF Init, Phase, InUse, Listed
<1>2. PhaseInv
  BY <1>1 DEF Init, PhaseInv
<1>3. ResourceInv
  BY <1>1 DEF Init, ResourceInv, Resource
<1>4. InstanceInv
  BY <1>1 DEF Init, InstanceInv
<1>5. WrapperInv
  BY <1>1 DEF Init, WrapperInv, Idle
<1> QED BY <1>2, <1>3, <1>4, <1>5 DEF LatestInv

LEMMA NextLatest ==
  ASSUME TypeInv, DataTypeInv, overlap \/ AloneInv, overlap \/ LatestInv, [Next]_vars
  PROVE  (overlap \/ LatestInv)'
<1> SUFFICES ASSUME ~overlap' PROVE LatestInv'
  OBVIOUS
<1>1. CASE UNCHANGED vars
  <2>1. UNCHANGED <<calls, op, step, mgr, plugins, up, abandoned, registry, closing, target, hidden,
                    running, held, ticking, initialized, chain, patch, overlap>>
    BY <1>1 DEF vars, hostVars, callVars, pluginVars, resourceVars, historyVars
  <2>2. Phase' = Phase
    BY <2>1 DEF Phase
  <2>3. InUse' = InUse /\ Listed' = Listed
    BY <2>1, <2>2 DEF InUse, Listed
  <2>4. LatestInv
    BY <2>1
  <2> QED BY <2>1, <2>2, <2>3, <2>4 DEF LatestInv, PhaseInv, InstanceInv, ResourceInv,
             WrapperInv, NoCatchIn, Once, Idle
<1>2. CASE Next
  <2>1. ~overlap
    BY <1>2 DEF Next, CallInit, CallShutdown, Begin, Proceed, ShutdownEnds, NewManagers,
                HandshakeOk, HandshakeFromCache, HandshakeThrows, Handshaken, SetUp,
                Route, Boot, FirstOpenTracked, SessionStartTracked, Resumes,
                VisibilityChange, hostVars
  <2>2. Alone
    BY <2>1 DEF Alone
  <2>3. ASSUME NEW c \in Call, CallInit(c) \/ CallShutdown(c) PROVE LatestInv'
    <3>1. PICK o \in {"init", "shutdown"}, k \in Project \union {None} : Begin(c, o, k)
      BY <2>3 DEF CallInit, CallShutdown
    <3> QED BY <2>2, <3>1, BeginResources, BeginInstances, BeginWrappers DEF LatestInv
  <2>4. ASSUME NEW c \in Call, HandshakeOk(c) \/ HandshakeFromCache(c) \/ HandshakeThrows(c)
        PROVE  LatestInv'
    <3>1. \E m : Handshaken(c, m)
      BY <2>4 DEF HandshakeOk, HandshakeFromCache, HandshakeThrows
    <3> QED BY <2>2, <3>1, HandshakenLatest
  <2>5. ASSUME NEW c \in Call, Proceed(c) PROVE LatestInv'
    BY <2>2, <2>4, <2>5, ShutdownEndsLatest, NewManagersLatest, SetUpLatest, RouteLatest,
       BootLatest DEF Proceed
  <2> QED BY <1>2, <2>2, <2>3, <2>5, VisibilityLatest DEF Next
<1> QED BY <1>1, <1>2

LEMMA LatestIsAll == ASSUME Alone PROVE OnlyTheLatest
<1> USE DEF Alone
<1> DEFINE latest == {c \in {calls} : c > 0 /\ op[c] = "init"}
<1> SUFFICES ASSUME Pending = {}
             PROVE  /\ initialized = (latest # {})
                    /\ \A r \in Resource : running[r] = latest
                    /\ ticking = IF hidden THEN {} ELSE latest
                    /\ up \subseteq Plugin \X latest
                    /\ \A c \in latest : mgr = c /\ plugins[c] = up
                    /\ \A p \in Plugin :
                         IF <<p, calls>> \in up THEN registry[p] = <<p, calls>>
                         ELSE registry[p] \in abandoned \union {None}
                    /\ \A i \in DOMAIN chain : chain[i][1] = "catch" =>
                         chain[i] \in up \/ (chain[i] \in abandoned /\ chain[i][2] = calls)
                    /\ \A c \in latest :
                         Cardinality({i \in DOMAIN chain : chain[i] = <<"core", c>>}) = 1
  BY DEF OnlyTheLatest
<1>1. calls \in Call \union {0} /\ calls \in Nat
  BY DEF LatestInv, PhaseInv, TypeInv
<1>2. Phase = IF latest # {} THEN "on" ELSE "off"
  <2>1. CASE calls = 0
    BY <2>1 DEF Phase
  <2>2. CASE calls # 0
    <3>1. step[calls] \in {"new", "done"} /\ calls > 0
      BY <1>1, <2>2 DEF Pending
    <3> QED BY <2>2, <3>1 DEF Phase, LatestInv, PhaseInv
  <2> QED BY <2>1, <2>2
<1>3. InUse = IF latest # {} THEN Resource ELSE {}
  BY <1>2 DEF InUse
<1>4. latest \in {{}, {calls}}
  OBVIOUS
<1> HIDE DEF latest
<1>5. initialized = (latest # {})
  BY <1>2 DEF LatestInv, ResourceInv
<1>6. \A r \in Resource : running[r] = latest
  BY <1>3, <1>4 DEF LatestInv, ResourceInv
<1>7. ticking = IF hidden THEN {} ELSE latest
  BY <1>6 DEF LatestInv, ResourceInv, Resource
<1>8. \A i \in DOMAIN chain : chain[i][1] = "catch" =>
        chain[i] \in up \/ (chain[i] \in abandoned /\ chain[i][2] = calls)
  BY DEF LatestInv, WrapperInv
<1>9. CASE latest = {}
  <2>1. up = {}
    BY <1>2, <1>9 DEF LatestInv, InstanceInv
  <2>2. \A p \in Plugin : registry[p] \in abandoned \union {None}
    BY <2>1 DEF LatestInv, InstanceInv
  <2> QED BY <1>5, <1>6, <1>7, <1>8, <1>9, <2>1, <2>2
<1>10. CASE latest = {calls}
  <2>1. mgr = calls /\ Listed = up /\ calls \in Call
    BY <1>1, <1>2, <1>10 DEF LatestInv, InstanceInv, latest
  <2>2. plugins[calls] = up
    BY <2>1, NoneAssumption DEF Listed
  <2>3. up \subseteq Plugin \X {calls}
    <3>1. \A i \in up : i \in Instance /\ i[2] = calls
      BY <2>1 DEF LatestInv, InstanceInv, TypeInv
    <3> QED BY <3>1, OwnerIsPair
  <2>4. \A p \in Plugin : IF <<p, calls>> \in up THEN registry[p] = <<p, calls>>
                          ELSE registry[p] \in abandoned \union {None}
    BY <2>1 DEF LatestInv, InstanceInv
  <2>5. Cardinality({i \in DOMAIN chain : chain[i] = <<"core", calls>>}) = 1
    <3>1. Once(<<"core", calls>>)
      BY <1>2, <1>10 DEF LatestInv, WrapperInv, Idle
    <3>2. PICK i \in DOMAIN chain :
            \A j \in DOMAIN chain : chain[j] = <<"core", calls>> <=> j = i
      BY <3>1 DEF Once
    <3>3. {j \in DOMAIN chain : chain[j] = <<"core", calls>>} = {i}
      BY <3>2
    <3> QED BY <3>3, FS_Singleton
  <2> QED BY <1>5, <1>6, <1>7, <1>8, <1>10, <2>1, <2>2, <2>3, <2>4, <2>5
<1> QED BY <1>4, <1>9, <1>10

(* For calls that come one after the other, in any number: a finished      *)
(* init() has left its own resources, plugins and history patch and nothing*)
(* of an earlier one, and a finished shutdown() has left nothing running,  *)
(* but for what a setup() that threw half way has left where no shutdown   *)
(* reaches it (client.ts:158-241, 543-583; plugins.ts:57-59).              *)
THEOREM LatestOnly == Spec => []OnlyTheLatest
<1>1. Spec => []Inv
  BY InitInv, NextInv, PTL DEF Spec
<1>2. Init => DataTypeInv /\ (overlap \/ AloneInv) /\ (overlap \/ LatestInv)
  BY InitData, InitLatest
<1>3. Inv /\ DataTypeInv /\ (overlap \/ AloneInv) /\ (overlap \/ LatestInv) /\ [Next]_vars
        => DataTypeInv' /\ (overlap \/ AloneInv)' /\ (overlap \/ LatestInv)'
  BY NextData, NextLatest DEF Inv, DataInv
<1>4. Spec => [](Inv /\ DataTypeInv /\ (overlap \/ AloneInv) /\ (overlap \/ LatestInv))
  BY <1>1, <1>2, <1>3, PTL DEF Spec
<1>5. Inv /\ DataTypeInv /\ (overlap \/ AloneInv) /\ (overlap \/ LatestInv) => OnlyTheLatest
  <2> SUFFICES ASSUME Inv, DataTypeInv, overlap \/ AloneInv, overlap \/ LatestInv
               PROVE  OnlyTheLatest
    OBVIOUS
  <2>1. CASE overlap
    BY <2>1 DEF OnlyTheLatest
  <2>2. CASE ~overlap
    BY <2>2, LatestIsAll DEF Alone, Inv
  <2> QED BY <2>1, <2>2
<1> QED BY <1>4, <1>5, PTL
=============================================================================
