------------------------- MODULE ConfigStoreProofs -------------------------
(***************************************************************************)
(* Proofs about ConfigStore, for every number of handlers, services,       *)
(* routes, hosts and targets: type correctness, that a reload which meets  *)
(* no other call leaves the gateway with what the store holds, and that    *)
(* every routed service can be reached.                                    *)
(***************************************************************************)
EXTENDS ConfigStore, TLAPS

Rows == [Routes -> Kinds \union {None}]

\* The typing facts a reload relies on.
StoreType ==
  /\ ups \in [Hosts -> (SUBSET Targets) \union {None}]
  /\ svc \in [Services -> ServiceRows \union {None}]
  /\ rts \in [Routes -> RouteRows \union {None}]

\* RoutesOf returns the routes table restricted to one service.
LEMMA RoutesOfType ==
  ASSUME StoreType, NEW s \in Services
  PROVE  RoutesOf(s) \in Rows
BY DEF StoreType, RoutesOf, Rows, RouteRows, Kinds

\* What the store holds at one instant is a possible result of the queries.
LEMMA StoredType ==
  ASSUME StoreType
  PROVE  Stored \in Reads
BY RoutesOfType DEF StoreType, Stored, Reads, Rows

\* The empty result is one too.
LEMMA NothingType == Nothing \in Reads
BY DEF Nothing, Reads

\* Linking typed rows gives a typed configuration.
LEMMA LinkType ==
  ASSUME NEW read \in Reads
  PROVE  linkUpstreams(read) \in Configs
<1>1. ASSUME NEW s \in Services, read.svc[s] # None
      PROVE  linkService(read.svc[s], read.ups, read.rts[s]) \in
               [url : Urls \union {None}, targets : SUBSET Targets, ok : BOOLEAN,
                routes : [Routes -> Kinds \union {None}]]
  <2> DEFINE row == read.svc[s]
             host == IF row.host = None /\ row.url # None THEN row.url.host ELSE row.host
             found == host # None /\ read.ups[host] # None
             l == linkService(row, read.ups, read.rts[s])
  <2>1. row \in ServiceRows
    BY <1>1 DEF Reads
  <2>2. host \in Hosts \union {None}
    BY <2>1 DEF ServiceRows, Urls
  <2>3. (IF host # None /\ ~found THEN [host |-> host, port |-> DefaultPort]
         ELSE row.url) \in Urls \union {None}
    BY <2>1, <2>2, ConfigAssumption DEF ServiceRows, Urls
  <2>4. (IF found THEN read.ups[host] ELSE {}) \in SUBSET Targets
    BY <2>2 DEF Reads
  <2>5. row.ok \in BOOLEAN /\ read.rts[s] \in [Routes -> Kinds \union {None}]
    BY <2>1 DEF ServiceRows, Reads
  <2> QED
    BY <2>3, <2>4, <2>5 DEF linkService
<1> QED
  BY <1>1 DEF linkUpstreams, Configs

----------------------------------------------------------------------------
(* Type correctness.                                                       *)

\* The Admin API's writes keep the tables and the handlers well typed.
LEMMA CallType ==
  ASSUME TypeOK, NEW a \in Admins, Call(a)
  PROVE  TypeOK'
<1> USE DEF TypeOK
<1>w. ASSUME Write(a)
      PROVE  /\ writes' \in 0 .. MaxWrites /\ faults' = faults /\ crashes' = crashes
             /\ pc' \in [Admins -> {"idle", "upstreams", "services", "routes", "install", "router"}]
             /\ alone' \in [Admins -> BOOLEAN]
             /\ UNCHANGED <<installed, router, process, failures, seen, todo>>
  BY <1>w, ConfigAssumption DEF Write, Disturb, runtimeVars
<1>1. ASSUME NEW s \in Services, NEW body \in Bodies, UpsertService(a, s, body)
      PROVE  TypeOK'
  <2>1. Assigned(svc[s], body) \in ServiceRows
    BY ConfigAssumption DEF Assigned, ServiceRows
  <2> QED
    BY <1>1, <1>w, <2>1 DEF UpsertService
<1>2. ASSUME NEW s \in Services, DeleteService(a, s)
      PROVE  TypeOK'
  BY <1>2, <1>w DEF DeleteService
<1>3. ASSUME NEW s \in Services, NEW r \in Routes, NEW kind \in Kinds, UpsertRoute(a, s, r, kind)
      PROVE  TypeOK'
  BY <1>3, <1>w DEF UpsertRoute, RouteRows
<1>4. ASSUME NEW s \in Services, NEW r \in Routes, DeleteRoute(a, s, r)
      PROVE  TypeOK'
  BY <1>4, <1>w DEF DeleteRoute
<1>5. ASSUME NEW h \in Hosts, NEW t \in SUBSET Targets, UpsertUpstream(a, h, t)
      PROVE  TypeOK'
  BY <1>5, <1>w DEF UpsertUpstream
<1>6. ASSUME NEW h \in Hosts, DeleteUpstream(a, h)
      PROVE  TypeOK'
  BY <1>6, <1>w DEF DeleteUpstream
<1>7. CASE WriteFails(a)
  BY <1>7, ConfigAssumption DEF WriteFails, storeVars, runtimeVars, handlerVars
<1> QED
  BY <1>1, <1>2, <1>3, <1>4, <1>5, <1>6, <1>7 DEF Call

\* So do the steps of a reload.
LEMMA ReloadType ==
  ASSUME TypeOK, NEW a \in Admins, Reload(a)
  PROVE  TypeOK'
<1> USE DEF TypeOK, storeVars, runtimeVars, boundVars, handlerVars
<1>0. StoreType /\ seen[a] \in Reads
  BY DEF StoreType
<1>f. ASSUME ReloadFails(a), faults' \in 0 .. MaxFaults
      PROVE  TypeOK'
  BY <1>f, NothingType DEF ReloadFails
<1>1. CASE ReadUpstreams(a)
  <2>1. [seen[a] EXCEPT !.ups = ups] \in Reads
    BY <1>0 DEF Reads, StoreType
  <2> QED
    BY <1>1, <2>1 DEF ReadUpstreams
<1>2. CASE ReadServices(a)
  <2>1. [seen[a] EXCEPT !.svc = svc] \in Reads
    BY <1>0 DEF Reads, StoreType
  <2> QED
    BY <1>2, <2>1 DEF ReadServices
<1>3. ASSUME NEW s \in Services, ReadRoutes(a, s)
      PROVE  TypeOK'
  <2>1. [seen[a] EXCEPT !.rts[s] = RoutesOf(s)] \in Reads
    BY <1>0, RoutesOfType DEF Reads, Rows
  <2> QED
    BY <1>3, <2>1 DEF ReadRoutes
<1>4. CASE ReadFails(a)
  BY <1>4, <1>f, ConfigAssumption DEF ReadFails
<1>5. CASE ValidationFails(a)
  BY <1>5, <1>f DEF ValidationFails
<1>6. CASE Install(a)
  BY <1>6, <1>0, LinkType DEF Install, Disturb
<1>7. CASE UpdateRouter(a)
  BY <1>7, <1>0, LinkType, NothingType DEF UpdateRouter, Disturb
<1> QED
  BY <1>1, <1>2, <1>3, <1>4, <1>5, <1>6, <1>7 DEF Reload

\* Every state of the configuration component is well typed.
THEOREM ConfigTypeCorrect == Spec => []TypeOK
<1>1. Init => TypeOK
  <2> SUFFICES ASSUME Init PROVE TypeOK
    OBVIOUS
  <2>1. StoreType
    BY ConfigAssumption DEF Init, StoreType
  <2>2. installed \in Configs /\ router \in Configs
    BY <2>1, StoredType, LinkType DEF Init
  <2>3. writes \in 0 .. MaxWrites /\ faults \in 0 .. MaxFaults /\ crashes \in 0 .. MaxCrashes
    BY ConfigAssumption DEF Init
  <2>4. seen \in [Admins -> Reads]
    BY NothingType DEF Init
  <2>5. alone \in [Admins -> BOOLEAN] /\ failures \in BOOLEAN
    BY DEF Init
  <2>6. /\ process \in {"up", "down", "refused"}
        /\ pc \in [Admins -> {"idle", "upstreams", "services", "routes", "install", "router"}]
        /\ todo \in [Admins -> SUBSET Services]
    BY DEF Init
  <2> QED
    BY <2>1, <2>2, <2>3, <2>4, <2>5, <2>6 DEF TypeOK, StoreType
<1>2. TypeOK /\ [Next]_vars => TypeOK'
  <2> SUFFICES ASSUME TypeOK, [Next]_vars PROVE TypeOK'
    OBVIOUS
  <2>0. NoConfig \in Configs
    BY DEF NoConfig, Configs
  <2>1. CASE UNCHANGED vars
    BY <2>1 DEF TypeOK, vars, storeVars, runtimeVars, handlerVars, boundVars
  <2>2. ASSUME NEW a \in Admins, Call(a) PROVE TypeOK'
    BY <2>2, CallType
  <2>3. ASSUME NEW a \in Admins, Reload(a) PROVE TypeOK'
    BY <2>3, ReloadType
  <2>4. CASE Crash
    <3>1. crashes' \in 0 .. MaxCrashes
      BY <2>4, ConfigAssumption DEF Crash, TypeOK
    <3>2. seen' \in [Admins -> Reads]
      BY <2>4, NothingType DEF Crash
    <3>3. alone' \in [Admins -> BOOLEAN] /\ failures' \in BOOLEAN
      BY <2>4 DEF Crash
    <3>4. /\ process' \in {"up", "down", "refused"}
          /\ pc' \in [Admins -> {"idle", "upstreams", "services", "routes", "install", "router"}]
          /\ todo' \in [Admins -> SUBSET Services]
      BY <2>4 DEF Crash
    <3> QED
      BY <2>4, <2>0, <3>1, <3>2, <3>3, <3>4 DEF Crash, TypeOK, storeVars
  <2>5. CASE Boot
    <3>1. linkUpstreams(Stored) \in Configs
      BY StoredType, LinkType DEF TypeOK, StoreType
    <3> QED
      BY <2>5, <3>1 DEF Boot, TypeOK, storeVars, runtimeVars, handlerVars, boundVars
  <2> QED
    BY <2>1, <2>2, <2>3, <2>4, <2>5 DEF Next
<1> QED
  BY <1>1, <1>2, PTL DEF Spec

----------------------------------------------------------------------------
(* Reloads that meet no other call.                                        *)

\* What a reload has read is still what the store holds while no other call
\* has interfered, and what it has stored is still there.
SoloInv ==
  \A a \in Admins :
    /\ process # "up" => pc[a] = "idle"
    /\ pc[a] \in {"install", "router"} => todo[a] = {}
    /\ alone[a] /\ pc[a] \in {"services", "routes", "install", "router"}
         => seen[a].ups = ups
    /\ alone[a] /\ pc[a] \in {"routes", "install", "router"}
         => /\ seen[a].svc = svc
            /\ \A s \in Services \ todo[a] :
                 svc[s] # None => seen[a].rts[s] = RoutesOf(s)
    /\ alone[a] /\ pc[a] = "router" => installed = linkUpstreams(seen[a])

\* Rows of services that do not exist do not matter to the linked result.
LEMMA SameLink ==
  ASSUME NEW read \in Reads, StoreType,
         read.ups = ups, read.svc = svc,
         \A s \in Services : svc[s] # None => read.rts[s] = RoutesOf(s)
  PROVE  linkUpstreams(read) = linkUpstreams(Stored)
BY DEF linkUpstreams, Stored

\* A write of one handler leaves the others no claim, and itself none.
LEMMA CallSolo ==
  ASSUME TypeOK, SoloInv, NEW a \in Admins, Call(a)
  PROVE  SoloInv'
<1>1. CASE Write(a)
  BY <1>1 DEF Write, Disturb, SoloInv, TypeOK, runtimeVars
<1>2. CASE WriteFails(a)
  BY <1>2 DEF WriteFails, SoloInv, RoutesOf, storeVars, runtimeVars, handlerVars
<1> QED
  BY <1>1, <1>2 DEF Call, UpsertService, DeleteService, UpsertRoute, DeleteRoute,
     UpsertUpstream, DeleteUpstream

\* The claims of the handlers that a step does not touch.
LEMMA OtherSolo ==
  ASSUME TypeOK, SoloInv, NEW a \in Admins, NEW b \in Admins, b # a,
         UNCHANGED <<ups, svc, rts, process>>,
         pc'[b] = pc[b], todo'[b] = todo[b], seen'[b] = seen[b],
         alone'[b] => alone[b] /\ UNCHANGED installed
  PROVE  /\ process' # "up" => pc'[b] = "idle"
         /\ pc'[b] \in {"install", "router"} => todo'[b] = {}
         /\ alone'[b] /\ pc'[b] \in {"services", "routes", "install", "router"}
              => seen'[b].ups = ups'
         /\ alone'[b] /\ pc'[b] \in {"routes", "install", "router"}
              => /\ seen'[b].svc = svc'
                 /\ \A s \in Services \ todo'[b] :
                      svc'[s] # None => seen'[b].rts[s] = RoutesOf(s)'
         /\ alone'[b] /\ pc'[b] = "router" => installed' = linkUpstreams(seen'[b])
BY DEF SoloInv, RoutesOf

\* Every step of a reload keeps its own claim and those of the others.
LEMMA ReloadSolo ==
  ASSUME TypeOK, SoloInv, NEW a \in Admins, Reload(a)
  PROVE  SoloInv'
<1> DEFINE Claim(b) ==
      /\ process' # "up" => pc'[b] = "idle"
      /\ pc'[b] \in {"install", "router"} => todo'[b] = {}
      /\ alone'[b] /\ pc'[b] \in {"services", "routes", "install", "router"}
           => seen'[b].ups = ups'
      /\ alone'[b] /\ pc'[b] \in {"routes", "install", "router"}
           => /\ seen'[b].svc = svc'
              /\ \A s \in Services \ todo'[b] :
                   svc'[s] # None => seen'[b].rts[s] = RoutesOf(s)'
      /\ alone'[b] /\ pc'[b] = "router" => installed' = linkUpstreams(seen'[b])
<1> SUFFICES \A b \in Admins : Claim(b)
  BY DEF SoloInv
<1>o. ASSUME NEW b \in Admins, b # a PROVE Claim(b)
  <2> USE <1>o DEF storeVars, runtimeVars, boundVars, TypeOK
  <2>1. UNCHANGED <<ups, svc, rts, process>>
    BY DEF Reload, ReadUpstreams, ReadServices, ReadRoutes, ReadFails, ReloadFails,
           ValidationFails, Install, UpdateRouter
  <2>2. pc'[b] = pc[b] /\ todo'[b] = todo[b] /\ seen'[b] = seen[b]
    BY DEF Reload, ReadUpstreams, ReadServices, ReadRoutes, ReadFails, ReloadFails,
           ValidationFails, Install, UpdateRouter
  <2>3. alone'[b] => alone[b] /\ UNCHANGED installed
    BY DEF Reload, ReadUpstreams, ReadServices, ReadRoutes, ReadFails, ReloadFails,
           ValidationFails, Install, UpdateRouter, Disturb
  <2> QED
    BY <2>1, <2>2, <2>3, OtherSolo
<1>p. process' = "up"
  BY DEF SoloInv, Reload, ReadUpstreams, ReadServices, ReadRoutes, ReadFails,
         ReloadFails, ValidationFails, Install, UpdateRouter
<1>r. seen[a] \in Reads /\ seen[a] = [ups |-> seen[a].ups, svc |-> seen[a].svc, rts |-> seen[a].rts]
  BY DEF TypeOK, Reads
<1>1. CASE ReadUpstreams(a)
  <2>1. seen'[a].ups = ups /\ pc'[a] = "services"
    BY <1>1, <1>r DEF ReadUpstreams, TypeOK, Reads
  <2> QED
    BY <1>1, <1>o, <1>p, <2>1 DEF ReadUpstreams, storeVars
<1>2. CASE ReadServices(a)
  <2>1. /\ seen'[a].ups = seen[a].ups /\ seen'[a].svc = svc
        /\ todo'[a] = {s \in Services : svc[s] # None}
        /\ pc'[a] = IF todo'[a] = {} THEN "install" ELSE "routes"
    BY <1>2, <1>r DEF ReadServices, TypeOK, Reads
  <2>2. Claim(a)
    BY <1>2, <1>p, <2>1 DEF ReadServices, storeVars, SoloInv
  <2> QED
    BY <1>o, <2>2
<1>3. ASSUME NEW s \in Services, ReadRoutes(a, s)
      PROVE  \A b \in Admins : Claim(b)
  <2>1. /\ seen'[a].ups = seen[a].ups /\ seen'[a].svc = seen[a].svc
        /\ seen'[a].rts = [seen[a].rts EXCEPT ![s] = RoutesOf(s)]
        /\ todo'[a] = todo[a] \ {s}
        /\ pc'[a] = IF todo[a] = {s} THEN "install" ELSE "routes"
    BY <1>3, <1>r DEF ReadRoutes, TypeOK, Reads
  <2>2. pc'[a] = "install" => todo'[a] = {}
    BY <2>1
  <2>3. pc'[a] # "router"
    BY <2>1
  <2>4. alone'[a] => seen'[a].ups = ups'
    BY <1>3, <2>1 DEF ReadRoutes, storeVars, SoloInv
  <2>5. alone'[a] => seen'[a].svc = svc'
    BY <1>3, <2>1 DEF ReadRoutes, storeVars, SoloInv
  <2>6. ASSUME alone'[a], NEW x \in Services \ todo'[a], svc'[x] # None
        PROVE  seen'[a].rts[x] = RoutesOf(x)'
    <3>1. RoutesOf(x)' = RoutesOf(x) /\ svc' = svc /\ alone' = alone
      BY <1>3 DEF ReadRoutes, storeVars, RoutesOf
    <3>2. seen[a].rts \in [Services -> Rows]
      BY <1>r DEF Reads, Rows
    <3>3. x = s \/ x \in Services \ todo[a]
      BY <2>1
    <3> QED
      BY <1>3, <2>1, <2>6, <3>1, <3>2, <3>3 DEF ReadRoutes, SoloInv
  <2> QED
    BY <1>o, <1>p, <2>2, <2>3, <2>4, <2>5, <2>6
<1>4. CASE ReloadFails(a)
  BY <1>4, <1>o, <1>p DEF ReloadFails, TypeOK
<1>5. CASE Install(a)
  <2>1. pc[a] = "install" /\ pc'[a] = "router" /\ (alone'[a] => alone[a])
    BY <1>5 DEF Install, TypeOK, Disturb
  <2>2. UNCHANGED <<ups, svc, rts, seen, todo>> /\ installed' = linkUpstreams(seen[a])
    BY <1>5 DEF Install, storeVars
  <2>3. \A s \in Services : RoutesOf(s)' = RoutesOf(s)
    BY <2>2 DEF RoutesOf
  <2>4. Claim(a)
    BY <1>p, <2>1, <2>2, <2>3 DEF SoloInv
  <2> QED
    BY <1>o, <2>4
<1>6. CASE UpdateRouter(a)
  BY <1>6, <1>o, <1>p DEF UpdateRouter, TypeOK
<1> QED
  BY <1>1, <1>2, <1>3, <1>4, <1>5, <1>6 DEF Reload, ReadFails, ValidationFails

\* In every reachable state a handler's claim holds.
THEOREM SoloInvariant == Spec => []SoloInv
<1>1. Init => SoloInv
  BY DEF Init, SoloInv
<1>2. TypeOK /\ SoloInv /\ [Next]_vars => SoloInv'
  <2> SUFFICES ASSUME TypeOK, SoloInv, [Next]_vars PROVE SoloInv'
    OBVIOUS
  <2>1. CASE UNCHANGED vars
    BY <2>1 DEF SoloInv, RoutesOf, vars, storeVars, runtimeVars, handlerVars
  <2>2. ASSUME NEW a \in Admins, Call(a) PROVE SoloInv'
    BY <2>2, CallSolo
  <2>3. ASSUME NEW a \in Admins, Reload(a) PROVE SoloInv'
    BY <2>3, ReloadSolo
  <2>4. CASE Crash
    BY <2>4 DEF Crash, SoloInv
  <2>5. CASE Boot
    <3>1. UNCHANGED <<ups, svc, rts, pc, seen, todo, alone>>
      BY <2>5 DEF Boot, storeVars, handlerVars
    <3> QED
      BY <2>5, <3>1 DEF Boot, SoloInv, RoutesOf
  <2> QED
    BY <2>1, <2>2, <2>3, <2>4, <2>5 DEF Next
<1> QED
  BY <1>1, <1>2, ConfigTypeCorrect, PTL DEF Spec

\* SoloReloadSyncs: a reload that no other call has disturbed ends with
\* globalProxyConfig and the router equal to what the store holds.
THEOREM SoloReloads == Spec => SoloReloadSyncs
<1>1. TypeOK /\ SoloInv /\ [Next]_vars =>
        [\A a \in Admins :
           process = "up" /\ pc[a] = "router" /\ pc'[a] = "idle" /\ alone[a] /\ process' = "up"
             => /\ installed' = linkUpstreams(Stored')
                /\ router' = linkUpstreams(Stored')]_vars
  <2> SUFFICES ASSUME TypeOK, SoloInv, Next, NEW a \in Admins, process' = "up",
                      pc[a] = "router", pc'[a] = "idle", alone[a]
               PROVE  /\ installed' = linkUpstreams(Stored')
                      /\ router' = linkUpstreams(Stored')
    OBVIOUS
  <2>1. UpdateRouter(a)
    <3>1. ASSUME NEW b \in Admins, Call(b) PROVE FALSE
      <4>1. pc' = pc \/ (pc[b] = "idle" /\ pc' = [pc EXCEPT ![b] = "upstreams"])
        BY <3>1 DEF Call, UpsertService, DeleteService, UpsertRoute, DeleteRoute,
           UpsertUpstream, DeleteUpstream, Write, WriteFails, handlerVars
      <4> QED
        BY <4>1 DEF TypeOK
    <3>2. ASSUME NEW b \in Admins, Reload(b), b # a PROVE FALSE
      BY <3>2 DEF Reload, ReadUpstreams, ReadServices, ReadRoutes, ReadFails,
         ReloadFails, ValidationFails, Install, UpdateRouter, TypeOK
    <3>3. ~Crash /\ ~Boot
      BY DEF Crash, Boot, SoloInv
    <3>4. Reload(a)
      BY <3>1, <3>2, <3>3 DEF Next
    <3> QED
      BY <3>4 DEF Reload, ReadUpstreams, ReadServices, ReadRoutes, ReadFails,
         ValidationFails, Install
  <2>2. installed = linkUpstreams(seen[a]) /\ router' = linkUpstreams(seen[a])
    BY <2>1 DEF SoloInv, UpdateRouter
  <2>3. linkUpstreams(seen[a]) = linkUpstreams(Stored)
    <3>1. /\ seen[a] \in Reads /\ StoreType
          /\ seen[a].ups = ups /\ seen[a].svc = svc
          /\ \A s \in Services : svc[s] # None => seen[a].rts[s] = RoutesOf(s)
      BY DEF SoloInv, TypeOK, StoreType
    <3> QED
      BY <3>1, SameLink
  <2>4. installed' = installed /\ Stored' = Stored
    BY <2>1 DEF UpdateRouter, storeVars, Stored, RoutesOf
  <2> QED
    BY <2>2, <2>3, <2>4
<1> QED
  BY <1>1, ConfigTypeCorrect, SoloInvariant, PTL DEF Spec, SoloReloadSyncs

----------------------------------------------------------------------------
(* Routed services can be reached.                                         *)

\* The router, and what a handler is about to build it from, are valid.
RouteInv ==
  /\ RoutedServicesReachable
  /\ \A a \in Admins : pc[a] = "router" => ValidateConfig(linkUpstreams(seen[a]))

\* A valid configuration has only reachable services.
LEMMA ValidReachable ==
  ASSUME NEW config, ValidateConfig(config)
  PROVE  \A s \in Services : config[s] # None => Reachable(config[s])
BY DEF ValidateConfig, ValidService

\* RoutedServicesReachable in every reachable state.
THEOREM RoutedReachable == Spec => []RoutedServicesReachable
<1>1. Init => RouteInv
  BY ValidReachable DEF Init, RouteInv, RoutedServicesReachable
<1>2. TypeOK /\ RouteInv /\ [Next]_vars => RouteInv'
  <2> SUFFICES ASSUME TypeOK, RouteInv, [Next]_vars PROVE RouteInv'
    OBVIOUS
  <2> USE DEF RouteInv, storeVars, runtimeVars, handlerVars
  <2>1. CASE UNCHANGED vars
    BY <2>1 DEF vars, RoutedServicesReachable
  <2>2. ASSUME NEW a \in Admins, Call(a) PROVE RouteInv'
    <3>1. /\ UNCHANGED <<router, seen>>
          /\ pc' = pc \/ pc' = [pc EXCEPT ![a] = "upstreams"]
      BY <2>2 DEF Call, UpsertService, DeleteService, UpsertRoute, DeleteRoute,
         UpsertUpstream, DeleteUpstream, Write, WriteFails
    <3> QED
      BY <3>1 DEF TypeOK, RoutedServicesReachable
  <2>3. ASSUME NEW a \in Admins, Reload(a) PROVE RouteInv'
    <3>1. ASSUME NEW b \in Admins, pc'[b] = "router"
          PROVE  ValidateConfig(linkUpstreams(seen'[b]))
      <4>1. CASE Install(a)
        BY <3>1, <4>1 DEF Install, TypeOK
      <4>2. CASE ~Install(a)
        <5>1. pc[b] = "router" /\ seen'[b] = seen[b]
          BY <2>3, <3>1, <4>2 DEF TypeOK, Reload, ReadUpstreams, ReadServices, ReadRoutes,
             ReadFails, ReloadFails, ValidationFails, UpdateRouter
        <5> QED
          BY <5>1
      <4> QED
        BY <4>1, <4>2
    <3>2. router' = router \/ (pc[a] = "router" /\ router' = linkUpstreams(seen[a]))
      BY <2>3 DEF Reload, ReadUpstreams, ReadServices, ReadRoutes,
         ReadFails, ReloadFails, ValidationFails, Install, UpdateRouter
    <3>3. RoutedServicesReachable'
      BY <3>2, ValidReachable DEF RoutedServicesReachable
    <3> QED
      BY <3>1, <3>3
  <2>4. CASE Crash
    BY <2>4 DEF Crash, NoConfig, RoutedServicesReachable
  <2>5. CASE Boot
    BY <2>5, ValidReachable DEF Boot, RoutedServicesReachable
  <2> QED
    BY <2>1, <2>2, <2>3, <2>4, <2>5 DEF Next
<1> QED
  BY <1>1, <1>2, ConfigTypeCorrect, PTL DEF Spec, RouteInv

----------------------------------------------------------------------------
(* An invalid store does not go unnoticed.                                 *)

\* Handler a is on its way to validate exactly what the store holds: it has
\* begun its reload after the last write.
Fresh(a) ==
  /\ pc[a] \in {"upstreams", "services", "routes", "install"}
  /\ pc[a] \in {"services", "routes", "install"} => seen[a].ups = ups
  /\ pc[a] \in {"routes", "install"}
       => /\ seen[a].svc = svc
          /\ \A s \in Services \ todo[a] : svc[s] # None => seen[a].rts[s] = RoutesOf(s)
  /\ pc[a] = "install" => todo[a] = {}

NoticeInv ==
  process = "up" /\ ~failures /\ ~ValidateConfig(linkUpstreams(Stored))
    => \E a \in Admins : Fresh(a)

\* A step of another handler leaves a fresh one fresh.
LEMMA FreshFrame ==
  ASSUME NEW w \in Admins, Fresh(w), UNCHANGED <<ups, svc, rts>>,
         pc'[w] = pc[w], todo'[w] = todo[w], seen'[w] = seen[w]
  PROVE  Fresh(w)'
BY DEF Fresh, RoutesOf

\* A fresh handler that takes a step of its reload stays fresh, or records a
\* failure, or has found the store to be valid.
LEMMA FreshStep ==
  ASSUME TypeOK, NEW a \in Admins, Fresh(a), Reload(a)
  PROVE  Fresh(a)' \/ failures' \/ ValidateConfig(linkUpstreams(Stored))
<1> USE DEF TypeOK
<1>r. seen[a] \in Reads /\ seen[a] = [ups |-> seen[a].ups, svc |-> seen[a].svc, rts |-> seen[a].rts]
  BY DEF Reads
<1>1. CASE ReadUpstreams(a)
  <2>1. seen'[a].ups = ups /\ pc'[a] = "services" /\ ups' = ups
    BY <1>1, <1>r DEF ReadUpstreams, Reads, storeVars
  <2> QED
    BY <2>1 DEF Fresh
<1>2. CASE ReadServices(a)
  <2>1. /\ seen'[a].ups = seen[a].ups /\ seen'[a].svc = svc
        /\ todo'[a] = {s \in Services : svc[s] # None}
        /\ pc'[a] = IF todo'[a] = {} THEN "install" ELSE "routes"
        /\ pc[a] = "services" /\ ups' = ups /\ svc' = svc
    BY <1>2, <1>r DEF ReadServices, Reads, storeVars
  <2> QED
    BY <2>1 DEF Fresh
<1>3. ASSUME NEW s \in Services, ReadRoutes(a, s)
      PROVE  Fresh(a)'
  <2>1. /\ seen'[a].ups = seen[a].ups /\ seen'[a].svc = seen[a].svc
        /\ seen'[a].rts = [seen[a].rts EXCEPT ![s] = RoutesOf(s)]
        /\ todo'[a] = todo[a] \ {s}
        /\ pc'[a] = IF todo[a] = {s} THEN "install" ELSE "routes"
        /\ pc[a] = "routes" /\ ups' = ups /\ svc' = svc /\ rts' = rts
    BY <1>3, <1>r DEF ReadRoutes, Reads, storeVars
  <2>2. \A x \in Services : RoutesOf(x)' = RoutesOf(x)
    BY <2>1 DEF RoutesOf
  <2>3. seen[a].rts \in [Services -> Rows]
    BY <1>r DEF Reads, Rows
  <2>4. \A x \in Services \ todo'[a] : svc[x] # None => seen'[a].rts[x] = RoutesOf(x)
    BY <2>1, <2>3 DEF Fresh
  <2> QED
    BY <2>1, <2>2, <2>4 DEF Fresh
<1>4. CASE ReloadFails(a)
  BY <1>4 DEF ReloadFails
<1>5. CASE Install(a)
  <2>1. linkUpstreams(seen[a]) = linkUpstreams(Stored)
    BY <1>5, <1>r, SameLink DEF Install, Fresh, StoreType
  <2> QED
    BY <1>5, <2>1 DEF Install
<1>6. CASE UpdateRouter(a)
  BY <1>6 DEF UpdateRouter, Fresh
<1> QED
  BY <1>1, <1>2, <1>3, <1>4, <1>5, <1>6 DEF Reload, ReadFails, ValidationFails

\* InvalidStoreNoticed in every reachable state, for any number of handlers.
THEOREM InvalidNoticed == Spec => []InvalidStoreNoticed
<1>1. Init => NoticeInv
  BY DEF Init, NoticeInv
<1>2. TypeOK /\ SoloInv /\ NoticeInv /\ [Next]_vars => NoticeInv'
  <2> SUFFICES ASSUME TypeOK, SoloInv, NoticeInv, [Next]_vars,
                      process' = "up", ~failures', ~ValidateConfig(linkUpstreams(Stored'))
               PROVE  \E a \in Admins : Fresh(a)'
    BY DEF NoticeInv
  <2> USE DEF storeVars, runtimeVars, handlerVars, boundVars
  <2>1. CASE UNCHANGED vars
    BY <2>1 DEF vars, NoticeInv, Fresh, RoutesOf, Stored
  <2>2. ASSUME NEW a \in Admins, Call(a) PROVE \E b \in Admins : Fresh(b)'
    <3>1. CASE Write(a)
      BY <3>1 DEF Write, Fresh, TypeOK
    <3>2. CASE WriteFails(a)
      BY <3>2 DEF WriteFails, NoticeInv, Fresh, RoutesOf, Stored
    <3> QED
      BY <2>2, <3>1, <3>2 DEF Call, UpsertService, DeleteService, UpsertRoute,
         DeleteRoute, UpsertUpstream, DeleteUpstream
  <2>3. ASSUME NEW a \in Admins, Reload(a) PROVE \E b \in Admins : Fresh(b)'
    <3>1. UNCHANGED <<ups, svc, rts, process>> /\ (failures => failures')
      BY <2>3 DEF Reload, ReadUpstreams, ReadServices, ReadRoutes, ReadFails, ReloadFails,
         ValidationFails, Install, UpdateRouter
    <3>2. Stored' = Stored
      BY <3>1 DEF Stored, RoutesOf
    <3>3. PICK w \in Admins : Fresh(w)
      BY <3>1, <3>2 DEF NoticeInv
    <3>4. CASE w = a
      BY <2>3, <3>2, <3>3, <3>4, FreshStep
    <3>5. CASE w # a
      <4>1. pc'[w] = pc[w] /\ todo'[w] = todo[w] /\ seen'[w] = seen[w]
        BY <2>3, <3>5 DEF Reload, ReadUpstreams, ReadServices, ReadRoutes, ReadFails,
           ReloadFails, ValidationFails, Install, UpdateRouter, TypeOK
      <4> QED
        BY <3>1, <3>3, <4>1, FreshFrame
    <3> QED
      BY <3>4, <3>5
  <2>4. CASE Crash
    BY <2>4 DEF Crash
  <2>5. CASE Boot
    <3>1. Stored' = Stored
      BY <2>5 DEF Boot, Stored, RoutesOf
    <3> QED
      BY <2>5, <3>1 DEF Boot
  <2> QED
    BY <2>1, <2>2, <2>3, <2>4, <2>5 DEF Next
<1>3. NoticeInv => InvalidStoreNoticed
  BY DEF NoticeInv, InvalidStoreNoticed, Quiet, Fresh
<1> QED
  BY <1>1, <1>2, <1>3, ConfigTypeCorrect, SoloInvariant, PTL DEF Spec
=============================================================================
