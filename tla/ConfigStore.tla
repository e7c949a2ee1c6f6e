---------------------------- MODULE ConfigStore ----------------------------
(***************************************************************************)
(* The configuration of a gateway in DB mode: the tables of the SQL store  *)
(* (sql_store.go), the Admin API handlers that write them (api/gateway.go),*)
(* the reload each of them runs (proxy_config.go), which reads the store   *)
(* with one query after the other and installs what it has read, and a     *)
(* restart of the process.                                                 *)
(*                                                                         *)
(* Every Admin API call is handled by a goroutine of its own and nothing   *)
(* orders two of them.  An upsert is a SELECT and an INSERT or UPDATE; its *)
(* overlaps with other writes are those of one atomic write, or an error   *)
(* of the unique index (WriteFails).                                       *)
(***************************************************************************)
EXTENDS Naturals, FiniteSets

CONSTANTS
  Admins,        \* goroutines that handle Admin API calls
  Services,      \* names of services
  Routes,        \* names of routes
  Hosts,         \* host names, any of which may be the name of an upstream
  Ports,         \* ports of a url
  DefaultPort,   \* the port of a url that names none
  Targets,       \* the targets of upstreams
  Bodies,        \* the Service objects that are posted
  None,          \* an empty string, a missing row
  MaxWrites,     \* bound: Admin API calls that reach the database
  MaxFaults,     \* bound: database errors
  MaxCrashes     \* bound: restarts of the process

Urls == [host : Hosts, port : Ports]

(* A row of the services table: the url (host and port of it), the host,   *)
(* and whether the fields that no other table bears on pass validation.    *)
ServiceRows ==
  [url : Urls \union {None}, host : Hosts \union {None}, ok : BOOLEAN]

\* A route proxies, aggregates backends, or has a path or method that fails
\* validation.
Kinds == {"proxy", "aggregate", "invalid"}

RouteRows == [svc : Services, kind : Kinds]

ASSUME ConfigAssumption ==
  /\ IsFiniteSet(Admins)
  /\ DefaultPort \in Ports
  /\ Bodies \subseteq ServiceRows
  /\ None \notin Hosts /\ None \notin Kinds
  /\ \A url \in Urls : url # None
  /\ \A row \in ServiceRows : row # None
  /\ \A row \in RouteRows : row # None
  /\ \A targets \in SUBSET Targets : targets # None
  /\ MaxWrites \in Nat /\ MaxFaults \in Nat /\ MaxCrashes \in Nat

VARIABLES
  ups,        \* the upstreams table: targets by name
  svc,        \* the services table, by name
  rts,        \* the routes table, by name
  installed,  \* globalProxyConfig
  router,     \* the configuration proxy.router was built from
  process,    \* "up", "down", or "refused" (os.Exit(1) at boot)
  failures,   \* a reload has been logged and counted as failed since boot
  pc,         \* where each handler is in its reload
  seen,       \* what its queries have returned
  todo,       \* services whose routes it has yet to query
  alone,      \* history: since a handler began to read, no other one has
              \* written to the store or installed anything
  writes, faults, crashes

storeVars   == <<ups, svc, rts>>
runtimeVars == <<installed, router>>
handlerVars == <<pc, seen, todo>>
boundVars   == <<writes, faults, crashes>>
vars == <<storeVars, runtimeVars, process, failures, handlerVars, alone, boundVars>>

----------------------------------------------------------------------------
(* From rows to a configuration.                                           *)

\* The routes of a service, as its query returns them.
RoutesOf(s) ==
  [r \in Routes |-> IF rts[r] # None /\ rts[r].svc = s THEN rts[r].kind ELSE None]

\* Mutation: the direct url is built with a zero port.
linkServiceZeroPort(row, upstreams, routes) ==
  LET host  == IF row.host = None /\ row.url # None THEN row.url.host ELSE row.host
      found == host # None /\ upstreams[host] # None
  IN  [url     |-> IF host # None /\ ~found THEN [host |-> host, port |-> 0] ELSE row.url,
       targets |-> IF found THEN upstreams[host] ELSE {},
       ok      |-> row.ok,
       routes  |-> routes]

\* linkUpstreams for one service: the host, or else the host of the url,
\* names an upstream, or the url becomes the bare host.
linkService(row, upstreams, routes) ==
  LET host  == IF row.host = None /\ row.url # None THEN row.url.host ELSE row.host
      found == host # None /\ upstreams[host] # None
  IN  [url     |-> IF host # None /\ ~found
                   THEN [host |-> host, port |-> DefaultPort] ELSE row.url,
       targets |-> IF found THEN upstreams[host] ELSE {},
       ok      |-> row.ok,
       routes  |-> routes]

linkUpstreams(read) ==
  [s \in Services |->
     IF read.svc[s] = None THEN None
     ELSE linkService(read.svc[s], read.ups, read.rts[s])]

\* validateUpstream: a url, an aggregation route, or at least one target.
Reachable(service) ==
  \/ service.url # None
  \/ \E r \in Routes : service.routes[r] = "aggregate"
  \/ service.targets # {}

\* ValidateService and ValidateRoute.
ValidService(service) ==
  /\ service.ok
  /\ Reachable(service)
  /\ \A r \in Routes : service.routes[r] # "invalid"

ValidateConfig(config) ==
  \A s \in Services : config[s] # None => ValidService(config[s])

\* What the store holds, read at one instant.
Stored == [ups |-> ups, svc |-> svc, rts |-> [s \in Services |-> RoutesOf(s)]]

Configs ==
  [Services -> {None} \union
     [url : Urls \union {None}, targets : SUBSET Targets, ok : BOOLEAN,
      routes : [Routes -> Kinds \union {None}]]]

Reads ==
  [ups : [Hosts -> (SUBSET Targets) \union {None}],
   svc : [Services -> ServiceRows \union {None}],
   rts : [Services -> [Routes -> Kinds \union {None}]]]

\* What a handler holds before its queries.
Nothing ==
  [ups |-> [h \in Hosts |-> None], svc |-> [s \in Services |-> None],
   rts |-> [s \in Services |-> [r \in Routes |-> None]]]

NoConfig == [s \in Services |-> None]

TypeOK ==
  /\ ups \in [Hosts -> (SUBSET Targets) \union {None}]
  /\ svc \in [Services -> ServiceRows \union {None}]
  /\ rts \in [Routes -> RouteRows \union {None}]
  /\ installed \in Configs
  /\ router \in Configs
  /\ process \in {"up", "down", "refused"}
  /\ failures \in BOOLEAN
  /\ pc \in [Admins -> {"idle", "upstreams", "services", "routes", "install", "router"}]
  /\ seen \in [Admins -> Reads]
  /\ todo \in [Admins -> SUBSET Services]
  /\ alone \in [Admins -> BOOLEAN]
  /\ writes \in 0 .. MaxWrites
  /\ faults \in 0 .. MaxFaults
  /\ crashes \in 0 .. MaxCrashes

\* The gateway has booted from a store that earlier runs have filled.
Init ==
  /\ ups \in [Hosts -> (SUBSET Targets) \union {None}]
  /\ svc \in [Services -> Bodies \union {None}]
  /\ rts \in [Routes -> RouteRows \union {None}]
  /\ ValidateConfig(linkUpstreams(Stored))
  /\ installed = linkUpstreams(Stored)
  /\ router = installed
  /\ process = "up"
  /\ failures = FALSE
  /\ pc = [a \in Admins |-> "idle"]
  /\ seen = [a \in Admins |-> Nothing]
  /\ todo = [a \in Admins |-> {}]
  /\ alone = [a \in Admins |-> FALSE]
  /\ writes = 0 /\ faults = 0 /\ crashes = 0

----------------------------------------------------------------------------
(* Admin API calls: the write, after which the handler reloads.            *)

\* Handler a disturbs the reloads of the others.
Disturb(a) == alone' = [b \in Admins |-> b = a /\ alone[b]]

Write(a) ==
  /\ process = "up"
  /\ pc[a] = "idle"
  /\ writes < MaxWrites
  /\ writes' = writes + 1
  /\ pc' = [pc EXCEPT ![a] = "upstreams"]
  /\ Disturb(a)
  /\ UNCHANGED <<runtimeVars, process, failures, seen, todo, faults, crashes>>

\* gorm's Assign with a struct leaves out the columns the body has empty; a
\* body fills in every field that `ok' stands for.
Assigned(row, body) ==
  IF row = None THEN body
  ELSE [url  |-> IF body.url = None THEN row.url ELSE body.url,
        host |-> IF body.host = None THEN row.host ELSE body.host,
        ok   |-> body.ok]

UpsertService(a, s, body) ==
  /\ Write(a)
  /\ svc' = [svc EXCEPT ![s] = Assigned(@, body)]
  /\ UNCHANGED <<ups, rts>>

\* One transaction: the routes that name the service, and the service.
DeleteService(a, s) ==
  /\ Write(a)
  /\ svc' = [svc EXCEPT ![s] = None]
  /\ rts' = [r \in Routes |-> IF RoutesOf(s)[r] # None THEN None ELSE rts[r]]
  /\ UNCHANGED ups

\* The row is found by the name of the route alone, and the service need not
\* exist.
UpsertRoute(a, s, r, kind) ==
  /\ Write(a)
  /\ rts' = [rts EXCEPT ![r] = [svc |-> s, kind |-> kind]]
  /\ UNCHANGED <<ups, svc>>

DeleteRoute(a, s, r) ==
  /\ Write(a)
  /\ rts' = IF RoutesOf(s)[r] # None THEN [rts EXCEPT ![r] = None] ELSE rts
  /\ UNCHANGED <<ups, svc>>

UpsertUpstream(a, h, targets) ==
  /\ Write(a)
  /\ ups' = [ups EXCEPT ![h] = targets]
  /\ UNCHANGED <<svc, rts>>

DeleteUpstream(a, h) ==
  /\ Write(a)
  /\ ups' = [ups EXCEPT ![h] = None]
  /\ UNCHANGED <<svc, rts>>

\* The database refuses: 500, and no reload.
WriteFails(a) ==
  /\ process = "up" /\ pc[a] = "idle"
  /\ writes < MaxWrites /\ faults < MaxFaults
  /\ writes' = writes + 1
  /\ faults' = faults + 1
  /\ UNCHANGED <<storeVars, runtimeVars, process, failures, handlerVars, alone,
                 crashes>>

----------------------------------------------------------------------------
(* The reload: GetProxyConfig without a transaction, then installation.    *)

ReadUpstreams(a) ==
  /\ pc[a] = "upstreams"
  /\ pc' = [pc EXCEPT ![a] = "services"]
  /\ seen' = [seen EXCEPT ![a].ups = ups]
  /\ alone' = [alone EXCEPT ![a] = TRUE]
  /\ UNCHANGED <<storeVars, runtimeVars, process, failures, todo, boundVars>>

ReadServices(a) ==
  LET found == {s \in Services : svc[s] # None} IN
  /\ pc[a] = "services"
  /\ pc' = [pc EXCEPT ![a] = IF found = {} THEN "install" ELSE "routes"]
  /\ seen' = [seen EXCEPT ![a].svc = svc]
  /\ todo' = [todo EXCEPT ![a] = found]
  /\ UNCHANGED <<storeVars, runtimeVars, process, failures, alone, boundVars>>

\* One query per service found; the order of the rows does not matter.
ReadRoutes(a, s) ==
  /\ pc[a] = "routes" /\ s \in todo[a]
  /\ seen' = [seen EXCEPT ![a].rts[s] = RoutesOf(s)]
  /\ todo' = [todo EXCEPT ![a] = @ \ {s}]
  /\ pc' = [pc EXCEPT ![a] = IF todo[a] = {s} THEN "install" ELSE "routes"]
  /\ UNCHANGED <<storeVars, runtimeVars, process, failures, alone, boundVars>>

\* Mutation: the failure is not recorded.
ReloadFailsSilently(a) ==
  /\ pc' = [pc EXCEPT ![a] = "idle"]
  /\ seen' = [seen EXCEPT ![a] = Nothing]
  /\ todo' = [todo EXCEPT ![a] = {}]
  /\ UNCHANGED <<storeVars, runtimeVars, process, failures, alone, writes, crashes>>

\* The handler ignores the error of the reload and answers 200; its locals
\* are gone.
ReloadFails(a) ==
  /\ pc' = [pc EXCEPT ![a] = "idle"]
  /\ seen' = [seen EXCEPT ![a] = Nothing]
  /\ todo' = [todo EXCEPT ![a] = {}]
  /\ failures' = TRUE
  /\ UNCHANGED <<storeVars, runtimeVars, process, alone, writes, crashes>>

ReadFails(a) ==
  /\ pc[a] \in {"upstreams", "services", "routes"}
  /\ faults < MaxFaults
  /\ faults' = faults + 1
  /\ ReloadFails(a)

ValidationFails(a) ==
  /\ pc[a] = "install" /\ ~ValidateConfig(linkUpstreams(seen[a]))
  /\ ReloadFails(a)
  /\ UNCHANGED faults

\* Mutation: the configuration is stored without validation.
InstallUnchecked(a) ==
  /\ pc[a] = "install"
  /\ installed' = linkUpstreams(seen[a])
  /\ pc' = [pc EXCEPT ![a] = "router"]
  /\ Disturb(a)
  /\ UNCHANGED <<storeVars, router, process, failures, seen, todo, boundVars>>

\* globalProxyConfig.Store and ResetLoadBalancers.
Install(a) ==
  /\ pc[a] = "install" /\ ValidateConfig(linkUpstreams(seen[a]))
  /\ installed' = linkUpstreams(seen[a])
  /\ pc' = [pc EXCEPT ![a] = "router"]
  /\ Disturb(a)
  /\ UNCHANGED <<storeVars, router, process, failures, seen, todo, boundVars>>

\* Mutation: the router is rebuilt only when the set of services has changed.
UpdateRouterIfNeeded(a) ==
  LET config == linkUpstreams(seen[a]) IN
  /\ pc[a] = "router"
  /\ router' = IF \A s \in Services : config[s] = None <=> router[s] = None
               THEN router ELSE config
  /\ pc' = [pc EXCEPT ![a] = "idle"]
  /\ seen' = [seen EXCEPT ![a] = Nothing]
  /\ Disturb(a)
  /\ UNCHANGED <<storeVars, installed, process, failures, todo, boundVars>>

UpdateRouter(a) ==
  /\ pc[a] = "router"
  /\ router' = linkUpstreams(seen[a])
  /\ pc' = [pc EXCEPT ![a] = "idle"]
  /\ seen' = [seen EXCEPT ![a] = Nothing]
  /\ Disturb(a)
  /\ UNCHANGED <<storeVars, installed, process, failures, todo, boundVars>>

----------------------------------------------------------------------------
(* The process ends at any point, and boots from what the store holds.     *)

Crash ==
  /\ process = "up" /\ crashes < MaxCrashes
  /\ crashes' = crashes + 1
  /\ process' = "down"
  /\ installed' = NoConfig
  /\ router' = NoConfig
  /\ failures' = FALSE
  /\ pc' = [a \in Admins |-> "idle"]
  /\ seen' = [a \in Admins |-> Nothing]
  /\ todo' = [a \in Admins |-> {}]
  /\ alone' = [a \in Admins |-> FALSE]
  /\ UNCHANGED <<storeVars, writes, faults>>

\* No server listens yet, so the first reload runs by itself.
Boot ==
  LET config == linkUpstreams(Stored) IN
  /\ process = "down"
  /\ IF ValidateConfig(config)
     THEN /\ process' = "up"
          /\ installed' = config
          /\ router' = config
     ELSE /\ process' = "refused"
          /\ UNCHANGED runtimeVars
  /\ UNCHANGED <<storeVars, failures, handlerVars, alone, boundVars>>

----------------------------------------------------------------------------
Call(a) ==
  \/ \E s \in Services :
       \/ \E body \in Bodies : UpsertService(a, s, body)
       \/ DeleteService(a, s)
       \/ \E r \in Routes :
            (\E kind \in Kinds : UpsertRoute(a, s, r, kind)) \/ DeleteRoute(a, s, r)
  \/ \E h \in Hosts :
       (\E t \in SUBSET Targets : UpsertUpstream(a, h, t)) \/ DeleteUpstream(a, h)
  \/ WriteFails(a)

Reload(a) ==
  \/ ReadUpstreams(a) \/ ReadServices(a) \/ (\E s \in Services : ReadRoutes(a, s))
  \/ ReadFails(a) \/ ValidationFails(a) \/ Install(a) \/ UpdateRouter(a)

Next ==
  \/ \E a \in Admins : Call(a) \/ Reload(a)
  \/ Crash \/ Boot

Spec == Init /\ [][Next]_vars

----------------------------------------------------------------------------
(* Properties.                                                             *)

Quiet == process = "up" /\ \A a \in Admins : pc[a] = "idle"

(* A reload that meets no other call on its way leaves the gateway exactly *)
(* with what the store holds, in globalProxyConfig and in the router,      *)
(* whatever mix of configurations earlier reloads had left behind          *)
(* (reloadConfigFromStoreBody, GetProxyConfig).                            *)
SoloReloadSyncs ==
  [][\A a \in Admins :
       process = "up" /\ pc[a] = "router" /\ pc'[a] = "idle" /\ alone[a] /\ process' = "up"
         => /\ installed' = linkUpstreams(Stored')
            /\ router' = linkUpstreams(Stored')]_vars

(* An invalid store does not go unnoticed: when the gateway is up and no   *)
(* reload is under way, the store would boot, or some reload since boot    *)
(* has been recorded as failed, even if reads of one handler were torn by  *)
(* the writes of another (RecordConfigReload, and the boot in main).       *)
InvalidStoreNoticed ==
  Quiet => failures \/ ValidateConfig(linkUpstreams(Stored))

(* Whatever the queries of one reload have seen of each other's writes, a  *)
(* service the router knows can be reached: it has a url, an aggregation   *)
(* route or a target to select (linkUpstreams before ValidateConfig).      *)
RoutedServicesReachable ==
  \A s \in Services : router[s] # None => Reachable(router[s])
=============================================================================
