---------------------------- MODULE PluginChain ----------------------------
(***************************************************************************)
(* The way of a request to one route through its plugins and back          *)
(* (plugin_manager.go, createHandlerForRoute and ServeHTTP of              *)
(* sushi_proxy.go): the chain that a router is built with while            *)
(* configurations are reloaded, the plugins that keep state (cache.go,     *)
(* circuit_breaker.go), the log of http_log.go, and at the end of the      *)
(* chain the proxy pass or an aggregation.                                 *)
(*                                                                         *)
(* Filters has the plugins without state, RateLimit has what becomes a     *)
(* choice here, whether a request is within its limits, and ProxyPass what *)
(* HandleProxyPass does.                                                   *)
(***************************************************************************)
EXTENDS Aggregation, Filters, FiniteSetsExt

CONSTANTS
  Configs,   \* configurations; the first one is installed at the start
  Inputs     \* Inputs[r]: what r may be, see Filters

Gens == 1 .. Len(Configs)
Uris == {q.uri : q \in UNION {Inputs[r] : r \in Requests}}

\* The priorities that the constructors of the plugins give them.
Priority ==
  [cors |-> 0, response_handler |-> 0, request_termination |-> 2,
   rate_limit |-> 50, request_size_limit |-> 50,
   acl |-> 100, cache |-> 100, circuit_breaker |-> 100,
   multi_auth |-> 199, basic_auth |-> 200, key_auth |-> 200, mtls |-> 250,
   rbac |-> 900, bot_protection |-> 900, http_log |-> 1000, jwt |-> 1450]

\* loadConfig: a plugin that is disabled or has an unknown name is skipped.
Loadable(p) == p.enabled /\ p.name \in DOMAIN Priority \ {"response_handler"}

\* What the validators of the plugins, and their defaults, leave to them.
Valid(name, c) ==
  CASE name = "circuit_breaker" ->
         c.failure_threshold \in Nat \ {0} /\ c.success_threshold \in Nat \ {0}
    [] name = "cache" -> c.cache_control \in BOOLEAN
    [] name = "multi_auth" -> c.strategies \in Seq(STRING)
    [] name = "request_termination" -> c.status_code \in Int
    [] OTHER -> TRUE

ASSUME ConfigAssumption ==
  /\ Len(Configs) \in Nat \ {0}
  /\ \A g \in Gens :
       \A level \in {Configs[g].plugins, Configs[g].route, Configs[g].service} :
         /\ level \in Seq({level[i] : i \in DOMAIN level})
         /\ \A i \in DOMAIN level : Loadable(level[i]) => Valid(level[i].name, level[i].config)

ASSUME InputAssumption ==
  \A r \in Requests : \A q \in Inputs[r] :
    q = [f \in DOMAIN q |-> q[f]] /\ {"method", "uri"} \subseteq DOMAIN q

VARIABLES
  installed,  \* configuration of the last globalProxyConfig.Store
  reloading,  \* configurations that are stored but have no router yet
  router,     \* the configurations that the routes, and their global plugins, are from
  brk,        \* circuitBreakers: the breaker of the route's first path segment
  cache,      \* Redis: cached responses by URI
  stores,     \* goroutines of storeInCache
  pc,         \* "new", "down" or "up" the chain, "calling" backends
  pos,        \* position in the chain
  mine,       \* the router it was routed by
  req,        \* the request with the headers it has now
  resp        \* the response that has been written so far

chainVars == <<installed, reloading, router>>
stateVars == <<brk, cache, stores>>
localVars == <<pc, pos, mine, req, resp>>
vars == <<chainVars, stateVars, localVars, aggregationVars>>

NoInput == [framing |-> "none"]
\* `backend': written by the final handler; `plain': without no-store,
\* no-cache or private; `data': the backends whose bodies were merged.
NoResponse == [status |-> 0, backend |-> FALSE, plain |-> FALSE, data |-> {}]
Panic == [NoResponse EXCEPT !.status = -1]
NoRouter == [global |-> 0, own |-> 0]

Responses ==
  [status : -1 .. 999, backend : BOOLEAN, plain : BOOLEAN, data : SUBSET Backends]

TypeOK ==
  /\ AggregationTypeOK
  /\ installed \in Gens /\ reloading \subseteq Gens
  /\ router \in [global : Gens, own : Gens]
  /\ brk \in [state : {"none", "closed", "halfopen", "open"}, reqs : Nat, cfails : Nat,
              csucc : Nat, current : SUBSET Requests, trip : Nat, max : Nat]
  /\ brk.reqs <= brk.max /\ brk.cfails <= brk.trip
  /\ cache \in [Uris -> Responses]
  /\ \A s \in stores : s.uri \in Uris /\ s.resp \in Responses
  /\ pc \in [Requests -> {"new", "down", "up", "calling"}]
  /\ pos \in [Requests -> Nat]
  /\ mine \in [Requests -> [global : Gens \union {0}, own : Gens \union {0}]]
  /\ resp \in [Requests -> Responses]

----------------------------------------------------------------------------
(* Building the chain.                                                     *)

\* A plugin replaces the one of its name, or is appended and sorted in: the
\* insertion sort that sort.Slice makes of a short list moves it to the front
\* of all that have a higher priority, and no further.
RegisterPlugin(chain, p) ==
  IF \E i \in DOMAIN chain : chain[i].name = p.name
  THEN [i \in DOMAIN chain |-> IF chain[i].name = p.name THEN p ELSE chain[i]]
  ELSE LET higher == {i \in DOMAIN chain : Priority[chain[i].name] > Priority[p.name]}
       IN InsertAt(chain, Min(higher \union {Len(chain) + 1}), p)

loadConfig(chain, p) ==
  IF Loadable(p) THEN RegisterPlugin(chain, [name |-> p.name, config |-> p.config]) ELSE chain

ResponseHandler == [name |-> "response_handler", config |-> [nil |-> TRUE]]

\* The plugins of the global configuration at that time, then of the route,
\* then of the service.
Levels(global, own) == Configs[global].plugins \o Configs[own].route \o Configs[own].service

createHandlerForRoute(global, own) ==
  RegisterPlugin(FoldLeft(loadConfig, <<>>, Levels(global, own)), ResponseHandler)

Chains == [global \in Gens |-> [own \in Gens |-> createHandlerForRoute(global, own)]]

\* The longest list that sort.Slice sorts by insertion.
MaxInsertion == 12
ASSUME ShortListAssumption ==
  \A global, own \in Gens : Len(Chains[global][own]) <= MaxInsertion

Chain(r) == Chains[mine[r].global][mine[r].own]
Name(r, i) == Chain(r)[i].name
Here(r) == Chain(r)[pos[r]]

\* Plugins that act when a request comes, and when its response goes.
Accepting == DOMAIN Priority \ {"response_handler", "http_log"}
Responding == {"cache", "circuit_breaker", "http_log"}

\* The next position from i on where the request is looked at, or the end.
After(chain, i) ==
  Min({j \in i .. Len(chain) : chain[j].name \in Accepting} \union {Len(chain) + 1})

\* The last position before i where the response is looked at, or the start.
Before(chain, i) ==
  Max({j \in 1 .. i - 1 : chain[j].name \in Responding} \union {0})

----------------------------------------------------------------------------
(* The steps of a request.                                                 *)

\* Up the chain with response x.
Return(r, x) ==
  /\ resp' = [resp EXCEPT ![r] = x]
  /\ pc' = [pc EXCEPT ![r] = "up"]
  /\ pos' = [pos EXCEPT ![r] = Before(Chain(r), @)]
  /\ UNCHANGED <<mine, req>>

\* A plugin writes an answer of its own.
Answer(r, code) == Return(r, [NoResponse EXCEPT !.status = code])

\* next.ServeHTTP, with the headers as they are in q.
Continue(r, q) ==
  /\ pos' = [pos EXCEPT ![r] = After(Chain(r), pos[r] + 1)]
  /\ req' = [req EXCEPT ![r] = q]
  /\ UNCHANGED <<pc, mine, resp>>

\* ServeHTTP loads the router; the framing is checked before the chain.
Enter(r) ==
  /\ pc[r] = "new"
  /\ \E q \in Inputs[r] :
       \/ /\ validateRequestFraming(q) # 0
          /\ resp' = [resp EXCEPT ![r] = [NoResponse EXCEPT !.status = validateRequestFraming(q)]]
          /\ pc' = [pc EXCEPT ![r] = "up"]
          /\ UNCHANGED <<pos, mine, req>>
       \/ /\ validateRequestFraming(q) = 0
          /\ pc' = [pc EXCEPT ![r] = "down"]
          /\ pos' = [pos EXCEPT ![r] = After(Chains[router.global][router.own], 1)]
          /\ mine' = [mine EXCEPT ![r] = router]
          /\ req' = [req EXCEPT ![r] = q]
          /\ UNCHANGED resp
  /\ UNCHANGED <<chainVars, stateVars, aggregationVars>>

\* The handler of the connection returns; a panic closes the connection.
Respond(r) ==
  /\ pc[r] = "up" /\ pos[r] = 0
  /\ pc' = [pc EXCEPT ![r] = "new"]
  /\ mine' = [mine EXCEPT ![r] = NoRouter]
  /\ req' = [req EXCEPT ![r] = NoInput]
  /\ resp' = [resp EXCEPT ![r] = NoResponse]
  /\ UNCHANGED <<chainVars, stateVars, pos, aggregationVars>>

AtPlugin(r, name) ==
  pc[r] = "down" /\ pos[r] <= Len(Chain(r)) /\ Here(r).name = name

BackAtPlugin(r, name) == pc[r] = "up" /\ pos[r] > 0 /\ Here(r).name = name

\* What a plugin without state says; consumers are looked up at this time.
Verdict(p, q) ==
  LET people == Configs[installed].consumers IN
  CASE p.name = "cors" -> Cors(p.config, q)
    [] p.name = "request_termination" -> RequestTermination(p.config, q)
    [] p.name = "request_size_limit" -> RequestSizeLimit(p.config, q)
    [] p.name = "acl" -> Acl(p.config, q)
    [] p.name = "multi_auth" -> MultiAuth(p.config, q, people)
    [] p.name = "basic_auth" -> BasicAuth(p.config, q)
    [] p.name = "key_auth" -> KeyAuth(p.config, q, people)
    [] p.name = "mtls" -> Mtls(q)
    [] p.name = "rbac" -> Rbac(p.config, q)
    [] p.name = "bot_protection" -> BotProtection(p.config, q)
    [] p.name = "jwt" -> Jwt(p.config, q, people)

Filter(r) ==
  /\ \E name \in Accepting \ {"rate_limit", "cache", "circuit_breaker"} : AtPlugin(r, name)
  /\ LET v == Verdict(Here(r), req[r]) IN
     \/ v.status = 0 /\ Continue(r, v.req)
     \/ v.status # 0 /\ Answer(r, v.status)
  /\ UNCHANGED <<chainVars, stateVars, aggregationVars>>

LimitRate(r) ==
  /\ AtPlugin(r, "rate_limit")
  /\ Continue(r, req[r]) \/ Answer(r, 429)
  /\ UNCHANGED <<chainVars, stateVars, aggregationVars>>

\* getFromCache fails, or finds nothing.
CacheMiss(r) ==
  /\ AtPlugin(r, "cache")
  /\ Continue(r, req[r])
  /\ UNCHANGED <<chainVars, stateVars, aggregationVars>>

CacheHit(r) ==
  /\ AtPlugin(r, "cache")
  /\ req[r].method = "GET"
  /\ \E uri \in Uris :
       /\ uri = req[r].uri /\ cache[uri] # NoResponse
       /\ Return(r, cache[uri])
  /\ UNCHANGED <<chainVars, stateVars, aggregationVars>>

\* Mutation: the headers of the response are not looked at.
isCacheableByStatus(c, x) == x.status \in 200 .. 299

isCacheable(c, x) == x.status \in 200 .. 299 /\ (c.cache_control => x.plain)

\* The response is kept by a goroutine that outlives the request.
CacheStore(r) ==
  /\ BackAtPlugin(r, "cache")
  /\ stores' = IF req[r].method = "GET" /\ isCacheable(Here(r).config, resp[r])
               THEN stores \union {[uri |-> req[r].uri, resp |-> resp[r]]}
               ELSE stores
  /\ Return(r, resp[r])
  /\ UNCHANGED <<chainVars, brk, cache, aggregationVars>>

\* storeInCache; an error is only logged.
StoreInCache(s) ==
  /\ stores' = stores \ {s}
  /\ \/ cache' = [cache EXCEPT ![s.uri] = s.resp]
     \/ UNCHANGED cache
  /\ UNCHANGED <<chainVars, brk, localVars, aggregationVars>>

\* The ttl of an entry is over.
Expire(uri) ==
  /\ cache[uri] # NoResponse
  /\ cache' = [cache EXCEPT ![uri] = NoResponse]
  /\ UNCHANGED <<chainVars, brk, stores, localVars, aggregationVars>>

----------------------------------------------------------------------------
(* The circuit breaker plugin: gobreaker with a threshold of consecutive   *)
(* failures.  A breaker is made with the settings of the request that      *)
(* first needs it and keeps them over reloads.  As in TargetBreaker,       *)
(* `current' are the outstanding calls of the present generation.  Of a    *)
(* closed breaker only the consecutive failures matter, so that requests   *)
(* and successes are counted in the half-open state only.                  *)

NoBreaker ==
  [state |-> "none", reqs |-> 0, cfails |-> 0, csucc |-> 0, current |-> {},
   trip |-> 0, max |-> 0]

NewGeneration(b, state) ==
  [b EXCEPT !.state = state, !.reqs = 0, !.cfails = 0, !.csucc = 0, !.current = {}]

\* Mutation: a reload changes the settings of the breaker.
getOrCreateResetting(c) ==
  [(IF brk.state # "none" THEN brk ELSE [NoBreaker EXCEPT !.state = "closed"])
     EXCEPT !.trip = c.failure_threshold, !.max = c.success_threshold]

getOrCreateCircuitBreaker(c) ==
  IF brk.state # "none" THEN brk
  ELSE [NoBreaker EXCEPT !.state = "closed", !.trip = c.failure_threshold, !.max = c.success_threshold]

\* ErrOpenState or ErrTooManyRequests becomes 503.
BreakerEnter(r) ==
  LET b == getOrCreateCircuitBreaker(Here(r).config) IN
  /\ AtPlugin(r, "circuit_breaker")
  /\ \/ /\ b.state = "closed" \/ (b.state = "halfopen" /\ b.reqs < b.max)
        /\ brk' = [b EXCEPT !.reqs = IF b.state = "halfopen" THEN @ + 1 ELSE @,
                           !.current = @ \union {r}]
        /\ Continue(r, req[r])
     \/ /\ b.state = "open" \/ (b.state = "halfopen" /\ b.reqs >= b.max)
        /\ brk' = b
        /\ Answer(r, 503)
  /\ UNCHANGED <<chainVars, cache, stores, aggregationVars>>

isFailureStatus(code) == code \in 500 .. 599

afterSuccess(b, r) ==
  IF b.state = "halfopen" /\ b.csucc + 1 >= b.max THEN NewGeneration(b, "closed")
  ELSE [b EXCEPT !.csucc = IF b.state = "halfopen" THEN @ + 1 ELSE @,
                 !.cfails = 0, !.current = @ \ {r}]

afterFailure(b, r) ==
  IF b.state = "halfopen" \/ b.cfails + 1 >= b.trip THEN NewGeneration(b, "open")
  ELSE [b EXCEPT !.cfails = @ + 1, !.current = @ \ {r}]

\* Mutation: a panic passes the breaker by.
afterRequestUnlessPanic(r) ==
  IF r \notin brk.current \/ resp[r].status = -1 THEN brk
  ELSE IF isFailureStatus(resp[r].status) THEN afterFailure(brk, r) ELSE afterSuccess(brk, r)

\* Execute settles the call; a panic counts as a failure and goes on.
afterRequest(r) ==
  IF r \notin brk.current THEN brk
  ELSE IF resp[r].status = -1 \/ isFailureStatus(resp[r].status)
       THEN afterFailure(brk, r) ELSE afterSuccess(brk, r)

BreakerLeave(r) ==
  /\ BackAtPlugin(r, "circuit_breaker")
  /\ brk' = afterRequest(r)
  /\ Return(r, resp[r])
  /\ UNCHANGED <<chainVars, cache, stores, aggregationVars>>

BreakerTimeout ==
  /\ brk.state = "open"
  /\ brk' = NewGeneration(brk, "halfopen")
  /\ UNCHANGED <<chainVars, cache, stores, localVars, aggregationVars>>

----------------------------------------------------------------------------
(* The end of the chain, and the log.                                      *)

AtEnd(r) == pc[r] = "down" /\ pos[r] > Len(Chain(r))

Aggregated(r) == IsAggregationRoute /\ Configs[mine[r].own].aggregation

\* HandleProxyPass answers, or panics.
ProxyPass(r) ==
  /\ AtEnd(r) /\ ~Aggregated(r)
  /\ \/ \E plain \in BOOLEAN :
          Return(r, [NoResponse EXCEPT !.status = 200, !.backend = TRUE, !.plain = plain])
     \/ Return(r, [NoResponse EXCEPT !.status = 502, !.backend = TRUE])
     \/ Return(r, Panic)
  /\ UNCHANGED <<chainVars, stateVars, aggregationVars>>

HandleAggregation(r) ==
  /\ AtEnd(r) /\ Aggregated(r)
  /\ CallBackends(r)
  /\ pc' = [pc EXCEPT ![r] = "calling"]
  /\ UNCHANGED <<chainVars, stateVars, pos, mine, req, resp>>

AggregationStep(r) ==
  /\ pc[r] = "calling"
  /\ ClientLeaves(r) \/ \E b \in Backends : BackendReturns(r, b) \/ BackendFails(r, b)
  /\ UNCHANGED <<chainVars, stateVars, localVars>>

Merge(r) ==
  /\ pc[r] = "calling" /\ Waited(r)
  /\ Return(r, [status |-> mergedStatus(r), backend |-> TRUE, plain |-> TRUE, data |-> Data(r)])
  /\ Merged(r)
  /\ UNCHANGED <<chainVars, stateVars>>

\* createLogBody needs an upstream of the service; without one it panics.
LogPanics(r) == ~Configs[mine[r].own].upstreams

\* The log is sent before the response goes on up the chain, without a
\* timeout.  After a panic there is no log.
SendLog(r) ==
  /\ BackAtPlugin(r, "http_log")
  /\ Return(r, IF resp[r].status # -1 /\ LogPanics(r) THEN Panic ELSE resp[r])
  /\ UNCHANGED <<chainVars, stateVars, aggregationVars>>

----------------------------------------------------------------------------
(* Reloads.                                                                *)

\* A reload stores its configuration ...
Install(g) ==
  /\ g > installed /\ g \notin reloading
  /\ installed' = g
  /\ reloading' = reloading \union {g}
  /\ UNCHANGED <<router, stateVars, localVars, aggregationVars>>

\* Mutation: the global plugins are those of the router that is replaced.
BuiltFromOld(g) == [global |-> router.global, own |-> g]

\* The global plugins are those of the configuration installed by now.
Built(g) == [global |-> installed, own |-> g]

\* ... and builds a router from it.
UpdateRouter(g) ==
  /\ g \in reloading
  /\ router' = Built(g)
  /\ reloading' = reloading \ {g}
  /\ UNCHANGED <<installed, stateVars, localVars, aggregationVars>>

Init ==
  /\ AggregationInit
  /\ installed = 1 /\ reloading = {} /\ router = [global |-> 1, own |-> 1]
  /\ brk = NoBreaker
  /\ cache = [u \in Uris |-> NoResponse]
  /\ stores = {}
  /\ pc = [r \in Requests |-> "new"]
  /\ pos = [r \in Requests |-> 0]
  /\ mine = [r \in Requests |-> NoRouter]
  /\ req = [r \in Requests |-> NoInput]
  /\ resp = [r \in Requests |-> NoResponse]

Step(r) ==
  \/ Enter(r) \/ Filter(r) \/ LimitRate(r) \/ CacheMiss(r) \/ CacheHit(r) \/ CacheStore(r)
  \/ BreakerEnter(r) \/ BreakerLeave(r) \/ ProxyPass(r) \/ HandleAggregation(r)
  \/ AggregationStep(r) \/ Merge(r) \/ SendLog(r) \/ Respond(r)

Next ==
  \/ \E r \in Requests : Step(r)
  \/ \E s \in stores : StoreInCache(s)
  \/ BreakerTimeout
  \/ \E g \in Gens : Install(g) \/ UpdateRouter(g)
  \/ \E uri \in Uris : Expire(uri)

Spec == Init /\ [][Next]_vars

----------------------------------------------------------------------------
(* Properties.                                                             *)

\* What the chain of configuration g should be: each loaded plugin once, by
\* priority and among equals in the order of loading, with the settings of
\* the last level that has it.
IsChainOf(chain, g) ==
  LET all == Levels(g, g) \o <<ResponseHandler>>
      At(n) == {i \in DOMAIN all : all[i].name = n /\ (i = Len(all) \/ Loadable(all[i]))}
  IN /\ {chain[i].name : i \in DOMAIN chain} = {n \in DOMAIN Priority : At(n) # {}}
     /\ \A i \in DOMAIN chain : chain[i].config = all[Max(At(chain[i].name))].config
     /\ \A i, j \in DOMAIN chain :
          LET m == chain[i].name
              n == chain[j].name
          IN i < j => \/ Priority[m] < Priority[n]
                      \/ Priority[m] = Priority[n] /\ Min(At(m)) < Min(At(n))

\* Whether a chain with these global plugins is the one of configuration own.
Faithful ==
  [global \in Gens |-> [own \in Gens |-> IsChainOf(Chains[global][own], own)]]

(***************************************************************************)
(* When the router has been built for the configuration that is installed, *)
(* its chain is the one of that configuration, global plugins included,    *)
(* although other reloads overlapped and the chain was built plugin by     *)
(* plugin (createHandlerForRoute, RegisterPlugin).                         *)
(***************************************************************************)
ChainMatchesConfig == router.own = installed => Faithful[router.global][router.own]

\* shouldRespectCacheControl of every cache that any router can have.
CacheControlRespected ==
  \A global, own \in Gens : \A i \in DOMAIN Chains[global][own] :
    LET p == Chains[global][own][i] IN p.name = "cache" => p.config.cache_control

(***************************************************************************)
(* What is cached, or on its way to the cache, is a response that a        *)
(* backend gave with a 2xx status, and without a directive against caching *)
(* unless a cache is told to ignore them: no answer of a plugin, of an     *)
(* open breaker or of a panic is ever replayed (CachePlugin.Execute).      *)
(***************************************************************************)
OnlyBackendsCached ==
  \A x \in {s.resp : s \in stores} \union ({cache[u] : u \in Uris} \ {NoResponse}) :
    x.backend /\ x.status \in 200 .. 299 /\ (CacheControlRespected => x.plain)

\* Below the breaker: the breaker is waiting for the request to return.
BelowBreaker(r) ==
  /\ pc[r] # "new"
  /\ \E i \in 1 .. pos[r] :
       /\ i <= Len(Chain(r)) /\ Name(r, i) = "circuit_breaker"
       /\ pc[r] = "down" => i < pos[r]

(***************************************************************************)
(* A half-open breaker loses no probe: each one it has let through has     *)
(* succeeded or is still on its way, whatever happens further down, a      *)
(* panic included.  Otherwise it would answer 503 for ever                 *)
(* (CircuitBreakerPlugin.Execute).                                         *)
(***************************************************************************)
ProbesSettle ==
  /\ brk.state = "halfopen" => brk.reqs = brk.csucc + Cardinality(brk.current)
  /\ \A r \in brk.current : BelowBreaker(r)

(***************************************************************************)
(* If one strategy alone admits a request then multi_auth admits it, and   *)
(* not otherwise: strategies that fail leave nothing behind that the next  *)
(* ones would miss (MultiAuthPlugin.Execute).                              *)
(***************************************************************************)
MultiAuthIsOr ==
  [][\A r \in Requests :
       AtPlugin(r, "multi_auth") /\ pos'[r] # pos[r] =>
         LET c == Here(r).config IN
         (pos'[r] > pos[r]) <=>
           \E i \in DOMAIN c.strategies :
             /\ c.strategies[i] \in Strategies
             /\ Attempt(c, c.strategies[i], req[r], Configs[installed].consumers).status = 0]_vars

(***************************************************************************)
(* A merged answer that is no error has the data of all required backends, *)
(* also when it comes from the cache (HandleAggregation).                  *)
(***************************************************************************)
RequiredDataDelivered ==
  \A r \in Requests :
    resp[r].status \in {200, 206} /\ resp[r].data # {} => Required \subseteq resp[r].data

(***************************************************************************)
(* http_log.go: errors of the log should not stop the request.  What the   *)
(* backends have answered does not become a panic.                         *)
(***************************************************************************)
LogNeverStops ==
  [][\A r \in Requests : resp[r].status > 0 => resp'[r].status # -1]_vars
=============================================================================
