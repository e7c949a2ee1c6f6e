--------------------------- MODULE MCPluginChain ---------------------------
(* Three configurations of one route: proxied with filters at several      *)
(* levels, proxied through cache and breaker, and aggregated without       *)
(* upstreams.                                                              *)
EXTENDS PluginChain

On(name, config) == [name |-> name, config |-> config, enabled |-> TRUE]
Off(name, config) == [On(name, config) EXCEPT !.enabled = FALSE]
None == [nil |-> TRUE]

KeyNames == <<"X-API-Key", "apiKey">>
NoKeys == [n \in {"X-API-Key", "apiKey"} |-> ""]
KeyConfig == [key_names |-> KeyNames, key_in_query |-> TRUE, key_in_header |-> TRUE,
              key |-> "plugin", hide_credentials |-> TRUE]
UserConfig == [username |-> "u", password |-> "p"]
JwtConfig == [alg |-> "HS256", iss |-> "gateway", key |-> "secret"]
Breaker(fails, succs) == On("circuit_breaker", [failure_threshold |-> fails, success_threshold |-> succs])
Cache == On("cache", [cache_control |-> TRUE])

People == [keys |-> {"consumer"},
           secrets |-> [iss \in {"app"} |-> [alg |-> "RS256", iss |-> "app", key |-> "rsa"]]]

Proxied ==
  [plugins |-> <<On("http_log", None)>>,
   route |-> <<Cache, Breaker(1, 2)>>,
   service |-> <<On("key_auth", KeyConfig)>>,
   consumers |-> People, upstreams |-> TRUE, aggregation |-> FALSE]

Aggregating ==
  [plugins |-> <<On("http_log", None), On("cors", [preflight_continue |-> FALSE])>>,
   route |-> <<Breaker(2, 1), Cache>>,
   service |-> <<On("multi_auth", [strategies |-> <<"basic_auth", "ldap", "jwt", "key_auth">>,
                                   basic_auth |-> UserConfig, jwt |-> JwtConfig,
                                   key_auth |-> KeyConfig])>>,
   consumers |-> People, upstreams |-> FALSE, aggregation |-> TRUE]

Filtered ==
  [plugins |-> <<On("acl", [whitelist |-> TRUE, ips |-> {"inside"}]), On("jwt", JwtConfig),
                 On("ip_restriction", None)>>,
   route |-> <<On("bot_protection",
                  [block_empty_ua |-> TRUE, allow_good_bots |-> TRUE,
                   validate_browser_headers |-> TRUE, mode |-> "block"]),
               Off("request_termination", [status_code |-> 503]),
               On("request_size_limit", [max_payload_size |-> 1]), On("rate_limit", None)>>,
   service |-> <<On("acl", [whitelist |-> FALSE, ips |-> {"outside"}]),
                 On("rbac", [loads |-> TRUE, policy |-> {<<"anonymous", "/a", "GET">>}]),
                 On("mtls", None)>>,
   consumers |-> [keys |-> {}, secrets |-> People.secrets],
   upstreams |-> TRUE, aggregation |-> FALSE]

MCConfigs == <<Filtered, Proxied, Aggregating>>

Get == [method |-> "GET", uri |-> "/a", size |-> 1, framing |-> "ok",
        ip |-> "inside", fwd |-> "",
        auth |-> [words |-> 2, decoded |-> <<"u", "p">>, token |-> NoToken], query |-> NoKeys,
        header |-> [NoKeys EXCEPT !["apiKey"] = "consumer"], cert |-> "good",
        agent |-> {"good"}, browser |-> 0]
Token == [parses |-> TRUE, iss |-> "app", method |-> "RSA", key |-> "rsa", live |-> TRUE]
Bearer == [Get EXCEPT !.auth = [words |-> 2, decoded |-> <<>>, token |-> Token],
                      !.header = NoKeys]

Options == [Get EXCEPT !.method = "OPTIONS", !.auth = NoAuth, !.header = NoKeys]
Ambiguous == [Get EXCEPT !.framing = "both"]

MCInputs == [r \in Requests |-> {Get, Bearer, Options, Ambiguous}]
MCSymmetry == Permutations(Requests)
=============================================================================
