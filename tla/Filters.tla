------------------------------ MODULE Filters ------------------------------
(***************************************************************************)
(* What the plugins without state of their own make of a request: the      *)
(* checks of identity (basic_auth.go, key_auth.go, jwt.go, multi_auth.go,  *)
(* mtls.go), of permission (acl.go, rbac.go, bot_protection.go) and of     *)
(* form (request_size_limit.go, cors.go, request_termination.go, and       *)
(* validateRequestFraming).                                                *)
(*                                                                         *)
(* A request is a record of what these checks look at:                     *)
(*   method, uri, size, framing                                            *)
(*   ip, fwd        the peer's address and X-Forwarded-For                 *)
(*   auth           the Authorization header, see NoAuth                   *)
(*   query, header  the values of parameters and headers that may hold a   *)
(*                  key, "" if there is none                               *)
(*   cert           client certificate: "none", "bad" or "good"            *)
(*   agent          the pattern lists that User-Agent matches, and "empty" *)
(*   browser        how many of the three headers of browsers there are    *)
(* Configurations are those that the validators of the plugins accept.     *)
(***************************************************************************)
EXTENDS Integers, Sequences, FiniteSets, SequencesExt

NoToken == [parses |-> FALSE, iss |-> "", method |-> "", key |-> "", live |-> FALSE]

\* The header's words, what the second one decodes to when it is split at
\* colons, and the token it is.
NoAuth == [words |-> 0, decoded |-> <<>>, token |-> NoToken]

\* The outcome of a plugin: status 0 if it calls the next handler, and the
\* request whose headers the plugin may have changed.
Pass(q) == [status |-> 0, req |-> q]
Reject(q, code) == [status |-> code, req |-> q]
PassIf(q, ok, code) == IF ok THEN Pass(q) ELSE Reject(q, code)

----------------------------------------------------------------------------
(* Identity.  `people' are the Consumers of the global configuration at    *)
(* the time of the check: .keys the set of their API keys, .secrets the    *)
(* JWT credentials by issuer.                                              *)

\* Mutation: the header is removed before the credentials are compared.
BasicAuthStripping(c, q) ==
  PassIf([q EXCEPT !.auth = NoAuth],
         q.auth.words = 2 /\ q.auth.decoded = <<c.username, c.password>>, 401)

\* The scheme is not compared, only the number of words.
BasicAuth(c, q) ==
  IF q.auth.words = 2 /\ q.auth.decoded = <<c.username, c.password>>
  THEN Pass([q EXCEPT !.auth = NoAuth])
  ELSE Reject(q, 401)

\* The first parameter, or else header, of the configured names with a value.
extractAPIKey(c, q) ==
  LET values(names, from) == [i \in DOMAIN names |-> from[names[i]]]
      found == SelectSeq(
                 (IF c.key_in_query THEN values(c.key_names, q.query) ELSE <<>>) \o
                 (IF c.key_in_header THEN values(c.key_names, q.header) ELSE <<>>),
                 LAMBDA v : v # "")
  IN IF found = <<>> THEN "" ELSE Head(found)

validateAPIKey(c, key, people) == key \in people.keys \/ key = c.key

\* Only the headers with the default names are removed.
KeyAuth(c, q, people) ==
  LET key == extractAPIKey(c, q)
      stripped == [n \in DOMAIN q.header |-> IF n \in {"X-API-Key", "apiKey"} THEN "" ELSE q.header[n]]
  IN IF key # "" /\ validateAPIKey(c, key, people)
     THEN Pass(IF c.hide_credentials THEN [q EXCEPT !.header = stripped] ELSE q)
     ELSE Reject(q, 401)

\* validateHS256 and validateRS256; a public key that does not parse is "".
validateWithCredentials(creds, t) ==
  IF creds.alg # "HS256" /\ creds.key = "" THEN 500
  ELSE IF /\ t.parses /\ t.live
          /\ t.method = (IF creds.alg = "HS256" THEN "HMAC" ELSE "RSA")
          /\ t.key = creds.key
          /\ t.iss = creds.iss
       THEN 0 ELSE 401

\* The credentials of the consumer that the issuer names, or of the plugin.
validateToken(c, t, people) ==
  IF t.parses /\ t.iss \in DOMAIN people.secrets
  THEN validateWithCredentials(people.secrets[t.iss], t)
  ELSE IF c.alg = "" \/ c.iss = "" THEN 401 ELSE validateWithCredentials(c, t)

Jwt(c, q, people) ==
  LET status == IF q.auth.words = 2 THEN validateToken(c, q.auth.token, people) ELSE 401
  IN IF status = 0 THEN Pass([q EXCEPT !.auth = NoAuth]) ELSE Reject(q, status)

Strategies == {"jwt", "key_auth", "basic_auth"}

\* createAuthPlugin with a handler that only notes that it was called.
Attempt(c, strategy, q, people) ==
  CASE strategy = "jwt" -> Jwt(c.jwt, q, people)
    [] strategy = "key_auth" -> KeyAuth(c.key_auth, q, people)
    [] strategy = "basic_auth" -> BasicAuth(c.basic_auth, q)

\* The strategies one after the other, on a request whose headers they share;
\* unknown ones are skipped.  If all fail, the last error is the answer.
MultiAuth(c, q, people) ==
  FoldLeft(LAMBDA out, strategy :
             IF out.status = 0 \/ strategy \notin Strategies THEN out
             ELSE Attempt(c, strategy, out.req, people),
           Reject(q, 401), c.strategies)

Mtls(q) == PassIf(q, q.cert = "good", 401)

----------------------------------------------------------------------------
(* Permission and form.                                                    *)

Acl(c, q) ==
  LET listed == q.ip \in c.ips \/ q.fwd \in c.ips
  IN PassIf(q, IF c.whitelist THEN listed ELSE ~listed, 403)

\* No plugin puts "jwt_claims" or "username" into the context, so that the
\* subject is always "anonymous".
Rbac(c, q) ==
  IF ~c.loads THEN Reject(q, 500)
  ELSE PassIf(q, <<"anonymous", q.uri, q.method>> \in c.policy, 403)

BotProtection(c, q) ==
  LET blocked == Reject(q, 403) IN
  IF "empty" \in q.agent /\ c.block_empty_ua THEN blocked
  ELSE IF "whitelist" \in q.agent \/ ("good" \in q.agent /\ c.allow_good_bots) THEN Pass(q)
  ELSE IF "blacklist" \in q.agent \/ (c.validate_browser_headers /\ q.browser < 2) THEN blocked
  ELSE PassIf(q, c.mode # "allow", 403)

RequestSizeLimit(c, q) == PassIf(q, q.size <= c.max_payload_size, 413)

\* A preflight is answered here, and its status is 200.
Cors(c, q) == PassIf(q, q.method # "OPTIONS" \/ c.preflight_continue, 200)

\* What http.ResponseWriter makes of a status: it panics (-1) if the code has
\* not three digits, and an informational one is followed by the default.
Written(code) ==
  IF code \notin 100 .. 999 THEN -1 ELSE IF code \in 100 .. 199 \ {101} THEN 200 ELSE code

RequestTermination(c, q) == Reject(q, Written(c.status_code))

validateRequestFraming(q) ==
  CASE q.framing \in {"lengths", "both", "nondigit"} -> 400
    [] q.framing = "encoding" -> 501
    [] OTHER -> 0
=============================================================================
