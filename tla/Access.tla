------------------------------- MODULE Access -------------------------------
(***************************************************************************)
(* Who gets through to the services: the tokens of Keycloak, the key set   *)
(* every SDEP process caches, and the roles and claims of the endpoints.   *)
(*                                                                         *)
(* A process fetches the realm's public keys (JWKS) with the first token   *)
(* it has to verify and keeps them for its life                            *)
(* (get_keycloak_public_key is an lru_cache, which stores results but no   *)
(* exceptions).  Fetching and verifying block the event loop, so a request *)
(* is one step up to the call of the service, which the modules on areas   *)
(* and activities take over from.                                          *)
(***************************************************************************)
EXTENDS Integers, FiniteSets

CONSTANTS
  Processes,     \* SDEP processes, each with a cache of its own
  Clients,       \* machine clients: [roles, id, named], see AccessAssumption
  MaxKey,        \* bound: the number of signing keys of a behaviour
  MaxTokens,     \* bound: the number of tokens that are issued
  Outages        \* how Keycloak may be unavailable: {"down", "failing"}

Roles == {"sdep_ca", "sdep_str", "sdep_read", "sdep_write"}

ASSUME AccessAssumption ==
  /\ Clients \subseteq [roles: SUBSET Roles, id: {"missing", "invalid", "valid"}, named: BOOLEAN]
  /\ MaxKey \in Nat \ {0} /\ MaxTokens \in Nat
  /\ Outages \subseteq {"down", "failing"}

VARIABLES
  keycloak,    \* "up", "down" (no connection) or "failing" (answers 5xx)
  signingKey,  \* keys are numbered in the order of their creation
  published,   \* the keys Keycloak publishes, the signing key among them
  tokens,      \* the tokens that were issued
  cache,       \* what each process has cached
  boot         \* history: the keys published when each process started

vars == <<keycloak, signingKey, published, tokens, cache, boot>>

Keys == 1..MaxKey
Tokens == [client: Clients, key: Keys, expired: BOOLEAN]
NoToken == [expired |-> TRUE]
Empty == [filled |-> FALSE, keys |-> {}]

-----------------------------------------------------------------------------
(***************************************************************************)
(* The endpoints: roles and claims required, and the status of a success   *)
(***************************************************************************)

Id == {"client_id"}
IdAndName == {"client_id", "client_name"}

Endpoint(method, roles, claims, success) ==
  [method |-> method, roles |-> roles, claims |-> claims, success |-> success]

ping == Endpoint("GET", {}, {}, 200)
post_area == Endpoint("POST", {"sdep_ca", "sdep_write"}, IdAndName, 201)
get_own_areas == Endpoint("GET", {"sdep_ca", "sdep_read"}, Id, 200)
count_own_areas == Endpoint("GET", {"sdep_ca", "sdep_read"}, Id, 200)
get_own_area == Endpoint("GET", {"sdep_ca", "sdep_read"}, Id, 200)
delete_area == Endpoint("DELETE", {"sdep_ca", "sdep_write"}, Id, 204)
get_activities == Endpoint("GET", {"sdep_ca", "sdep_read"}, Id, 200)
count_activities == Endpoint("GET", {"sdep_ca", "sdep_read"}, Id, 200)
get_areas == Endpoint("GET", {"sdep_str", "sdep_read"}, {}, 200)
count_areas == Endpoint("GET", {"sdep_str", "sdep_read"}, {}, 200)
get_area == Endpoint("GET", {"sdep_str", "sdep_read"}, {}, 200)
post_activity == Endpoint("POST", {"sdep_str", "sdep_write"}, IdAndName, 201)
post_activities_bulk == Endpoint("POST", {"sdep_str", "sdep_write"}, IdAndName, 201)

Endpoints ==
  {ping, post_area, get_own_areas, count_own_areas, get_own_area, delete_area,
   get_activities, count_activities, get_areas, count_areas, get_area,
   post_activity, post_activities_bulk}

-----------------------------------------------------------------------------
(***************************************************************************)
(* Tokens, keys and checks                                                 *)
(***************************************************************************)

\* The cache of process n when its key set is asked for.  A failing fetch
\* raises, and leaves the cache alone.  Wrong: a failure is cached.
Bug_FailureCached(n) ==
  IF cache[n].filled THEN cache[n]
  ELSE [filled |-> TRUE, keys |-> IF keycloak = "up" THEN published ELSE {}]
Fetched(n) ==
  IF cache[n].filled \/ keycloak # "up" THEN cache[n]
  ELSE [filled |-> TRUE, keys |-> published]

\* jwt.decode: the signature is made with one of the keys, exp is ahead.
Verified(token, keys) == token.key \in keys /\ ~token.expired

Lacks(client, claim) ==
  CASE claim = "client_id" -> client.id = "missing"
    [] claim = "client_name" -> ~client.named

\* The answer to parameters or a body that FastAPI rejects.
Malformed(endpoint) == IF endpoint.method = "GET" THEN 400 ELSE 422

\* The checks that fail, numbered in their order, and what each answers.
Failed(endpoint, client, wellFormed) ==
  {i \in 1..5 :
     \/ i = 1 /\ ~wellFormed
     \/ i = 2 /\ ~(endpoint.roles \subseteq client.roles)
     \/ i = 3 /\ "client_id" \in endpoint.claims /\ Lacks(client, "client_id")
     \/ i = 4 /\ "client_id" \in endpoint.claims /\ client.id = "invalid"
     \/ i = 5 /\ "client_name" \in endpoint.claims /\ Lacks(client, "client_name")}

Refusal(endpoint) == <<Malformed(endpoint), 403, 401, 422, 401>>

\* The first check that fails decides.  Wrong: one of the roles will do.
FirstOf(S) == CHOOSE i \in S : \A j \in S : i <= j

Bug_AnyRole(endpoint, client, wellFormed) ==
  LET failed == Failed(endpoint, client, wellFormed)
                  \ (IF endpoint.roles \cap client.roles # {} THEN {2} ELSE {})
  IN  IF failed = {} THEN endpoint.success ELSE Refusal(endpoint)[FirstOf(failed)]
StatusOf(endpoint, client, wellFormed) ==
  LET failed == Failed(endpoint, client, wellFormed)
  IN  IF failed = {} THEN endpoint.success ELSE Refusal(endpoint)[FirstOf(failed)]

-----------------------------------------------------------------------------
(***************************************************************************)
(* SDEP                                                                    *)
(***************************************************************************)

\* The answer to a request with a bearer token, or without one (NoToken).
Answer(n, token, endpoint, wellFormed) ==
  IF token # NoToken /\ Verified(token, Fetched(n).keys)
    THEN StatusOf(endpoint, token.client, wellFormed)
    ELSE 401

\* A request leaves the key set behind, whatever the answer and the
\* endpoint; without a token nothing is fetched.
Request(n, token) ==
  /\ cache' = [cache EXCEPT ![n] = Fetched(n)]
  /\ UNCHANGED <<keycloak, signingKey, published, tokens, boot>>

\* The answer of POST /auth/token to missing, wrong or right credentials.
TokenAnswer(credentials) ==
  CASE credentials = "missing"                       -> 400
    [] credentials # "missing" /\ keycloak = "down"  -> 503
    [] OTHER -> IF credentials = "right" /\ keycloak = "up" THEN 200 ELSE 401

post_auth_token(client) ==
  /\ TokenAnswer("right") = 200
  /\ Cardinality(tokens) < MaxTokens
  /\ tokens' = tokens \cup {[client |-> client, key |-> signingKey, expired |-> FALSE]}
  /\ UNCHANGED <<keycloak, signingKey, published, cache, boot>>

\* A process starts anew.
Restart(n) ==
  /\ cache' = [cache EXCEPT ![n] = Empty]
  /\ boot' = [boot EXCEPT ![n] = published]
  /\ UNCHANGED <<keycloak, signingKey, published, tokens>>

-----------------------------------------------------------------------------
(***************************************************************************)
(* Keycloak and time                                                       *)
(***************************************************************************)

\* Keycloak signs with a new key and still publishes the older ones.
RotateKey ==
  /\ signingKey < MaxKey
  /\ signingKey' = signingKey + 1
  /\ published' = published \cup {signingKey'}
  /\ UNCHANGED <<keycloak, tokens, cache, boot>>

\* An older key is withdrawn, for good.
WithdrawKey(key) ==
  /\ key # signingKey
  /\ published' = published \ {key}
  /\ UNCHANGED <<keycloak, signingKey, tokens, cache, boot>>

\* Keycloak becomes unavailable, or recovers.
KeycloakBecomes(state) ==
  /\ keycloak # state
  /\ keycloak' = state
  /\ UNCHANGED <<signingKey, published, tokens, cache, boot>>

TokenExpires(token) ==
  /\ ~token.expired
  /\ tokens' = (tokens \ {token}) \cup {[token EXCEPT !.expired = TRUE]}
  /\ UNCHANGED <<keycloak, signingKey, published, cache, boot>>

Init ==
  /\ keycloak = "up"
  /\ signingKey = 1
  /\ published = {1}
  /\ tokens = {}
  /\ cache = [n \in Processes |-> Empty]
  /\ boot = [n \in Processes |-> published]

Next ==
  \/ \E n \in Processes, token \in tokens : Request(n, token)
  \/ \E client \in Clients : post_auth_token(client)
  \/ \E n \in Processes : Restart(n)
  \/ RotateKey
  \/ \E key \in published : WithdrawKey(key)
  \/ \E state \in Outages \cup {"up"} : KeycloakBecomes(state)
  \/ \E token \in tokens : TokenExpires(token)

Spec == Init /\ [][Next]_vars

-----------------------------------------------------------------------------
(***************************************************************************)
(* Properties                                                              *)
(***************************************************************************)

\* The published keys and the caches are key sets: never empty, and without a
\* key of the future.
TypeOK ==
  /\ keycloak \in Outages \cup {"up"}
  /\ cache \in [Processes -> [filled: BOOLEAN, keys: SUBSET Keys]]
  /\ boot \in [Processes -> SUBSET Keys]
  /\ signingKey \in published /\ signingKey \in Keys /\ published \subseteq 1..signingKey
  /\ \A token \in tokens : token \in Tokens /\ token.key <= signingKey
  /\ \A n \in Processes : /\ cache[n].keys \subseteq 1..signingKey
                          /\ cache[n].filled <=> cache[n].keys # {}
                          /\ boot[n] \subseteq 1..signingKey /\ boot[n] # {}

\* Whoever is passed on to a service is a client with every role and claim of
\* the endpoint, and its token is unexpired and signed with a key that was not
\* withdrawn before the process started (security.py:51 and the checks every
\* router repeats).
PassedOnlyIfEntitled ==
  \A n \in Processes, token \in tokens \cup {NoToken}, endpoint \in Endpoints,
     wellFormed \in BOOLEAN :
    Answer(n, token, endpoint, wellFormed) = endpoint.success =>
      /\ ~token.expired
      /\ token.key \in boot[n] \/ \A key \in boot[n] : key < token.key
      /\ endpoint.roles \subseteq token.client.roles
      /\ \A claim \in endpoint.claims : ~Lacks(token.client, claim)
      /\ endpoint.claims # {} => token.client.id = "valid"

\* The request has a reason to be answered 401: docs/API.md:74.
Unauthorized(token, endpoint) ==
  \/ token.expired
  \/ token.key \notin published
  \/ \E claim \in endpoint.claims : Lacks(token.client, claim)

\* An outage of Keycloak leaves nothing behind: a token without fault, whose
\* key has been published since the process started, is refused only during
\* the outage and only by a process that has not fetched the keys before
\* (security.py:21 caches key sets, no failures).
OutageLeavesNoTrace ==
  \A n \in Processes, token \in tokens, endpoint \in Endpoints, wellFormed \in BOOLEAN :
    Answer(n, token, endpoint, wellFormed) = 401 =>
      \/ Unauthorized(token, endpoint)
      \/ token.key \notin boot[n]
      \/ keycloak # "up" /\ ~cache[n].filled

\* The inductive invariant: a process that has fetched holds every key that
\* was published when it started and still is, and no key that was withdrawn
\* before; later keys are newer than all of those.
AccessInv ==
  /\ TypeOK
  /\ \A n \in Processes :
       /\ cache[n].filled => boot[n] \cap published \subseteq cache[n].keys
       /\ \A key \in published \cup cache[n].keys :
            key \in boot[n] \/ \A older \in boot[n] : older < key

\* 401 means a missing, invalid or expired token or a missing claim
\* (docs/API.md:74), not that SDEP cannot tell: Keycloak issued the token and
\* still publishes its key.
UnauthorizedForCause ==
  \A n \in Processes, token \in tokens, endpoint \in Endpoints, wellFormed \in BOOLEAN :
    Answer(n, token, endpoint, wellFormed) = 401 => Unauthorized(token, endpoint)
=============================================================================
