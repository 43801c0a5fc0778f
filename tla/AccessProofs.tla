---------------------------- MODULE AccessProofs ----------------------------
(***************************************************************************)
(* What the cached key sets and the checks of the endpoints guarantee, for *)
(* any number of processes, clients, keys and tokens and any outages.      *)
(***************************************************************************)
EXTENDS Access, TLAPS

USE AccessAssumption

\* Every endpoint announces a status of success, and knows two claims.
LEMMA EndpointsAre ==
  ASSUME NEW endpoint \in Endpoints
  PROVE  /\ endpoint.success \in {200, 201, 204}
         /\ endpoint.claims \in {{}, {"client_id"}, {"client_id", "client_name"}}
  BY DEF Endpoints, Endpoint, ping, post_area, get_own_areas, count_own_areas,
         get_own_area, delete_area, get_activities, count_activities, get_areas,
         count_areas, get_area, post_activity, post_activities_bulk, Id, IdAndName

\* A set of numbers from 1 to 5 that is not empty has a first.
LEMMA FirstOfIsIn ==
  ASSUME NEW S \in SUBSET (1..5), S # {}
  PROVE  FirstOf(S) \in S
<1>1. \E i \in S : \A j \in S : i <= j
  <2>1. CASE 1 \in S
    BY <2>1
  <2>2. CASE 1 \notin S /\ 2 \in S
    BY <2>2
  <2>3. CASE 1 \notin S /\ 2 \notin S /\ 3 \in S
    BY <2>3
  <2>4. CASE 1 \notin S /\ 2 \notin S /\ 3 \notin S /\ 4 \in S
    BY <2>4
  <2>5. CASE 1 \notin S /\ 2 \notin S /\ 3 \notin S /\ 4 \notin S
    <3>1. PICK i \in S : TRUE
      OBVIOUS
    <3>2. i = 5
      BY <2>5
    <3> QED
      BY <2>5, <3>2
  <2> QED
    BY <2>1, <2>2, <2>3, <2>4, <2>5
<1> QED
  BY <1>1 DEF FirstOf

\* An endpoint lets pass only clients with its roles and claims, and answers
\* 401 only to clients that lack a claim.
LEMMA StatusMeans ==
  ASSUME NEW endpoint \in Endpoints, NEW client, client.id \in {"missing", "invalid", "valid"},
         NEW wellFormed \in BOOLEAN
  PROVE  /\ StatusOf(endpoint, client, wellFormed) = endpoint.success =>
              /\ endpoint.roles \subseteq client.roles
              /\ \A claim \in endpoint.claims : ~Lacks(client, claim)
              /\ endpoint.claims # {} => client.id = "valid"
         /\ StatusOf(endpoint, client, wellFormed) = 401 =>
              \E claim \in endpoint.claims : Lacks(client, claim)
<1> DEFINE failed == Failed(endpoint, client, wellFormed)
<1>1. StatusOf(endpoint, client, wellFormed)
        = IF failed = {} THEN endpoint.success ELSE Refusal(endpoint)[FirstOf(failed)]
  BY DEF StatusOf
<1>2. /\ endpoint.success \in {200, 201, 204}
      /\ endpoint.claims \in {{}, {"client_id"}, {"client_id", "client_name"}}
  BY EndpointsAre
<1>3. CASE failed = {}
  <2>1. 2 \notin failed /\ 3 \notin failed /\ 4 \notin failed /\ 5 \notin failed
    BY <1>3
  <2>2. /\ endpoint.roles \subseteq client.roles
        /\ "client_id" \in endpoint.claims => ~Lacks(client, "client_id") /\ client.id # "invalid"
        /\ "client_name" \in endpoint.claims => ~Lacks(client, "client_name")
    BY <2>1 DEF Failed
  <2>3. "client_id" \in endpoint.claims => client.id = "valid"
    BY <2>2 DEF Lacks
  <2>4. \A claim \in endpoint.claims : ~Lacks(client, claim)
    BY <1>2, <2>2
  <2> QED
    BY <1>1, <1>2, <1>3, <2>2, <2>3, <2>4
<1>4. CASE failed # {}
  <2> DEFINE first == FirstOf(failed)
  <2>1. first \in failed
    BY <1>4, FirstOfIsIn DEF Failed
  <2>2. first \in 1..5
    BY <2>1 DEF Failed
  <2>3. StatusOf(endpoint, client, wellFormed) = Refusal(endpoint)[first]
    BY <1>1, <1>4
  <2> HIDE DEF first
  <2>4. Refusal(endpoint)[first] \in {400, 401, 403, 422}
    BY <2>2 DEF Refusal, Malformed
  <2>5. ASSUME Refusal(endpoint)[first] = 401
        PROVE  \E claim \in endpoint.claims : Lacks(client, claim)
    <3>1. first = 3 \/ first = 5
      BY <2>2, <2>5 DEF Refusal, Malformed
    <3> QED
      BY <2>1, <3>1 DEF Failed
  <2> QED
    BY <1>2, <2>3, <2>4, <2>5
<1> QED
  BY <1>3, <1>4

-----------------------------------------------------------------------------

\* The invariant holds when SDEP starts.
LEMMA AccessInitially == Init => AccessInv
  BY DEF Init, AccessInv, TypeOK, Empty, Keys

\* What the cache of a process is after it asked for the key set.
LEMMA FetchedIs ==
  ASSUME AccessInv, NEW n \in Processes
  PROVE  /\ Fetched(n) \in [filled: BOOLEAN, keys: SUBSET Keys]
         /\ Fetched(n).filled <=> Fetched(n).keys # {}
         /\ Fetched(n).keys \subseteq 1..signingKey
         /\ Fetched(n).filled => boot[n] \cap published \subseteq Fetched(n).keys
         /\ Fetched(n).keys \subseteq cache[n].keys \cup published
<1>1. CASE cache[n].filled \/ keycloak # "up"
  BY <1>1 DEF Fetched, AccessInv, TypeOK
<1>2. CASE ~(cache[n].filled \/ keycloak # "up")
  <2>1. Fetched(n) = [filled |-> TRUE, keys |-> published]
    BY <1>2 DEF Fetched
  <2>2. published \subseteq Keys /\ published # {}
    BY DEF AccessInv, TypeOK, Keys
  <2> QED
    BY <2>1, <2>2 DEF AccessInv, TypeOK
<1> QED
  BY <1>1, <1>2

\* Every step keeps the invariant.
LEMMA AccessInductive == AccessInv /\ [Next]_vars => AccessInv'
<1> SUFFICES ASSUME AccessInv, [Next]_vars
             PROVE  AccessInv'
  OBVIOUS
<1>1. ASSUME NEW n \in Processes, NEW token \in tokens, Request(n, token)
      PROVE  AccessInv'
  <2>1. /\ Fetched(n) \in [filled: BOOLEAN, keys: SUBSET Keys]
        /\ Fetched(n).filled <=> Fetched(n).keys # {}
        /\ Fetched(n).keys \subseteq 1..signingKey
        /\ Fetched(n).filled => boot[n] \cap published \subseteq Fetched(n).keys
        /\ Fetched(n).keys \subseteq cache[n].keys \cup published
    BY FetchedIs
  <2> DEFINE next == Fetched(n)
  <2>2. cache' = [cache EXCEPT ![n] = next]
    BY <1>1 DEF Request
  <2> HIDE DEF next
  <2>3. \A m \in Processes : cache'[m] = IF m = n THEN next ELSE cache[m]
    BY <2>2 DEF AccessInv, TypeOK
  <2>4. TypeOK'
    BY <1>1, <2>1, <2>2, <2>3 DEF Request, AccessInv, TypeOK, next
  <2>5. ASSUME NEW m \in Processes
        PROVE  /\ cache'[m].filled => boot[m] \cap published \subseteq cache'[m].keys
               /\ \A key \in published \cup cache'[m].keys :
                    key \in boot[m] \/ \A older \in boot[m] : older < key
    BY <2>1, <2>3 DEF AccessInv, next
  <2> QED
    BY <1>1, <2>4, <2>5 DEF Request, AccessInv
<1>2. ASSUME NEW client \in Clients, post_auth_token(client)
      PROVE  AccessInv'
  <2> DEFINE new == [client |-> client, key |-> signingKey, expired |-> FALSE]
  <2>1. new \in Tokens /\ new.key = signingKey /\ signingKey \in Nat
    BY DEF AccessInv, TypeOK, Tokens, Keys
  <2>2. tokens' = tokens \cup {new}
    BY <1>2 DEF post_auth_token
  <2> HIDE DEF new
  <2>3. \A token \in tokens' : token \in Tokens /\ token.key <= signingKey
    BY <2>1, <2>2 DEF AccessInv, TypeOK
  <2> QED
    BY <1>2, <2>3 DEF post_auth_token, AccessInv, TypeOK
<1>3. ASSUME NEW n \in Processes, Restart(n)
      PROVE  AccessInv'
  <2>1. published \subseteq Keys /\ published # {}
    BY DEF AccessInv, TypeOK, Keys
  <2>2. Empty \in [filled: BOOLEAN, keys: SUBSET Keys] /\ ~Empty.filled /\ Empty.keys = {}
    BY DEF Empty
  <2> DEFINE next == Empty
  <2>3. cache' = [cache EXCEPT ![n] = next] /\ boot' = [boot EXCEPT ![n] = published]
    BY <1>3 DEF Restart
  <2> HIDE DEF next
  <2>4. \A m \in Processes : /\ cache'[m] = IF m = n THEN next ELSE cache[m]
                             /\ boot'[m] = IF m = n THEN published ELSE boot[m]
    BY <2>3 DEF AccessInv, TypeOK
  <2>5. TypeOK'
    <3>1. /\ cache' \in [Processes -> [filled: BOOLEAN, keys: SUBSET Keys]]
          /\ boot' \in [Processes -> SUBSET Keys]
      BY <2>1, <2>2, <2>3 DEF AccessInv, TypeOK, next
    <3>2. \A m \in Processes : /\ cache'[m].keys \subseteq 1..signingKey
                               /\ cache'[m].filled <=> cache'[m].keys # {}
                               /\ boot'[m] \subseteq 1..signingKey /\ boot'[m] # {}
      BY <2>1, <2>2, <2>4 DEF AccessInv, TypeOK, next
    <3>3. UNCHANGED <<keycloak, signingKey, published, tokens>> /\ TypeOK
      BY <1>3 DEF Restart, AccessInv
    <3> QED
      BY <3>1, <3>2, <3>3 DEF TypeOK
  <2>6. ASSUME NEW m \in Processes
        PROVE  /\ cache'[m].filled => boot'[m] \cap published \subseteq cache'[m].keys
               /\ \A key \in published \cup cache'[m].keys :
                    key \in boot'[m] \/ \A older \in boot'[m] : older < key
    BY <2>2, <2>4 DEF AccessInv, next
  <2> QED
    BY <1>3, <2>5, <2>6 DEF Restart, AccessInv
<1>4. CASE RotateKey
  <2>1. /\ signingKey \in Nat /\ signingKey' = signingKey + 1 /\ signingKey' \in Keys
        /\ published' = published \cup {signingKey + 1}
    BY <1>4 DEF RotateKey, AccessInv, TypeOK, Keys
  <2>2. 1..signingKey \subseteq 1..(signingKey + 1)
    BY <2>1
  <2>3. TypeOK'
    <3>1. signingKey' \in published' /\ published' \subseteq 1..signingKey'
      BY <2>1, <2>2 DEF AccessInv, TypeOK
    <3>2. \A token \in tokens : token \in Tokens /\ token.key <= signingKey'
      BY <2>1 DEF AccessInv, TypeOK, Tokens, Keys
    <3>3. \A n \in Processes : /\ cache[n].keys \subseteq 1..signingKey'
                               /\ boot[n] \subseteq 1..signingKey'
      BY <2>1, <2>2 DEF AccessInv, TypeOK
    <3>4. UNCHANGED <<keycloak, tokens, cache, boot>>
      BY <1>4 DEF RotateKey
    <3>5. TypeOK /\ signingKey' \in Keys
      BY <2>1 DEF AccessInv
    <3> QED
      BY <3>1, <3>2, <3>3, <3>4, <3>5 DEF TypeOK
  <2>4. \A n \in Processes : \A older \in boot[n] : older < signingKey + 1
    BY <2>1 DEF AccessInv, TypeOK
  <2>5. ASSUME NEW n \in Processes
        PROVE  /\ cache[n].filled => boot[n] \cap published' \subseteq cache[n].keys
               /\ \A key \in published' \cup cache[n].keys :
                    key \in boot[n] \/ \A older \in boot[n] : older < key
    <3>1. signingKey + 1 \notin boot[n]
      BY <2>1, <2>4
    <3> QED
      BY <2>1, <2>4, <3>1 DEF AccessInv
  <2> QED
    BY <1>4, <2>3, <2>5 DEF RotateKey, AccessInv
<1>5. ASSUME NEW key \in published, WithdrawKey(key)
      PROVE  AccessInv'
  BY <1>5 DEF WithdrawKey, AccessInv, TypeOK
<1>6. ASSUME NEW state \in Outages \cup {"up"}, KeycloakBecomes(state)
      PROVE  AccessInv'
  BY <1>6 DEF KeycloakBecomes, AccessInv, TypeOK
<1>7. ASSUME NEW token \in tokens, TokenExpires(token)
      PROVE  AccessInv'
  <2>1. [token EXCEPT !.expired = TRUE] \in Tokens /\ [token EXCEPT !.expired = TRUE].key = token.key
    BY DEF AccessInv, TypeOK, Tokens
  <2> QED
    BY <1>7, <2>1 DEF TokenExpires, AccessInv, TypeOK
<1>8. CASE UNCHANGED vars
  BY <1>8 DEF vars, AccessInv, TypeOK
<1> QED
  BY <1>1, <1>2, <1>3, <1>4, <1>5, <1>6, <1>7, <1>8 DEF Next

\* The inductive invariant holds in every reachable state.
THEOREM AccessInvariant == Spec => []AccessInv
  BY AccessInitially, AccessInductive, PTL DEF Spec

\* The published and the cached keys are key sets (security.py:21).
THEOREM AccessTypeCorrect == Spec => []TypeOK
<1>1. AccessInv => TypeOK
  BY DEF AccessInv
<1> QED
  BY <1>1, AccessInvariant, PTL

\* Whoever is passed on to a service is entitled to it.
THEOREM Entitled == Spec => []PassedOnlyIfEntitled
<1>1. AccessInv => PassedOnlyIfEntitled
  <2> SUFFICES ASSUME AccessInv, NEW n \in Processes, NEW token \in tokens \cup {NoToken},
                      NEW endpoint \in Endpoints, NEW wellFormed \in BOOLEAN,
                      Answer(n, token, endpoint, wellFormed) = endpoint.success
               PROVE  /\ ~token.expired
                      /\ token.key \in boot[n] \/ \A key \in boot[n] : key < token.key
                      /\ endpoint.roles \subseteq token.client.roles
                      /\ \A claim \in endpoint.claims : ~Lacks(token.client, claim)
                      /\ endpoint.claims # {} => token.client.id = "valid"
    BY DEF PassedOnlyIfEntitled
  <2>1. endpoint.success # 401
    BY EndpointsAre
  <2>2. /\ token # NoToken /\ Verified(token, Fetched(n).keys)
        /\ StatusOf(endpoint, token.client, wellFormed) = endpoint.success
    BY <2>1 DEF Answer
  <2>3. token \in Tokens /\ token.client.id \in {"missing", "invalid", "valid"}
    BY <2>2 DEF AccessInv, TypeOK, Tokens, AccessAssumption
  <2>4. token.key \in cache[n].keys \cup published
    BY <2>2, FetchedIs DEF Verified
  <2>5. token.key \in boot[n] \/ \A key \in boot[n] : key < token.key
    BY <2>4 DEF AccessInv
  <2> QED
    BY <2>2, <2>3, <2>5, StatusMeans DEF Verified
<1> QED
  BY <1>1, AccessInvariant, PTL

\* A token without fault is refused only during an outage, by a process that
\* has not fetched the keys, or because its key is newer than the process.
THEOREM OutagesPass == Spec => []OutageLeavesNoTrace
<1>1. AccessInv => OutageLeavesNoTrace
  <2> SUFFICES ASSUME AccessInv, NEW n \in Processes, NEW token \in tokens,
                      NEW endpoint \in Endpoints, NEW wellFormed \in BOOLEAN,
                      Answer(n, token, endpoint, wellFormed) = 401,
                      ~Unauthorized(token, endpoint), token.key \in boot[n]
               PROVE  keycloak # "up" /\ ~cache[n].filled
    BY DEF OutageLeavesNoTrace
  <2>1. token \in Tokens /\ token.client.id \in {"missing", "invalid", "valid"}
    BY DEF AccessInv, TypeOK, Tokens, AccessAssumption
  <2>2. /\ ~token.expired /\ token.key \in published
        /\ ~ \E claim \in endpoint.claims : Lacks(token.client, claim)
    BY DEF Unauthorized
  <2>3. StatusOf(endpoint, token.client, wellFormed) # 401
    BY <2>1, <2>2, StatusMeans
  <2>4. token # NoToken
    BY <2>2 DEF NoToken
  <2>5. token.key \notin Fetched(n).keys
    BY <2>2, <2>3, <2>4 DEF Answer, Verified
  <2>6. ~Fetched(n).filled
    BY <2>2, <2>5, FetchedIs
  <2> QED
    BY <2>6 DEF Fetched
<1> QED
  BY <1>1, AccessInvariant, PTL
=============================================================================
