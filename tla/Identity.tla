------------------------------ MODULE Identity ------------------------------
(***************************************************************************)
(* The process-wide identity state of an app (auth.go): core's public keys *)
(* from the environment, from core or set by the app, the policy for       *)
(* legacy tokens, and the requests verified against them.  Core is         *)
(* external.                                                               *)
(***************************************************************************)
EXTENDS IdentityTokens

CONSTANTS
    Requests,    \* requests handled at a time
    Tokens,      \* what requests carry
    Routes,      \* the app's routes
    Keys,        \* Ed25519 keys
    Envs,        \* environments the process may be started with
    Cores,       \* what core may serve: [key, legacy]
    FetchRetry,  \* keyFetchRetry
    MaxNow,      \* bound on the clock
    MaxFailures, \* bound on failing fetches
    MaxChanges   \* bound on calls of the setters and on changes of core

ASSUME IdentityBounds ==
    /\ NoKey \notin Keys
    /\ FetchRetry \in Nat /\ MaxNow \in Nat /\ MaxFailures \in Nat /\ MaxChanges \in Nat

ASSUME IdentityInputs ==
    /\ \A t \in Tokens : t.iat \in Nat /\ t.exp \in Nat
    /\ \A e \in Envs : e.keys \subseteq Keys /\ e.legacy \in {"unset", "yes", "no"}
    /\ \A c \in Cores : c.legacy \in {"yes", "no"}

VARIABLES
    identity,   \* the struct of that name
    sinceFetch, \* time since lastFetch, up to FetchRetry
    env,        \* [pub: "unset", "bad" or "good", keys, legacy, token]
    core,
    now,        \* identityNow
    req,        \* per request: its outcome, or what was resolved for it
    told,       \* the last policy core reported since it was last reset
    trusted,    \* the keys the app, the environment or core last gave
    failures, changes

idVars == <<identity, sinceFetch, env, core, now, req, told, trusted, failures, changes>>

Fresh == [keys |-> {}, keysSet |-> FALSE, fetchedKey |-> FALSE,
          legacy |-> FALSE, legacySet |-> FALSE, legacyFetched |-> "nil",
          hmacKey |-> NoKey, hmacDerived |-> FALSE]

IdInit ==
    /\ identity = Fresh /\ sinceFetch = FetchRetry
    /\ env \in Envs /\ core \in Cores
    /\ now = 0
    /\ req = [r \in Requests |-> [stage |-> "idle"]]
    /\ told = "nil" /\ trusted = {}
    /\ failures = 0 /\ changes = 0
-----------------------------------------------------------------------------
(* Definitions whose comment starts with "Fault" are not the program: each *)
(* is the definition below it with a mistake, which some property refutes. *)

(* fetchIdentityKey after a reply: whether or not it has a usable key.     *)
Reported(id) ==
    LET answered == [id EXCEPT !.legacyFetched = core.legacy, !.fetchedKey = TRUE]
    IN  IF core.key \in Keys THEN [answered EXCEPT !.keys = {core.key}, !.keysSet = TRUE]
                             ELSE answered

(* Fault: a fetch that failed counts as one that was answered.             *)
Unanswered(id) == [id EXCEPT !.fetchedKey = TRUE]
Unreported(id) == id

(* LOCALITAS_IDENTITY_PUBLIC_KEY; one that does not parse leaves no keys.  *)
FromEnvironment(id) ==
    IF env.pub = "good" THEN [id EXCEPT !.keys = env.keys, !.keysSet = TRUE] ELSE id

WantsFetch ==
    /\ ~identity.keysSet /\ env.pub = "unset" /\ ~identity.fetchedKey
    /\ env.token # NoKey /\ sinceFetch >= FetchRetry

Derived(id) ==
    IF id.hmacDerived THEN id ELSE [id EXCEPT !.hmacKey = env.token, !.hmacDerived = TRUE]

(* Fault: what core reports overrides what the app has set.                *)
CoreDecides(id) ==
    CASE id.legacyFetched # "nil" -> id.legacyFetched = "yes"
      [] id.legacyFetched = "nil" /\ id.legacySet -> id.legacy
      [] OTHER -> env.legacy # "no"
AcceptsLegacy(id) ==
    CASE id.legacySet -> id.legacy
      [] ~id.legacySet /\ env.legacy # "unset" -> env.legacy = "yes"
      [] ~id.legacySet /\ env.legacy = "unset" /\ id.legacyFetched # "nil" ->
            id.legacyFetched = "yes"
      [] OTHER -> TRUE

(* What the app or its environment says of legacy tokens, if anything.     *)
Chosen(id) ==
    CASE id.legacySet -> IF id.legacy THEN "yes" ELSE "no"
      [] OTHER -> env.legacy

(* resolveIdentity, in one step under identity.mu; the request goes on     *)
(* with what it returned.                                                  *)
Resolved(r, t, route, id) ==
    /\ identity' = Derived(id)
    /\ req' = [req EXCEPT ![r] =
                  [stage |-> "resolved", token |-> t, route |-> route,
                   id |-> [keys |-> id.keys, legacy |-> AcceptsLegacy(id),
                           hmac |-> identity'.hmacKey],
                   told |-> told', trusted |-> trusted',
                   chosen |-> Chosen(id)]]

(* Only a token that parses, on a route that verifies it, gets that far.   *)
Arrives(r, t, route) ==
    /\ req[r].stage # "resolved"
    /\ t.kind \in {"ed25519", "hmac"} /\ route.guard \in {"auth", "user"}

NeedsNoFetch(r, t, route) ==
    /\ Arrives(r, t, route) /\ ~WantsFetch
    /\ LET id == IF identity.keysSet THEN identity ELSE FromEnvironment(identity)
       IN  /\ trusted' = IF id = identity THEN trusted ELSE env.keys
           /\ UNCHANGED told
           /\ Resolved(r, t, route, id)
    /\ UNCHANGED <<sinceFetch, env, core, now, failures, changes>>

FetchAnswered(r, t, route) ==
    /\ Arrives(r, t, route) /\ WantsFetch
    /\ sinceFetch' = 0
    /\ told' = core.legacy
    /\ trusted' = IF core.key \in Keys THEN {core.key} ELSE trusted
    /\ Resolved(r, t, route, Reported(identity))
    /\ UNCHANGED <<env, core, now, failures, changes>>

FetchFails(r, t, route) ==
    /\ Arrives(r, t, route) /\ WantsFetch
    /\ failures < MaxFailures /\ failures' = failures + 1
    /\ sinceFetch' = 0
    /\ UNCHANGED <<told, trusted>>
    /\ Resolved(r, t, route, Unreported(identity))
    /\ UNCHANGED <<env, core, now, changes>>

(* ParseBearerToken goes on without the mutex, and the route answers.      *)
Verify(r) ==
    /\ req[r].stage = "resolved"
    /\ req' = [req EXCEPT ![r] =
                  [stage |-> Answer(req[r].route, req[r].token, req[r].id, now, env.token)]]
    /\ UNCHANGED <<identity, sinceFetch, env, core, now, told, trusted, failures, changes>>

(* No token, one that does not parse, or a route that verifies none.       *)
NotVerified(t, route) ==
    IF route.guard \in {"system", "scope"}
      THEN Answer(route, t, [keys |-> {}, legacy |-> FALSE, hmac |-> NoKey], now, env.token)
      ELSE "401"
Shortcut(r, t, route) ==
    /\ req[r].stage # "resolved"
    /\ t.kind \notin {"ed25519", "hmac"} \/ route.guard \in {"system", "scope"}
    /\ req' = [req EXCEPT ![r] = [stage |-> NotVerified(t, route)]]
    /\ UNCHANGED <<identity, sinceFetch, env, core, now, told, trusted, failures, changes>>
-----------------------------------------------------------------------------
Change ==
    /\ changes < MaxChanges /\ changes' = changes + 1
    /\ UNCHANGED <<env, now, req, failures>>

(* Fault: the keys set are added to those there were.                      *)
Added(ks) == identity.keys \union ks
Replaced(ks) == ks

SetIdentityPublicKeys(ks) ==
    /\ Change
    /\ identity' = [identity EXCEPT !.keys = Replaced(ks), !.keysSet = TRUE]
    /\ trusted' = ks
    /\ UNCHANGED <<sinceFetch, core, told>>

ResetIdentityPublicKeys ==
    /\ Change
    /\ identity' = [identity EXCEPT !.keys = {}, !.keysSet = FALSE,
                                    !.fetchedKey = FALSE, !.legacyFetched = "nil"]
    /\ sinceFetch' = FetchRetry
    /\ trusted' = {} /\ told' = "nil"
    /\ UNCHANGED core

SetAcceptLegacyIdentityTokens(accept) ==
    /\ Change
    /\ identity' = [identity EXCEPT !.legacy = accept, !.legacySet = TRUE]
    /\ UNCHANGED <<sinceFetch, core, told, trusted>>

ResetAcceptLegacyIdentityTokens ==
    /\ Change
    /\ identity' = [identity EXCEPT !.legacySet = FALSE]
    /\ UNCHANGED <<sinceFetch, core, told, trusted>>

SetIdentityKeyFromAPIToken(token) ==
    /\ Change
    /\ identity' = [identity EXCEPT !.hmacKey = token, !.hmacDerived = TRUE]
    /\ UNCHANGED <<sinceFetch, core, told, trusted>>

(* Core changes its key or its policy.                                     *)
CoreChanges ==
    /\ Change
    /\ \E c \in Cores : c # core /\ (core.key \in Keys => c.key \in Keys) /\ core' = c
    /\ UNCHANGED <<identity, sinceFetch, told, trusted>>

Tick ==
    /\ now' = IF now < MaxNow THEN now + 1 ELSE now
    /\ sinceFetch' = IF sinceFetch < FetchRetry THEN sinceFetch + 1 ELSE sinceFetch
    /\ UNCHANGED <<identity, env, core, req, told, trusted, failures, changes>>
-----------------------------------------------------------------------------
Arrival(r) ==
    \E t \in Tokens, route \in Routes :
        NeedsNoFetch(r, t, route) \/ FetchAnswered(r, t, route)

IdNext ==
    \/ \E r \in Requests, t \in Tokens, route \in Routes :
          \/ NeedsNoFetch(r, t, route)
          \/ FetchAnswered(r, t, route)
          \/ FetchFails(r, t, route)
          \/ Shortcut(r, t, route)
    \/ \E r \in Requests : Verify(r)
    \/ \E ks \in SUBSET Keys : SetIdentityPublicKeys(ks)
    \/ ResetIdentityPublicKeys
    \/ \E accept \in BOOLEAN : SetAcceptLegacyIdentityTokens(accept)
    \/ ResetAcceptLegacyIdentityTokens
    \/ \E e \in Envs : SetIdentityKeyFromAPIToken(e.token)
    \/ CoreChanges
    \/ Tick

IdSpec == IdInit /\ [][IdNext]_idVars
-----------------------------------------------------------------------------
Handles(r) == req[r].stage = "resolved" /\ req'[r].stage = "handled"
Refuses(r) == req[r].stage = "resolved" /\ req'[r].stage \in {"401", "403"}

InTime(t) == t.exp # 0 => now <= t.exp + Skew
(* A route that names a scope wants the token to grant it.                 *)
Granted(t, route) ==
    route.guard = "auth" =>
       scopeRank(route.scope) <= IF t.perm = "" THEN 1 ELSE scopeRank(t.perm)

(* A handler runs for a user only on a token signed with a key that the    *)
(* app, its environment or core last gave, not expired beyond the skew,    *)
(* and granting the scope the route asks for (auth.go:277-285).            *)
OnlyVouched ==
    [][\A r \in Requests : Handles(r) =>
          LET t == req[r].token
          IN  /\ t.user # "" /\ InTime(t) /\ Granted(t, req[r].route)
              /\ t.kind = "ed25519" => t.sig \in req[r].trusted
              /\ t.kind = "hmac" => t.sig = req[r].id.hmac]_idVars

(* The converse: a user's token core signed with such a key is never       *)
(* refused while a clock within the skew could hold it valid.              *)
NotRefused ==
    [][\A r \in Requests : Refuses(r) =>
          LET t == req[r].token
          IN  ~ /\ t.kind = "ed25519" /\ t.sig = t.kid /\ t.sig \in req[r].trusted
                /\ t.exp # 0 /\ InTime(t) /\ t.iat <= now + Skew
                /\ t.user # "" /\ Granted(t, req[r].route)]_idVars

(* A legacy token, signed with the API token or unexpiring, is accepted    *)
(* only if the app or its environment says so, or, when neither says       *)
(* anything, core has not said otherwise (auth.go:283-285).                *)
PolicyHolds ==
    [][\A r \in Requests :
          (Handles(r) /\ (req[r].token.kind = "hmac" \/ req[r].token.exp = 0)) =>
             \/ req[r].chosen = "yes"
             \/ req[r].chosen = "unset" /\ req[r].told # "no"]_idVars

(* While requests come, a process that has its keys from core gets them,   *)
(* however many fetches fail first.                                        *)
KeyArrives ==
    (/\ ~identity.keysSet /\ ~identity.fetchedKey
     /\ env.pub = "unset" /\ env.token # NoKey /\ core.key \in Keys) ~> identity.keysSet
=============================================================================
