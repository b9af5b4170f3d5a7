--------------------------- MODULE IdentityProofs ---------------------------
(***************************************************************************)
(* Theorems about Identity for any tokens, keys, routes, environments and  *)
(* policies of core, and about BearerToken for any number of goroutines,   *)
(* any lifetimes and any clock.                                            *)
(***************************************************************************)
EXTENDS Identity, BearerToken, TLAPS

Policies == {"unset", "yes", "no"}
ApiTokens == {e.token : e \in Envs} \union {NoKey}

IdentityStates ==
    [keys : SUBSET Keys, keysSet : BOOLEAN, fetchedKey : BOOLEAN,
     legacy : BOOLEAN, legacySet : BOOLEAN, legacyFetched : {"nil", "yes", "no"},
     hmacKey : ApiTokens, hmacDerived : BOOLEAN]

IdTypeOK ==
    /\ identity \in IdentityStates
    /\ env \in Envs /\ core \in Cores
    /\ now \in Nat
    /\ DOMAIN req = Requests

(* A request goes on with the keys and the policy that held when it was    *)
(* resolved, whatever has changed since.                                   *)
Settled(r) ==
    req[r].stage = "resolved" =>
        /\ req[r].token \in Tokens /\ req[r].token.kind \in {"ed25519", "hmac"}
        /\ req[r].route.guard \in {"auth", "user"}
        /\ req[r].id.keys = req[r].trusted
        /\ req[r].id.legacy =>
              req[r].chosen = "yes" \/ (req[r].chosen = "unset" /\ req[r].told # "no")

IdInv ==
    /\ IdTypeOK
    /\ identity.keys = trusted /\ identity.legacyFetched = told
    /\ \A r \in Requests : Settled(r)
-----------------------------------------------------------------------------
LEMMA Ranks == \A s : scopeRank(s) \in 0..3
  BY DEF scopeRank

LEMMA NoSignatureFault ==
  ASSUME NEW t, t.kind \in {"ed25519", "hmac"}, NEW id, SignatureFault(t, id) = "none"
  PROVE  IF t.kind = "ed25519" THEN t.sig = t.kid /\ t.sig \in id.keys
                               ELSE t.sig = id.hmac /\ id.legacy
  BY DEF SignatureFault

LEMMA NoLifetimeFault ==
  ASSUME NEW t, t.exp \in Nat, t.iat \in Nat, NEW id, NEW n \in Nat,
         LifetimeFault(t, id, n) = "none"
  PROVE  IF t.exp = 0 THEN id.legacy ELSE n <= t.exp + Skew
  BY ClockAssumption DEF LifetimeFault

LEMMA GoodToken ==
  ASSUME NEW t, t.kind = "ed25519", t.sig = t.kid, t.exp \in Nat \ {0}, t.iat \in Nat,
         NEW id, t.sig \in id.keys, NEW n \in Nat,
         n <= t.exp + Skew, t.iat <= n + Skew
  PROVE  ParseBearerToken(t, id, n) = "none"
  <1>1. SignatureFault(t, id) = "none"
    BY DEF SignatureFault
  <1>2. LifetimeFault(t, id, n) = "none"
    BY ClockAssumption DEF LifetimeFault
  <1>3. QED
    BY <1>1, <1>2 DEF ParseBearerToken

LEMMA ScopeOfToken ==
  ASSUME NEW t, NEW route, t.user # "", route.guard = "auth"
  PROVE  Granted(t, route) <=> RequireScope(t, route.scope)
  BY Ranks DEF Granted, RequireScope, HasScope, GetScope, scopeRank

(* What a route that verifies the token wants of it.                       *)
Passes(t, route, id, n) ==
    ParseBearerToken(t, id, n) = "none" /\ t.user # "" /\ Granted(t, route)

LEMMA HandledWhen ==
  ASSUME NEW t, NEW id, NEW n, NEW want, NEW route, route.guard \in {"auth", "user"}
  PROVE  /\ Answer(route, t, id, n, want) = "handled" <=> Passes(t, route, id, n)
         /\ Answer(route, t, id, n, want) \in {"handled", "401", "403"}
  <1>1. CASE route.guard = "auth"
    BY <1>1, ScopeOfToken DEF Answer, AuthMiddleware, Passes
  <1>2. CASE route.guard = "user"
    BY <1>2 DEF Answer, UserIDFromRequest, Granted, Passes
  <1>3. QED
    BY <1>1, <1>2
-----------------------------------------------------------------------------
LEMMA IdInitially == IdInit => IdInv
  <1> SUFFICES ASSUME IdInit PROVE IdInv
    OBVIOUS
  <1>1. Fresh \in IdentityStates /\ Fresh.keys = {} /\ Fresh.legacyFetched = "nil"
    BY DEF IdentityStates, Fresh, ApiTokens
  <1>2. ASSUME NEW r \in Requests PROVE Settled(r)
    BY DEF IdInit, Settled
  <1>3. QED
    BY <1>1, <1>2 DEF IdInit, IdInv, IdTypeOK

(* Resolving a request: id is what the keys and the policy have become.    *)
LEMMA ResolvedStep ==
  ASSUME IdInv, NEW r \in Requests, NEW t \in Tokens, NEW route \in Routes,
         Arrives(r, t, route), NEW id \in IdentityStates, Resolved(r, t, route, id),
         id.keys = trusted', id.legacyFetched = told',
         UNCHANGED <<env, core, now>>
  PROVE  IdInv'
  <1>1. identity' \in IdentityStates /\ identity'.keys = id.keys
          /\ identity'.legacyFetched = id.legacyFetched
    BY DEF IdInv, IdTypeOK, Resolved, Derived, IdentityStates, ApiTokens
  <1>2. AcceptsLegacy(id) => Chosen(id) = "yes" \/ (Chosen(id) = "unset" /\ told' # "no")
    BY IdentityInputs DEF IdInv, IdTypeOK, AcceptsLegacy, Chosen, IdentityStates
  <1>3. ASSUME NEW q \in Requests PROVE Settled(q)'
    BY <1>2 DEF IdInv, IdTypeOK, Settled, Resolved, Arrives
  <1>4. QED
    BY <1>1, <1>3 DEF IdInv, IdTypeOK, Resolved

LEMMA ArrivalStep ==
  ASSUME IdInv, NEW r \in Requests, NEW t \in Tokens, NEW route \in Routes,
         NeedsNoFetch(r, t, route) \/ FetchAnswered(r, t, route) \/ FetchFails(r, t, route)
  PROVE  IdInv'
  <1>1. CASE NeedsNoFetch(r, t, route)
    <2> DEFINE id == IF identity.keysSet THEN identity ELSE FromEnvironment(identity)
    <2>1. id \in IdentityStates /\ id.legacyFetched = told
      BY IdentityInputs DEF IdInv, IdTypeOK, IdentityStates, FromEnvironment
    <2>2. id.keys = IF id = identity THEN trusted ELSE env.keys
      BY DEF IdInv, IdTypeOK, IdentityStates, FromEnvironment
    <2>3. QED
      BY <1>1, <2>1, <2>2, ResolvedStep DEF NeedsNoFetch
  <1>2. CASE FetchAnswered(r, t, route)
    <2>1. Reported(identity) \in IdentityStates
      BY IdentityInputs DEF IdInv, IdTypeOK, IdentityStates, Reported
    <2>2. /\ Reported(identity).legacyFetched = core.legacy
          /\ Reported(identity).keys = IF core.key \in Keys THEN {core.key} ELSE trusted
      BY DEF IdInv, IdTypeOK, IdentityStates, Reported
    <2>3. QED
      BY <1>2, <2>1, <2>2, ResolvedStep DEF FetchAnswered
  <1>3. CASE FetchFails(r, t, route)
    BY <1>3, ResolvedStep DEF FetchFails, Unreported, IdInv, IdTypeOK
  <1>4. QED
    BY <1>1, <1>2, <1>3

LEMMA PassesMeans ==
  ASSUME IdInv, NEW r \in Requests, req[r].stage = "resolved",
         Passes(req[r].token, req[r].route, req[r].id, now)
  PROVE  /\ req[r].token.user # "" /\ InTime(req[r].token) /\ Granted(req[r].token, req[r].route)
         /\ IF req[r].token.kind = "ed25519" THEN req[r].token.sig \in req[r].id.keys
                                             ELSE req[r].token.sig = req[r].id.hmac
         /\ req[r].token.kind = "hmac" \/ req[r].token.exp = 0 => req[r].id.legacy
  <1>1. /\ req[r].token.kind \in {"ed25519", "hmac"} /\ now \in Nat
        /\ req[r].token.exp \in Nat /\ req[r].token.iat \in Nat
    BY IdentityInputs DEF IdInv, IdTypeOK, Settled
  <1>2. /\ SignatureFault(req[r].token, req[r].id) = "none"
        /\ LifetimeFault(req[r].token, req[r].id, now) = "none"
    BY DEF Passes, ParseBearerToken
  <1>3. IF req[r].token.kind = "ed25519"
          THEN req[r].token.sig = req[r].token.kid /\ req[r].token.sig \in req[r].id.keys
          ELSE req[r].token.sig = req[r].id.hmac /\ req[r].id.legacy
    BY <1>1, <1>2, NoSignatureFault
  <1>4. IF req[r].token.exp = 0 THEN req[r].id.legacy ELSE now <= req[r].token.exp + Skew
    BY <1>1, <1>2, NoLifetimeFault
  <1>5. QED
    BY <1>1, <1>3, <1>4 DEF Passes, InTime

LEMMA VerifyAnswers ==
  ASSUME IdInv, NEW r \in Requests, req[r].stage = "resolved"
  PROVE  LET answer == Answer(req[r].route, req[r].token, req[r].id, now, env.token)
         IN  /\ answer \in {"handled", "401", "403"}
             /\ answer = "handled" <=> Passes(req[r].token, req[r].route, req[r].id, now)
  <1>1. req[r].route.guard \in {"auth", "user"}
    BY DEF IdInv, Settled
  <1>2. QED
    BY <1>1, HandledWhen

(* Everything else leaves the requests that are resolved as they are.      *)
LEMMA OtherStep ==
  ASSUME IdInv,
         \/ \E r \in Requests, t \in Tokens, route \in Routes : Shortcut(r, t, route)
         \/ \E r \in Requests : Verify(r)
         \/ \E ks \in SUBSET Keys : SetIdentityPublicKeys(ks)
         \/ ResetIdentityPublicKeys
         \/ \E accept \in BOOLEAN : SetAcceptLegacyIdentityTokens(accept)
         \/ ResetAcceptLegacyIdentityTokens
         \/ \E e \in Envs : SetIdentityKeyFromAPIToken(e.token)
         \/ CoreChanges
         \/ Tick
  PROVE  IdInv'
  <1> USE DEF IdInv, IdTypeOK
  <1>1. ASSUME NEW r \in Requests, NEW t \in Tokens, NEW route \in Routes, Shortcut(r, t, route)
        PROVE  IdInv'
    <2>1. NotVerified(t, route) \in {"handled", "401", "403"}
      BY DEF NotVerified, Answer
    <2>2. ASSUME NEW q \in Requests PROVE Settled(q)'
      BY <1>1, <2>1 DEF Shortcut, Settled
    <2>3. QED
      BY <1>1, <2>2 DEF Shortcut
  <1>2. ASSUME NEW r \in Requests, Verify(r) PROVE IdInv'
    <2>1. Answer(req[r].route, req[r].token, req[r].id, now, env.token)
            \in {"handled", "401", "403"}
      BY <1>2, VerifyAnswers DEF Verify
    <2>2. ASSUME NEW q \in Requests PROVE Settled(q)'
      BY <1>2, <2>1 DEF Verify, Settled
    <2>3. QED
      BY <1>2, <2>2 DEF Verify
  <1>3. ASSUME NEW ks \in SUBSET Keys, SetIdentityPublicKeys(ks) PROVE IdInv'
    BY <1>3 DEF SetIdentityPublicKeys, Change, Replaced, IdentityStates, Settled
  <1>4. CASE ResetIdentityPublicKeys
    BY <1>4 DEF ResetIdentityPublicKeys, Change, IdentityStates, Settled
  <1>5. ASSUME NEW accept \in BOOLEAN, SetAcceptLegacyIdentityTokens(accept) PROVE IdInv'
    BY <1>5 DEF SetAcceptLegacyIdentityTokens, Change, IdentityStates, Settled
  <1>6. CASE ResetAcceptLegacyIdentityTokens
    BY <1>6 DEF ResetAcceptLegacyIdentityTokens, Change, IdentityStates, Settled
  <1>7. ASSUME NEW e \in Envs, SetIdentityKeyFromAPIToken(e.token) PROVE IdInv'
    BY <1>7 DEF SetIdentityKeyFromAPIToken, Change, IdentityStates, ApiTokens, Settled
  <1>8. CASE CoreChanges
    BY <1>8 DEF CoreChanges, Change, Settled
  <1>9. CASE Tick
    BY <1>9, IdentityBounds DEF Tick, Settled
  <1>10. QED
    BY <1>1, <1>2, <1>3, <1>4, <1>5, <1>6, <1>7, <1>8, <1>9

LEMMA IdStep == IdInv /\ [IdNext]_idVars => IdInv'
  <1>1. IdInv /\ UNCHANGED idVars => IdInv'
    BY DEF IdInv, IdTypeOK, Settled, idVars
  <1>2. QED
    BY <1>1, ArrivalStep, OtherStep DEF IdNext

(* Only Verify answers a request that has been resolved.                   *)
LEMMA OnlyVerifyAnswers ==
  ASSUME IdInv, IdNext, NEW r \in Requests, Handles(r) \/ Refuses(r)
  PROVE  /\ req[r].token \in Tokens
         /\ Handles(r) => Answer(req[r].route, req[r].token, req[r].id, now, env.token) = "handled"
         /\ Refuses(r) => Answer(req[r].route, req[r].token, req[r].id, now, env.token) # "handled"
  <1>1. req[r].stage = "resolved" /\ req'[r] # req[r] /\ req[r].token \in Tokens
    BY DEF Handles, Refuses, IdInv, Settled
  <1>2. ASSUME NEW q \in Requests, NEW t \in Tokens, NEW route \in Routes,
               \/ NeedsNoFetch(q, t, route) \/ FetchAnswered(q, t, route)
               \/ FetchFails(q, t, route) \/ Shortcut(q, t, route)
        PROVE  FALSE
    BY <1>1, <1>2 DEF NeedsNoFetch, FetchAnswered, FetchFails, Shortcut, Arrives, Resolved,
                      IdInv, IdTypeOK
  <1>3. \E q \in Requests : Verify(q)
    BY <1>1, <1>2
    DEF IdNext, SetIdentityPublicKeys, ResetIdentityPublicKeys, SetAcceptLegacyIdentityTokens,
        ResetAcceptLegacyIdentityTokens, SetIdentityKeyFromAPIToken, CoreChanges, Change, Tick
  <1>4. Verify(r)
    BY <1>1, <1>3 DEF Verify, IdInv, IdTypeOK
  <1>5. req'[r].stage = Answer(req[r].route, req[r].token, req[r].id, now, env.token)
    BY <1>4 DEF Verify, IdInv, IdTypeOK
  <1>6. QED
    BY <1>1, <1>5 DEF Handles, Refuses

(* A handler runs for a user only on a token that is vouched for, in time  *)
(* and grants the scope.                                                   *)
THEOREM Vouched == IdSpec => OnlyVouched
  <1>1. ASSUME IdInv, IdNext, NEW r \in Requests, Handles(r)
        PROVE  LET t == req[r].token
               IN  /\ t.user # "" /\ InTime(t) /\ Granted(t, req[r].route)
                   /\ t.kind = "ed25519" => t.sig \in req[r].trusted
                   /\ t.kind = "hmac" => t.sig = req[r].id.hmac
    <2>1. Settled(r) /\ req[r].stage = "resolved" /\ now \in Nat
      BY <1>1 DEF IdInv, IdTypeOK, Handles
    <2>2. Passes(req[r].token, req[r].route, req[r].id, now)
      BY <1>1, <2>1, OnlyVerifyAnswers, VerifyAnswers
    <2>3. QED
      BY <1>1, <2>1, <2>2, PassesMeans DEF Settled
  <1>2. IdInv /\ [IdNext]_idVars =>
          [\A r \in Requests : Handles(r) =>
             LET t == req[r].token
             IN  /\ t.user # "" /\ InTime(t) /\ Granted(t, req[r].route)
                 /\ t.kind = "ed25519" => t.sig \in req[r].trusted
                 /\ t.kind = "hmac" => t.sig = req[r].id.hmac]_idVars
    BY <1>1
  <1>3. QED
    BY IdInitially, IdStep, <1>2, PTL DEF IdSpec, OnlyVouched

(* A token that is vouched for, in time and grants the scope is never      *)
(* refused.                                                                *)
THEOREM GoodNotRefused == IdSpec => NotRefused
  <1>1. ASSUME IdInv, IdNext, NEW r \in Requests, Refuses(r)
        PROVE  LET t == req[r].token
               IN  ~ /\ t.kind = "ed25519" /\ t.sig = t.kid /\ t.sig \in req[r].trusted
                     /\ t.exp # 0 /\ InTime(t) /\ t.iat <= now + Skew
                     /\ t.user # "" /\ Granted(t, req[r].route)
    <2>1. Settled(r) /\ req[r].stage = "resolved" /\ now \in Nat
      BY <1>1 DEF IdInv, IdTypeOK, Refuses
    <2>2. ~Passes(req[r].token, req[r].route, req[r].id, now)
      BY <1>1, <2>1, OnlyVerifyAnswers, VerifyAnswers
    <2>3. QED
      BY <2>1, <2>2, GoodToken, IdentityInputs DEF Settled, InTime, Passes
  <1>2. IdInv /\ [IdNext]_idVars =>
          [\A r \in Requests : Refuses(r) =>
             LET t == req[r].token
             IN  ~ /\ t.kind = "ed25519" /\ t.sig = t.kid /\ t.sig \in req[r].trusted
                   /\ t.exp # 0 /\ InTime(t) /\ t.iat <= now + Skew
                   /\ t.user # "" /\ Granted(t, req[r].route)]_idVars
    BY <1>1
  <1>3. QED
    BY IdInitially, IdStep, <1>2, PTL DEF IdSpec, NotRefused

(* A legacy token is accepted only under a policy that accepts it.         *)
THEOREM PolicyKept == IdSpec => PolicyHolds
  <1>1. ASSUME IdInv, IdNext, NEW r \in Requests, Handles(r),
               req[r].token.kind = "hmac" \/ req[r].token.exp = 0
        PROVE  \/ req[r].chosen = "yes"
               \/ req[r].chosen = "unset" /\ req[r].told # "no"
    <2>1. Settled(r) /\ req[r].stage = "resolved" /\ now \in Nat
      BY <1>1 DEF IdInv, IdTypeOK, Handles
    <2>2. Passes(req[r].token, req[r].route, req[r].id, now)
      BY <1>1, <2>1, OnlyVerifyAnswers, VerifyAnswers
    <2>3. QED
      BY <1>1, <2>1, <2>2, PassesMeans DEF Settled
  <1>2. IdInv /\ [IdNext]_idVars =>
          [\A r \in Requests :
             (Handles(r) /\ (req[r].token.kind = "hmac" \/ req[r].token.exp = 0)) =>
                \/ req[r].chosen = "yes"
                \/ req[r].chosen = "unset" /\ req[r].told # "no"]_idVars
    BY <1>1
  <1>3. QED
    BY IdInitially, IdStep, <1>2, PTL DEF IdSpec, PolicyHolds

(***************************************************************************)
(* The safety core of KeyArrives: a process that has its keys to come from *)
(* core stops asking for them only when it has some.  Failing fetches, the *)
(* setters of the policy and of the HMAC key, a reset, and a change of     *)
(* core's key leave it asking.                                             *)
(***************************************************************************)
Asking ==
    /\ ~identity.keysSet /\ ~identity.fetchedKey
    /\ env.pub = "unset" /\ env.token # NoKey /\ core.key \in Keys
AsksTillItHasKeys == [][Asking => (Asking \/ identity.keysSet)']_idVars

LEMMA AskingOnArrival ==
  ASSUME IdTypeOK, Asking, NEW r \in Requests, NEW t \in Tokens, NEW route \in Routes,
         NeedsNoFetch(r, t, route) \/ FetchAnswered(r, t, route) \/ FetchFails(r, t, route)
  PROVE  (Asking \/ identity.keysSet)'
  <1> USE DEF IdTypeOK, Asking
  <1>1. ASSUME NEW id \in IdentityStates
        PROVE  /\ Derived(id).keysSet = id.keysSet /\ Derived(id).fetchedKey = id.fetchedKey
    BY DEF Derived, IdentityStates
  <1>2. CASE NeedsNoFetch(r, t, route)
    <2>1. identity' = Derived(identity)
      BY <1>2 DEF NeedsNoFetch, Resolved, FromEnvironment
    <2>2. QED
      BY <1>1, <1>2, <2>1 DEF NeedsNoFetch
  <1>3. CASE FetchAnswered(r, t, route)
    <2>1. Reported(identity) \in IdentityStates /\ Reported(identity).keysSet
      BY IdentityInputs DEF IdentityStates, Reported
    <2>2. QED
      BY <1>1, <1>3, <2>1 DEF FetchAnswered, Resolved
  <1>4. CASE FetchFails(r, t, route)
    BY <1>1, <1>4 DEF FetchFails, Resolved, Unreported
  <1>5. QED
    BY <1>2, <1>3, <1>4

(* A process that waits for its keys from core asks until it has some.     *)
THEOREM KeepsAsking == IdSpec => AsksTillItHasKeys
  <1>1. ASSUME IdInv, IdNext, Asking PROVE (Asking \/ identity.keysSet)'
    <2> USE <1>1 DEF IdInv, IdTypeOK, IdentityStates, Asking, Change
    <2>1. ASSUME NEW r \in Requests, NEW t \in Tokens, NEW route \in Routes, Shortcut(r, t, route)
          PROVE  Asking'
      BY <2>1 DEF Shortcut
    <2>2. ASSUME NEW r \in Requests, Verify(r) PROVE Asking'
      BY <2>2 DEF Verify
    <2>3. ASSUME NEW ks \in SUBSET Keys, SetIdentityPublicKeys(ks) PROVE identity'.keysSet
      BY <2>3 DEF SetIdentityPublicKeys
    <2>4. CASE ResetIdentityPublicKeys
      BY <2>4 DEF ResetIdentityPublicKeys
    <2>5. ASSUME NEW accept \in BOOLEAN, SetAcceptLegacyIdentityTokens(accept) PROVE Asking'
      BY <2>5 DEF SetAcceptLegacyIdentityTokens
    <2>6. CASE ResetAcceptLegacyIdentityTokens
      BY <2>6 DEF ResetAcceptLegacyIdentityTokens
    <2>7. ASSUME NEW e \in Envs, SetIdentityKeyFromAPIToken(e.token) PROVE Asking'
      BY <2>7 DEF SetIdentityKeyFromAPIToken
    <2>8. CASE CoreChanges
      BY <2>8 DEF CoreChanges
    <2>9. CASE Tick
      BY <2>9 DEF Tick
    <2>10. QED
      BY <2>1, <2>2, <2>3, <2>4, <2>5, <2>6, <2>7, <2>8, <2>9, AskingOnArrival DEF IdNext
  <1>2. IdInv /\ [IdNext]_idVars => [Asking => (Asking \/ identity.keysSet)']_idVars
    BY <1>1
  <1>3. QED
    BY IdInitially, IdStep, <1>2, PTL DEF IdSpec, AsksTillItHasKeys
-----------------------------------------------------------------------------
(* Minted by core, and not in the future.                                  *)
Genuine(v) == v.iat \in 0..clock /\ v = Minted(v.iat)

(* What core answered is no older than the token held, and as old as the   *)
(* refresh at most.                                                        *)
Refreshing(g) ==
    /\ caller[g] = "refreshing" <=> mu = g
    /\ caller[g] = "refreshing" /\ reply[g] # NoToken =>
          /\ Genuine(reply[g])
          /\ reply[g].exp >= value.exp
          /\ reply[g].iat + since[g] >= clock

(* A token was good for RefreshBefore when it was sent.                    *)
Sending(g) ==
    /\ caller[g] = "sending" =>
          /\ Genuine(sent[g])
          /\ failed[g] \/ sent[g].exp = sent[g].max
                \/ sent[g].exp + since[g] >= clock + RefreshBefore
    /\ verdict[g] # "none" => failed[g] \/ sent[g].exp = sent[g].max

BtInv ==
    /\ BtTypeOK /\ Genuine(value)
    /\ \A g \in Callers : Refreshing(g) /\ Sending(g)

LEMMA MintedFields ==
  ASSUME NEW t \in Int
  PROVE  /\ Minted(t).iat = t /\ Minted(t).max = MaxExpiry
         /\ Minted(t).exp \in Int /\ (t >= 0 => Minted(t).exp > 0)
         /\ Minted(t).exp = MaxExpiry \/ Minted(t).exp = t + Life
         /\ Minted(t).exp <= t + Life /\ Minted(t).exp <= MaxExpiry
         /\ Minted(t) # NoToken
  BY BearerAssumption DEF Minted, Lesser, NoToken

LEMMA TokenFields ==
  ASSUME NEW v \in Token
  PROVE  v.iat \in 0..MaxClock /\ v = Minted(v.iat)
  <1>1. PICK t \in 0..MaxClock : v = Minted(t)
    BY DEF Token
  <1>2. QED
    BY <1>1, MintedFields, BearerAssumption

LEMMA GenuineFields ==
  ASSUME BtTypeOK, NEW v, Genuine(v)
  PROVE  /\ v.iat \in 0..clock /\ v.max = MaxExpiry
         /\ v.exp \in Int /\ v.exp > 0 /\ v.exp <= MaxExpiry
         /\ v.exp = MaxExpiry \/ v.exp = v.iat + Life
  <1>1. v.iat \in 0..clock /\ v.iat \in Int /\ v.iat >= 0 /\ v = Minted(v.iat)
    BY BearerAssumption DEF Genuine, BtTypeOK
  <1>2. QED
    BY <1>1, MintedFields

LEMMA MintedIsToken == \A t \in 0..MaxClock : Minted(t) \in Token
  BY DEF Token

(* Core's later tokens expire no earlier.                                  *)
LEMMA MintedInOrder ==
  ASSUME NEW s \in Int, NEW t \in Int, s <= t
  PROVE  Minted(s).exp <= Minted(t).exp
  BY BearerAssumption DEF Minted, Lesser

LEMMA BtInitially == BtInit => BtInv
  <1> SUFFICES ASSUME BtInit PROVE BtInv
    OBVIOUS
  <1>1. BtTypeOK
    BY MintedIsToken, BearerAssumption DEF BtInit, BtTypeOK
  <1>2. Genuine(value)
    BY MintedFields, BearerAssumption DEF BtInit, Genuine
  <1>3. QED
    BY <1>1, <1>2, BearerAssumption DEF BtInit, BtInv, Refreshing, Sending

(* What the goroutines send with, whether it was refreshed or not.         *)
LEMMA SendStep ==
  ASSUME BtInv, NEW g \in Callers, SendAsItIs(g) \/ EndRefresh(g) \/ RefreshFails(g)
  PROVE  BtInv'
  <1> USE BearerAssumption DEF BtInv, Refreshing, Sending, Genuine, Sends
  <1>0. /\ value \in Token /\ value.iat \in 0..clock /\ value.max = MaxExpiry
        /\ value.exp \in Int /\ value.exp > 0 /\ value.exp <= MaxExpiry
    BY GenuineFields DEF BtTypeOK
  <1>1. CASE SendAsItIs(g)
    <2>1. value.exp = value.max \/ value.exp >= clock + RefreshBefore
      BY <1>0, <1>1, ClockAssumption DEF SendAsItIs, Due, BtTypeOK
    <2>2. BtTypeOK'
      BY <1>1 DEF SendAsItIs, BtTypeOK, MuFree
    <2>3. QED
      BY <1>0, <1>1, <2>1, <2>2 DEF SendAsItIs, MuFree, BtTypeOK
  <1>2. CASE EndRefresh(g)
    <2>1. reply[g] \in Token /\ Genuine(reply[g]) /\ mu = g /\ reply[g].exp >= value.exp
      BY <1>2 DEF EndRefresh, BtTypeOK
    <2>2. reply[g].exp = reply[g].max \/ reply[g].exp >= clock + RefreshBefore
      <3>1. reply[g].iat + since[g] >= clock /\ since[g] \in 0..MaxDelay
        BY <1>2 DEF EndRefresh, BtTypeOK
      <3>2. QED
        BY <2>1, <3>1, GenuineFields, ClockAssumption DEF BtTypeOK
    <2>3. BtTypeOK'
      BY <1>2, <2>1 DEF EndRefresh, BtTypeOK
    <2>4. Genuine(value)'
      BY <1>2, <2>1 DEF EndRefresh
    <2>5. ASSUME NEW h \in Callers PROVE Refreshing(h)'
      BY <1>2, <2>1, BearerAssumption DEF EndRefresh, BtTypeOK
    <2>6. Sending(g)'
      <3>1. sent'[g] = reply[g] /\ since'[g] = 0 /\ verdict'[g] = "none" /\ clock' = clock
        BY <1>2 DEF EndRefresh, BtTypeOK
      <3>2. reply[g].exp \in Int
        BY <2>1, GenuineFields
      <3>3. QED
        BY <2>1, <2>2, <3>1, <3>2
    <2>7. ASSUME NEW h \in Callers \ {g} PROVE Sending(h)'
      BY <1>2 DEF EndRefresh, BtTypeOK
    <2>8. QED
      BY <2>3, <2>4, <2>5, <2>6, <2>7
  <1>3. CASE RefreshFails(g)
    <2>1. BtTypeOK'
      BY <1>0, <1>3 DEF RefreshFails, BtTypeOK
    <2>2. mu = g /\ \A h \in Callers \ {g} : caller[h] # "refreshing"
      BY <1>3 DEF RefreshFails
    <2>3. QED
      BY <1>0, <1>3, <2>1, <2>2 DEF RefreshFails, BtTypeOK
  <1>4. QED
    BY <1>1, <1>2, <1>3

LEMMA RefreshStep ==
  ASSUME BtInv, NEW g \in Callers, BeginRefresh(g) \/ CoreRefreshes(g)
  PROVE  BtInv'
  <1> USE BearerAssumption DEF BtInv, Refreshing, Sending, Genuine
  <1>1. CASE BeginRefresh(g)
    <2>1. BtTypeOK'
      BY <1>1 DEF BeginRefresh, BtTypeOK
    <2>2. QED
      BY <1>1, <2>1 DEF BeginRefresh, BtTypeOK, MuFree
  <1>2. CASE CoreRefreshes(g)
    <2>1. BtTypeOK'
      BY <1>2, MintedIsToken DEF CoreRefreshes, BtTypeOK
    <2>2. Minted(clock).exp >= value.exp /\ Minted(clock).iat = clock
      BY MintedInOrder, MintedFields DEF BtTypeOK
    <2>3. QED
      BY <1>2, <2>1, <2>2, MintedFields DEF CoreRefreshes, BtTypeOK
  <1>3. QED
    BY <1>1, <1>2

(* Within the bounds of the delays and of the clocks a token that was good *)
(* for RefreshBefore is in its time when it arrives.                       *)
LEMMA ArrivesInTime ==
  ASSUME BtInv, NEW g \in Callers, caller[g] = "sending", NEW id,
         ~failed[g], sent[g].exp # sent[g].max
  PROVE  LifetimeFault(sent[g], id, clock + drift) = "none"
  <1>1. /\ sent[g].iat \in 0..clock /\ sent[g].exp \in Int /\ sent[g].exp > 0
        /\ sent[g].exp + since[g] >= clock + RefreshBefore
    BY MintedFields DEF BtInv, Sending, Genuine, BtTypeOK
  <1>2. since[g] \in 0..MaxDelay /\ clock \in Int /\ drift \in (-Drift)..Drift
    BY DEF BtInv, BtTypeOK
  <1>3. clock + drift <= sent[g].exp + Skew /\ sent[g].iat <= clock + drift + Skew
    BY <1>1, <1>2, BearerAssumption, ClockAssumption
  <1>4. QED
    BY <1>1, <1>2, <1>3, BearerAssumption, ClockAssumption DEF LifetimeFault

LEMMA ReachesStep ==
  ASSUME BtInv, NEW g \in Callers, Reaches(g)
  PROVE  BtInv'
  <1> USE DEF BtInv, Refreshing, Genuine, Reaches
  <1>1. BtTypeOK'
    BY DEF BtTypeOK
  <1>2. verdict'[g] # "none" => failed[g] \/ sent[g].exp = sent[g].max
    BY ArrivesInTime DEF BtTypeOK
  <1>3. ASSUME NEW h \in Callers PROVE Sending(h)'
    BY <1>2 DEF Sending, BtTypeOK
  <1>4. QED
    BY <1>1, <1>3 DEF BtTypeOK

LEMMA TickStep ==
  ASSUME BtInv, ClockTicks
  PROVE  BtInv'
  <1> USE BearerAssumption, ClockAssumption DEF BtInv, ClockTicks, Busy
  <1>1. BtTypeOK'
    BY DEF BtTypeOK
  <1>2. ASSUME NEW v, Genuine(v) PROVE Genuine(v)'
    BY <1>2 DEF Genuine, BtTypeOK
  <1>3. ASSUME NEW g \in Callers PROVE Refreshing(g)'
    BY <1>2 DEF Refreshing, Genuine, BtTypeOK
  <1>4. ASSUME NEW g \in Callers PROVE Sending(g)'
    BY <1>2, MintedFields DEF Sending, Genuine, BtTypeOK
  <1>5. QED
    BY <1>1, <1>2, <1>3, <1>4 DEF Genuine

LEMMA BtStep == BtInv /\ [BtNext]_btVars => BtInv'
  <1>1. BtInv /\ UNCHANGED btVars => BtInv'
    BY DEF BtInv, BtTypeOK, Genuine, Refreshing, Sending, btVars
  <1>2. QED
    BY <1>1, SendStep, RefreshStep, ReachesStep, TickStep DEF BtNext

(* The shared token is one core minted, and held by one refresh at a time. *)
THEOREM BtTypeCorrect == BtSpec => []BtTypeOK
  <1>1. BtInv => BtTypeOK
    BY DEF BtInv
  <1>2. QED
    BY BtInitially, BtStep, <1>1, PTL DEF BtSpec

(* A token that is not too old for the app is what the client sends,       *)
(* unless a refresh failed or max was reached.                             *)
THEOREM TokensInTime == BtSpec => []SentInTime
  <1>1. BtInv => SentInTime
    BY DEF BtInv, Sending, SentInTime
  <1>2. QED
    BY BtInitially, BtStep, <1>1, PTL DEF BtSpec

(* The client never goes back to a token that expires earlier.             *)
THEOREM TokensInOrder == BtSpec => NeverOlder
  <1>1. BtInv /\ [BtNext]_btVars => [value'.exp >= value.exp]_btVars
    <2>1. SUFFICES ASSUME BtInv, BtNext PROVE value'.exp >= value.exp
      BY DEF btVars
    <2>2. value.exp \in Int
      BY <2>1, GenuineFields DEF BtInv
    <2>3. ASSUME NEW g \in Callers, EndRefresh(g) PROVE value'.exp >= value.exp
      BY <2>1, <2>3 DEF BtInv, Refreshing, EndRefresh
    <2>4. ASSUME ~\E g \in Callers : EndRefresh(g) PROVE value' = value
      BY <2>1, <2>4 DEF BtNext, SendAsItIs, BeginRefresh, CoreRefreshes, RefreshFails, Reaches,
                   ClockTicks
    <2>5. QED
      BY <2>2, <2>3, <2>4
  <1>2. QED
    BY BtInitially, BtStep, <1>1, PTL DEF BtSpec, NeverOlder
=============================================================================
