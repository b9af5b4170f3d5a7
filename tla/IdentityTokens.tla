--------------------------- MODULE IdentityTokens ---------------------------
(***************************************************************************)
(* Identity tokens and what an app makes of one (auth.go, scope.go): pure  *)
(* operators over a token's claims, the keys to verify with and the clock. *)
(*                                                                         *)
(* A token is a record: kind ("missing", "garbled", "system", "ed25519" or *)
(* "hmac"), kid (the key its header names), sig (the key that signed it),  *)
(* user, perm, iat, exp and max.  Cryptography is perfect: a signature     *)
(* verifies with the key that made it and with no other.                   *)
(***************************************************************************)
EXTENDS Integers

CONSTANTS
    NoKey,          \* no key, or no API token
    Skew,           \* identityClockSkew
    RefreshBefore   \* refreshBeforeSeconds

ASSUME ClockAssumption == Skew \in Nat /\ RefreshBefore \in Nat

(* What resolveIdentity returns is [keys, legacy, hmac].                   *)
SignatureFault(t, id) ==
    CASE t.kind = "ed25519" /\ t.kid \notin id.keys ->
            IF id.keys = {} THEN "ErrNoIdentityKey" ELSE "ErrBadSignature"
      [] t.kind = "ed25519" /\ t.kid \in id.keys ->
            IF t.sig = t.kid THEN "none" ELSE "ErrBadSignature"
      [] t.kind = "hmac" /\ ~id.legacy -> "ErrLegacyToken"
      [] t.kind = "hmac" /\ id.legacy ->
            CASE id.hmac = NoKey -> "ErrNoIdentityKey"
              [] id.hmac # NoKey /\ t.sig = id.hmac -> "none"
              [] OTHER -> "ErrBadSignature"

(* Fault: the tolerance is taken off the expiry.                           *)
EarlyLifetimeFault(t, id, now) ==
    CASE t.exp = 0 -> IF id.legacy THEN "none" ELSE "ErrLegacyToken"
      [] t.exp # 0 /\ now > t.exp - Skew -> "ErrTokenExpired"
      [] OTHER -> "none"
LifetimeFault(t, id, now) ==
    CASE t.exp = 0 -> IF id.legacy THEN "none" ELSE "ErrLegacyToken"
      [] t.exp # 0 /\ now > t.exp + Skew -> "ErrTokenExpired"
      [] t.exp # 0 /\ now <= t.exp + Skew /\ t.iat > now + Skew -> "ErrTokenNotYetValid"
      [] OTHER -> "none"

(* ParseBearerToken once the identity is resolved: "none", or its error.   *)
ParseBearerToken(t, id, now) ==
    IF SignatureFault(t, id) # "none" THEN SignatureFault(t, id)
                                      ELSE LifetimeFault(t, id, now)
-----------------------------------------------------------------------------
scopeRank(s) ==
    CASE s = "admin" -> 3
      [] s = "write" -> 2
      [] s = "read"  -> 1
      [] OTHER       -> 0

HasScope(have, need) == scopeRank(have) >= scopeRank(need)

(* A request's context: AuthMiddleware puts the claims there.              *)
Guest == [user |-> "", perm |-> ""]

GetScope(ctx) ==
    CASE ctx.perm # "" -> ctx.perm
      [] ctx.perm = "" /\ ctx.user # "" -> "read"
      [] OTHER -> ""

RequireScope(ctx, scope) == HasScope(GetScope(ctx), scope)
RequireScopeFunc(ctx, scope) == RequireScope(ctx, scope)

UserIDFromRequest(t, id, now) ==
    IF ParseBearerToken(t, id, now) = "none" THEN t.user ELSE ""

AuthMiddleware(t, id, now) ==
    ParseBearerToken(t, id, now) = "none" /\ t.user # ""

(* want is the app's API token; a system token is that token itself.       *)
IsSystemRequest(t, want) ==
    want # NoKey /\ t.kind = "system" /\ t.sig = want

(* The answer of a route once the identity is resolved.  A route is        *)
(* [guard, scope]: RequireScope behind AuthMiddleware, RequireScopeFunc    *)
(* with no AuthMiddleware before it, RequireSystem, or a handler that      *)
(* asks UserIDFromRequest itself.                                          *)
Answer(route, t, id, now, want) ==
    CASE route.guard = "system" ->
            IF IsSystemRequest(t, want) THEN "handled" ELSE "403"
      [] route.guard = "auth" ->
            CASE ~AuthMiddleware(t, id, now) -> "401"
              [] AuthMiddleware(t, id, now) /\ ~RequireScope(t, route.scope) -> "403"
              [] OTHER -> "handled"
      [] route.guard = "scope" ->
            IF RequireScopeFunc(Guest, route.scope) THEN "handled" ELSE "403"
      [] route.guard = "user" ->
            IF UserIDFromRequest(t, id, now) # "" THEN "handled" ELSE "401"
-----------------------------------------------------------------------------
(* bearer: the token a client holds is to be refreshed before it is sent.  *)
(* Fault: only a token that has expired is refreshed.                      *)
DueWhenExpired(t, now) == t.exp # 0 /\ t.max > t.exp /\ t.exp - now < 0
Due(t, now) == t.exp # 0 /\ t.max > t.exp /\ t.exp - now < RefreshBefore
=============================================================================
