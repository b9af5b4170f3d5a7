----------------------------- MODULE MCIdentity -----------------------------
(***************************************************************************)
(* TLC instance of both sides of identity tokens: the app that verifies    *)
(* them and the client that sends and refreshes one.  The two share the    *)
(* operators of IdentityTokens and no state, so a behaviour runs one of    *)
(* them and the other stays as it started.  One unit of time is a minute.  *)
(***************************************************************************)
EXTENDS Identity, BearerToken

CONSTANTS k1, k2, api

VARIABLE side

MCKeys == {k1, k2}

Ed(sig, user, perm, iat, exp) ==
    [kind |-> "ed25519", kid |-> k1, sig |-> sig, user |-> user, perm |-> perm,
     iat |-> iat, exp |-> exp]
Hmac(sig) ==
    [kind |-> "hmac", kid |-> NoKey, sig |-> sig, user |-> "u", perm |-> "admin",
     iat |-> 0, exp |-> 1]
Other(kind, sig) ==
    [kind |-> kind, kid |-> NoKey, sig |-> sig, user |-> "", perm |-> "", iat |-> 0, exp |-> 0]

MCTokens ==
    {Ed(k1, "u", "write", 0, 1), Ed(k1, "u", "", 0, 1), Ed(k2, "u", "admin", 0, 1),
     Ed(k1, "u", "read", 4, 5), Ed(k1, "u", "admin", 0, 0), Ed(k1, "", "admin", 0, 1),
     Hmac(api), Other("missing", NoKey), Other("system", api)}

MCRoutes ==
    {[guard |-> "auth", scope |-> "write"], [guard |-> "auth", scope |-> "read"],
     [guard |-> "user", scope |-> ""], [guard |-> "system", scope |-> ""],
     [guard |-> "scope", scope |-> "read"]}

MCEnvs ==
    {[pub |-> "unset", keys |-> {}, legacy |-> "unset", token |-> api],
     [pub |-> "unset", keys |-> {}, legacy |-> "unset", token |-> NoKey],
     [pub |-> "good", keys |-> {k1}, legacy |-> "no", token |-> api],
     [pub |-> "bad", keys |-> {}, legacy |-> "yes", token |-> api]}

MCCores ==
    {[key |-> k1, legacy |-> "no"], [key |-> k2, legacy |-> "no"],
     [key |-> k1, legacy |-> "yes"], [key |-> NoKey, legacy |-> "yes"]}

MCInit ==
    /\ side \in {"app", "client"}
    /\ IdInit /\ BtInit
    /\ side = "app" => drift = 0
    /\ side = "client" => env = CHOOSE e \in Envs : e.token = NoKey
    /\ side = "client" => core = CHOOSE c \in Cores : TRUE

MCNext ==
    /\ UNCHANGED side
    /\ \/ side = "app" /\ IdNext /\ UNCHANGED btVars
       \/ side = "client" /\ BtNext /\ UNCHANGED idVars

MCvars == <<idVars, btVars, side>>

(* Requests keep coming, their handlers run, time passes, and core answers *)
(* the fetches that do not fail.                                           *)
MCFairness ==
    /\ WF_MCvars(side = "app" /\ Tick /\ UNCHANGED <<btVars, side>>)
    /\ WF_MCvars(side = "app" /\ (\E r \in Requests : Verify(r)) /\ UNCHANGED <<btVars, side>>)
    /\ WF_MCvars(side = "app" /\ (\E r \in Requests : Arrival(r)) /\ UNCHANGED <<btVars, side>>)

MCSpec == MCInit /\ [][MCNext]_MCvars /\ MCFairness
=============================================================================
