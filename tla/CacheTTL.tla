------------------------------ MODULE CacheTTL ------------------------------
(***************************************************************************)
(* What becomes of a duration on its way to the cache app (cache.go).      *)
(* Durations are in ticks of half a second.                                *)
(***************************************************************************)
EXTENDS Integers

(* Fault: the duration is sent in minutes.                                 *)
ttlMinutes(ticks) == ticks \div 120
ttlSeconds(ticks) == ticks \div 2
=============================================================================
