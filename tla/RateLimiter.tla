------------------------------ MODULE RateLimiter ------------------------------
(***************************************************************************)
(* The limit on POST /simulate/run: a counter in Redis per clock minute.   *)
(*                                                                         *)
(* A call reads the clock, increments the counter of that minute (INCR),   *)
(* gives it an expiry if it was the first (EXPIRE), and passes unless the  *)
(* counter is over the limit. The two commands are two awaits: the process *)
(* may die between them. An error of Redis lets the call pass. Every       *)
(* caller uses the same organisation's key, so the key is the minute.      *)
(*                                                                         *)
(* Time is a count of ticks, Window of them to the minute.                 *)
(***************************************************************************)
EXTENDS Integers, FiniteSets

CONSTANTS
  Calls,    \* calls of check_simulation_rate_limit, each made once
  Limit,    \* _LIMIT_PER_MINUTE
  Window,   \* _WINDOW_SECONDS, in ticks
  MaxTime   \* bound: ticks after the start

ASSUME LimiterAssumption ==
  /\ Limit \in Nat /\ Window \in Nat \ {0} /\ MaxTime \in Nat
  /\ IsFiniteSet(Calls)

VARIABLES
  now,       \* the clock
  counter,   \* the keys ratelimit:simulate:{org}:{minute}, 0 for no key
  expiry,    \* when Redis drops a key, Never for a key without TTL
  step,      \* how far each call is
  minute,    \* window_bucket of each call
  count,     \* what INCR made of the counter for each call, 0 before
  dropped    \* history: minutes whose counter has been dropped once

limiterVars == <<now, counter, expiry, step, minute, count, dropped>>

Never == -1
Minutes == 0 .. MaxTime \div Window
Steps == {"idle", "arrived", "first", "admitted", "refused", "open", "dead"}

(* Types. Buckets are whole minutes that have begun, counters never        *)
(* negative.                                                               *)
LimiterTypeOK ==
  /\ now \in 0 .. MaxTime
  /\ counter \in [Minutes -> Nat]
  /\ expiry \in [Minutes -> Nat \cup {Never}]
  /\ step \in [Calls -> Steps]
  /\ minute \in [Calls -> Minutes]
  /\ count \in [Calls -> Nat]
  /\ dropped \subseteq Minutes

LimiterInit ==
  /\ now = 0
  /\ counter = [m \in Minutes |-> 0]
  /\ expiry = [m \in Minutes |-> Never]
  /\ step = [c \in Calls |-> "idle"]
  /\ minute = [c \in Calls |-> 0]
  /\ count = [c \in Calls |-> 0]
  /\ dropped = {}

-----------------------------------------------------------------------------
(* Mutants: the limit is one off.                                          *)
VerdictOneMore(n) == IF n > Limit + 1 THEN "refused" ELSE "admitted"
VerdictOneLess(n) == IF n >= Limit THEN "refused" ELSE "admitted"

(* The 429 is raised above the limit. A counter lives for two minutes.     *)
Verdict(n) == IF n > Limit THEN "refused" ELSE "admitted"
TimeToLive == 2 * Window

(* int(time.time()) // 60 is read before the first await.                  *)
Arrive(c) ==
  /\ step[c] = "idle"
  /\ step' = [step EXCEPT ![c] = "arrived"]
  /\ minute' = [minute EXCEPT ![c] = now \div Window]
  /\ UNCHANGED <<now, counter, expiry, count, dropped>>

(* INCR creates a missing key at 1, and keeps the TTL of one that exists.  *)
CountCall(c) ==
  /\ counter' = [counter EXCEPT ![minute[c]] = @ + 1]
  /\ count' = [count EXCEPT ![c] = counter[minute[c]] + 1]
  /\ UNCHANGED <<now, expiry, minute, dropped>>

(* Mutant: no TTL is given.                                                *)
IncrForGood(c) ==
  /\ step[c] = "arrived"
  /\ CountCall(c)
  /\ step' = [step EXCEPT ![c] = Verdict(count'[c])]

Incr(c) ==
  /\ step[c] = "arrived"
  /\ CountCall(c)
  /\ step' = [step EXCEPT ![c] = IF count'[c] = 1 THEN "first" ELSE Verdict(count'[c])]

SetExpiry(c) ==
  /\ expiry' = [expiry EXCEPT ![minute[c]] = now + TimeToLive]
  /\ UNCHANGED <<now, counter, minute, count, dropped>>

Expire(c) ==
  /\ step[c] = "first"
  /\ SetExpiry(c)
  /\ step' = [step EXCEPT ![c] = Verdict(count[c])]

(* A command raises in the caller, applied or not: the request passes.     *)
(* Or the process that makes the call dies there.                          *)
Ends(c, end) ==
  /\ step' = [step EXCEPT ![c] = end]
  /\ \/ /\ step[c] = "arrived"
        /\ CountCall(c)
     \/ /\ step[c] = "first"
        /\ SetExpiry(c)
     \/ /\ step[c] \in {"arrived", "first"}
        /\ UNCHANGED <<now, counter, expiry, minute, count, dropped>>

FailOpen(c) == Ends(c, "open")
Die(c) == Ends(c, "dead")

(* Redis drops a key when its time is up.                                  *)
Tick ==
  /\ now < MaxTime
  /\ now' = now + 1
  /\ LET over == {m \in Minutes : expiry[m] # Never /\ expiry[m] <= now + 1} IN
     /\ counter' = [m \in Minutes |-> IF m \in over THEN 0 ELSE counter[m]]
     /\ expiry' = [m \in Minutes |-> IF m \in over THEN Never ELSE expiry[m]]
     /\ dropped' = dropped \cup over
  /\ UNCHANGED <<step, minute, count>>

LimiterCall(c) == Arrive(c) \/ Incr(c) \/ Expire(c) \/ FailOpen(c) \/ Die(c)
LimiterNext == Tick \/ \E c \in Calls : LimiterCall(c)
LimiterSpec == LimiterInit /\ [][LimiterNext]_limiterVars

-----------------------------------------------------------------------------
Admitted(m) == {c \in Calls : step[c] = "admitted" /\ minute[c] = m}

(* At most Limit calls of a minute pass because the counter said so, as    *)
(* long as the minute's counter has not been dropped: two calls never read *)
(* the same count, whatever the interleaving, and a call that comes back   *)
(* from INCR late still finds its place taken.                             *)
WithinLimit == \A m \in Minutes \ dropped : Cardinality(Admitted(m)) <= Limit

(* A counter outlives its minute by a whole minute, so a call that stalls  *)
(* for less between reading the clock and INCR cannot start it again.      *)
CounterOutlivesMinute == \A m \in dropped : now >= (m + 2) * Window

(* A 429 has a cause: Limit other calls took the places of that minute.    *)
(* They may have failed open or died since.                                *)
RefusedWhenFull ==
  \A c \in Calls : step[c] = "refused" =>
    \A n \in 1 .. Limit :
      \E d \in Calls \ {c} : minute[d] = minute[c] /\ count[d] = n

(* A counter without an expiry lives for ever. Only the failure of a call  *)
(* between its INCR and its EXPIRE leaves one, and one with an expiry is   *)
(* gone two minutes after it was set.                                      *)
CountersExpire ==
  \A m \in Minutes : counter[m] > 0 =>
    IF expiry[m] = Never
    THEN \E c \in Calls : /\ minute[c] = m /\ count[c] = 1
                          /\ step[c] \in {"first", "open", "dead"}
    ELSE now < expiry[m] /\ expiry[m] <= now + TimeToLive

(* The inductive invariant. What a call has done follows from its step; a  *)
(* count below the counter was given to a call, and while the counter has  *)
(* not been dropped to one call only; a counter that has an expiry lives   *)
(* to the end of the minute after its own.                                 *)
StepInv(c) ==
  /\ step[c] \in {"idle", "arrived"} => count[c] = 0
  /\ step[c] = "first" => count[c] = 1
  /\ step[c] = "admitted" => count[c] \in 1 .. Limit
  /\ step[c] # "idle" => minute[c] * Window <= now
PlacesTaken ==
  \A m \in Minutes : \A n \in 1 .. counter[m] :
    \E d \in Calls : minute[d] = m /\ count[d] = n
PlacesUnique ==
  \A c \in Calls : minute[c] \notin dropped =>
    /\ count[c] <= counter[minute[c]]
    /\ \A d \in Calls \ {c} :
         minute[d] = minute[c] /\ count[d] = count[c] => count[c] = 0
ExpiryInv ==
  \A m \in Minutes : expiry[m] # Never =>
    /\ now < expiry[m] /\ expiry[m] <= now + TimeToLive
    /\ (m + 2) * Window <= expiry[m]
LimiterInv ==
  /\ LimiterTypeOK
  /\ \A c \in Calls : StepInv(c)
  /\ PlacesTaken /\ PlacesUnique
  /\ ExpiryInv
  /\ CounterOutlivesMinute
  /\ RefusedWhenFull
  /\ CountersExpire
=============================================================================
