--------------------------- MODULE RateLimiterProofs ---------------------------
(* Proofs about RateLimiter, for any calls, limit, window and time.        *)
EXTENDS RateLimiter, FiniteSetTheorems, TLAPS

(* A minute begins before now, and is one of Minutes.                      *)
LEMMA MinuteOfNow ==
  ASSUME NEW t \in 0 .. MaxTime
  PROVE  /\ t \div Window \in Minutes
         /\ (t \div Window) * Window <= t
<1> USE LimiterAssumption
<1> DEFINE q == t \div Window
           Q == MaxTime \div Window
<1>1. q \in Int /\ Q \in Int /\ Window \in Int /\ Window > 0
  OBVIOUS
<1>2. q * Window <= t /\ t < q * Window + Window
  OBVIOUS
<1>3. Q * Window <= MaxTime /\ MaxTime < Q * Window + Window
  OBVIOUS
<1>4. q >= 0
  BY <1>1, <1>2
<1>5. q <= Q
  BY <1>1, <1>2, <1>3
<1>6. QED
  BY <1>1, <1>2, <1>4, <1>5 DEF Minutes

-----------------------------------------------------------------------------
(* Nothing is counted at first.                                            *)
LEMMA InvInit == LimiterInit => LimiterInv
<1> SUFFICES ASSUME LimiterInit PROVE LimiterInv
  OBVIOUS
<1> USE LimiterAssumption DEF LimiterInit
<1>1. 0 \in Minutes
  <2>1. 0 \in 0 .. MaxTime
    OBVIOUS
  <2>2. 0 \div Window = 0
    OBVIOUS
  <2>3. QED
    BY <2>1, <2>2, MinuteOfNow
<1>2. LimiterTypeOK
  BY <1>1 DEF LimiterTypeOK, Steps, Never
<1>3. \A c \in Calls : StepInv(c)
  BY DEF StepInv
<1>4. PlacesTaken /\ PlacesUnique /\ ExpiryInv
  BY <1>1 DEF PlacesTaken, PlacesUnique, ExpiryInv
<1>5. CounterOutlivesMinute /\ RefusedWhenFull /\ CountersExpire
  BY DEF CounterOutlivesMinute, RefusedWhenFull, CountersExpire
<1>6. QED
  BY <1>2, <1>3, <1>4, <1>5 DEF LimiterInv

(* A call that arrives has counted nothing, so its minute may change.      *)
LEMMA InvArrive ==
  ASSUME LimiterInv, NEW c \in Calls, Arrive(c)
  PROVE  LimiterInv'
<1> USE LimiterAssumption DEF LimiterInv, Arrive
<1> DEFINE m == now \div Window
<1>1. m \in Minutes /\ m * Window <= now /\ m \in Nat
  <2>1. now \in 0 .. MaxTime
    BY DEF LimiterTypeOK
  <2>2. m \in Minutes /\ m * Window <= now
    BY <2>1, MinuteOfNow
  <2>3. m \in Nat
    BY <2>2 DEF Minutes
  <2>4. QED
    BY <2>2, <2>3
<1> HIDE DEF m
<1>2. minute' = [minute EXCEPT ![c] = m]
  BY DEF m
<1>3. LimiterTypeOK'
  BY <1>1, <1>2 DEF LimiterTypeOK, Steps
<1>4. count[c] = 0
  BY DEF StepInv
<1>5. \A d \in Calls : StepInv(d)'
  <2> SUFFICES ASSUME NEW d \in Calls PROVE StepInv(d)'
    OBVIOUS
  <2>1. CASE d = c
    BY <2>1, <1>1, <1>2, <1>4 DEF StepInv, LimiterTypeOK
  <2>2. CASE d # c
    BY <2>2, <1>2 DEF StepInv, LimiterTypeOK
  <2>3. QED
    BY <2>1, <2>2
<1>6. PlacesTaken'
  <2> SUFFICES ASSUME NEW k \in Minutes, NEW n \in 1 .. counter[k]
               PROVE  \E d \in Calls : minute'[d] = k /\ count[d] = n
    BY DEF PlacesTaken
  <2>1. PICK d \in Calls : minute[d] = k /\ count[d] = n
    BY DEF PlacesTaken
  <2>2. d # c
    BY <2>1, <1>4 DEF LimiterTypeOK
  <2>3. QED
    BY <2>1, <2>2, <1>2 DEF LimiterTypeOK
<1>7. PlacesUnique'
  BY <1>1, <1>2, <1>4 DEF PlacesUnique, LimiterTypeOK
<1>8. ExpiryInv' /\ CounterOutlivesMinute'
  BY DEF ExpiryInv, CounterOutlivesMinute
<1>9. RefusedWhenFull'
  <2> SUFFICES ASSUME NEW d \in Calls, step'[d] = "refused", NEW n \in 1 .. Limit
               PROVE  \E e \in Calls \ {d} : minute'[e] = minute'[d] /\ count[e] = n
    BY DEF RefusedWhenFull
  <2>1. d # c /\ step[d] = "refused"
    BY DEF LimiterTypeOK
  <2>2. PICK e \in Calls \ {d} : minute[e] = minute[d] /\ count[e] = n
    BY <2>1 DEF RefusedWhenFull
  <2>3. e # c
    BY <2>2, <1>4
  <2>4. QED
    BY <2>1, <2>2, <2>3, <1>2 DEF LimiterTypeOK
<1>10. CountersExpire'
  <2> SUFFICES ASSUME NEW k \in Minutes, counter[k] > 0, expiry[k] = Never
               PROVE  \E d \in Calls : /\ minute'[d] = k /\ count[d] = 1
                                       /\ step'[d] \in {"first", "open", "dead"}
    BY DEF CountersExpire
  <2>1. PICK d \in Calls : /\ minute[d] = k /\ count[d] = 1
                           /\ step[d] \in {"first", "open", "dead"}
    BY DEF CountersExpire
  <2>2. QED
    BY <2>1, <1>2, <1>4 DEF LimiterTypeOK
<1>11. QED
  BY <1>3, <1>5, <1>6, <1>7, <1>8, <1>9, <1>10

(* A call whose INCR was executed, whatever became of it then.             *)
LEMMA InvCounted ==
  ASSUME LimiterInv, NEW c \in Calls, step[c] = "arrived", CountCall(c),
         NEW s \in Steps \ {"idle", "arrived"}, step' = [step EXCEPT ![c] = s],
         s = "first" => count'[c] = 1,
         s = "admitted" => count'[c] <= Limit,
         s = "refused" => count'[c] > Limit,
         count'[c] = 1 => s \in {"first", "open", "dead"}
  PROVE  LimiterInv'
<1> USE LimiterAssumption DEF LimiterInv, CountCall
<1> DEFINE m == minute[c]
           n == counter[m] + 1
<1>1. m \in Minutes /\ counter[m] \in Nat /\ n \in Nat \ {0} /\ n > counter[m]
  BY DEF LimiterTypeOK
<1>2. count[c] = 0
  BY DEF StepInv
<1>3. counter' = [counter EXCEPT ![m] = n] /\ count' = [count EXCEPT ![c] = n]
  BY DEF LimiterTypeOK
<1>4. counter'[m] = n /\ count'[c] = n
  BY <1>1, <1>3 DEF LimiterTypeOK
<1> HIDE DEF n
<1>5. LimiterTypeOK'
  BY <1>1, <1>3 DEF LimiterTypeOK
<1>6. \A d \in Calls : StepInv(d)'
  <2> SUFFICES ASSUME NEW d \in Calls PROVE StepInv(d)'
    OBVIOUS
  <2>1. CASE d = c
    <3>1. minute[c] * Window <= now
      BY DEF StepInv
    <3>2. step'[c] = s
      BY DEF LimiterTypeOK
    <3>3. QED
      BY <2>1, <3>1, <3>2, <1>1, <1>4 DEF StepInv
  <2>2. CASE d # c
    BY <2>2, <1>3 DEF StepInv, LimiterTypeOK
  <2>3. QED
    BY <2>1, <2>2
<1>7. PlacesTaken'
  <2> SUFFICES ASSUME NEW k \in Minutes, NEW i \in 1 .. counter'[k]
               PROVE  \E d \in Calls : minute[d] = k /\ count'[d] = i
    BY DEF PlacesTaken
  <2>1. CASE k = m /\ i = n
    BY <2>1, <1>4
  <2>2. CASE ~(k = m /\ i = n)
    <3>1. i \in 1 .. counter[k]
      BY <2>2, <1>1, <1>3 DEF LimiterTypeOK, n
    <3>2. PICK d \in Calls : minute[d] = k /\ count[d] = i
      BY <3>1 DEF PlacesTaken
    <3>3. d # c
      BY <3>1, <3>2, <1>2
    <3>4. QED
      BY <3>2, <3>3, <1>3 DEF LimiterTypeOK
  <2>3. QED
    BY <2>1, <2>2
<1>8. PlacesUnique'
  <2> SUFFICES ASSUME NEW d \in Calls, minute[d] \notin dropped
               PROVE  /\ count'[d] <= counter'[minute[d]]
                      /\ \A e \in Calls \ {d} :
                           minute[e] = minute[d] /\ count'[e] = count'[d] => count'[d] = 0
    BY DEF PlacesUnique
  <2>1. \A e \in Calls : e # c => count'[e] = count[e] /\ count[e] \in Nat
    BY <1>3 DEF LimiterTypeOK
  <2>2. \A e \in Calls : minute[e] \notin dropped => count[e] <= counter[minute[e]]
    BY DEF PlacesUnique
  <2>3. \A e \in Calls : e # c /\ minute[e] = m /\ m \notin dropped => count[e] < n
    BY <2>1, <2>2, <1>1 DEF n
  <2>4. count'[d] <= counter'[minute[d]]
    <3>1. CASE minute[d] = m
      <4>1. CASE d = c
        BY <4>1, <1>1, <1>4
      <4>2. CASE d # c
        BY <4>2, <3>1, <2>1, <2>3, <1>1, <1>4
      <4>3. QED
        BY <4>1, <4>2
    <3>2. CASE minute[d] # m
      BY <3>2, <2>1, <2>2, <1>3 DEF LimiterTypeOK
    <3>3. QED
      BY <3>1, <3>2
  <2>5. ASSUME NEW e \in Calls \ {d}, minute[e] = minute[d], count'[e] = count'[d]
        PROVE  count'[d] = 0
    <3>1. CASE d = c
      BY <3>1, <2>5, <2>1, <2>3, <1>1, <1>4
    <3>2. CASE e = c
      BY <3>2, <2>5, <2>1, <2>3, <1>1, <1>4
    <3>3. CASE d # c /\ e # c
      <4>1. count[e] = count[d]
        BY <3>3, <2>5, <2>1
      <4>2. count[d] = 0
        BY <4>1, <2>5 DEF PlacesUnique
      <4>3. QED
        BY <4>2, <3>3, <2>1
    <3>4. QED
      BY <3>1, <3>2, <3>3
  <2>6. QED
    BY <2>4, <2>5
<1>9. ExpiryInv' /\ CounterOutlivesMinute'
  BY DEF ExpiryInv, CounterOutlivesMinute
<1>10. RefusedWhenFull'
  <2> SUFFICES ASSUME NEW d \in Calls, step'[d] = "refused", NEW i \in 1 .. Limit
               PROVE  \E e \in Calls \ {d} : minute[e] = minute[d] /\ count'[e] = i
    BY DEF RefusedWhenFull
  <2>1. CASE d = c
    <3>1. s = "refused"
      BY <2>1 DEF LimiterTypeOK
    <3>2. i \in 1 .. counter[m]
      BY <3>1, <1>1, <1>4 DEF n
    <3>3. PICK e \in Calls : minute[e] = m /\ count[e] = i
      BY <3>2, <1>1 DEF PlacesTaken
    <3>4. e # c
      BY <3>2, <3>3, <1>2
    <3>5. QED
      BY <2>1, <3>3, <3>4, <1>3 DEF LimiterTypeOK
  <2>2. CASE d # c
    <3>1. step[d] = "refused"
      BY <2>2 DEF LimiterTypeOK
    <3>2. PICK e \in Calls \ {d} : minute[e] = minute[d] /\ count[e] = i
      BY <3>1 DEF RefusedWhenFull
    <3>3. e # c
      BY <3>2, <1>2
    <3>4. QED
      BY <3>2, <3>3, <1>3 DEF LimiterTypeOK
  <2>3. QED
    BY <2>1, <2>2
<1>11. CountersExpire'
  <2> SUFFICES ASSUME NEW k \in Minutes, counter'[k] > 0
               PROVE  IF expiry[k] = Never
                      THEN \E d \in Calls : /\ minute[d] = k /\ count'[d] = 1
                                            /\ step'[d] \in {"first", "open", "dead"}
                      ELSE now < expiry[k] /\ expiry[k] <= now + TimeToLive
    BY DEF CountersExpire, TimeToLive
  <2>1. CASE expiry[k] # Never
    BY <2>1 DEF ExpiryInv
  <2>2. CASE expiry[k] = Never /\ counter[k] > 0
    <3>1. PICK d \in Calls : /\ minute[d] = k /\ count[d] = 1
                             /\ step[d] \in {"first", "open", "dead"}
      BY <2>2 DEF CountersExpire
    <3>2. d # c
      BY <3>1, <1>2
    <3>3. QED
      BY <2>2, <3>1, <3>2, <1>3 DEF LimiterTypeOK
  <2>3. CASE expiry[k] = Never /\ ~(counter[k] > 0)
    <3>1. k = m /\ n = 1
      BY <2>3, <1>1, <1>3 DEF LimiterTypeOK, n
    <3>2. step'[c] = s
      BY DEF LimiterTypeOK
    <3>3. QED
      BY <2>3, <3>1, <3>2, <1>4
  <2>4. QED
    BY <2>1, <2>2, <2>3
<1>12. QED
  BY <1>5, <1>6, <1>7, <1>8, <1>9, <1>10, <1>11

(* A call that has counted goes on without counting again.                 *)
LEMMA InvWentOn ==
  ASSUME LimiterInv, NEW c \in Calls, step[c] \in {"arrived", "first"},
         NEW s \in Steps \ {"idle", "arrived", "first"},
         step' = [step EXCEPT ![c] = s],
         UNCHANGED <<now, counter, minute, count, dropped>>,
         \/ SetExpiry(c)
         \/ UNCHANGED expiry /\ s \in {"open", "dead"},
         s = "admitted" => count[c] \in 1 .. Limit,
         s = "refused" => Limit < 1
  PROVE  LimiterInv'
<1> USE LimiterAssumption DEF LimiterInv
<1> DEFINE m == minute[c]
<1>1. m \in Minutes /\ m \in Nat /\ now \in Nat
  BY DEF LimiterTypeOK, Minutes
<1>2. m * Window <= now
  BY DEF StepInv
<1>3. LimiterTypeOK'
  <2>1. now + TimeToLive \in Nat
    BY <1>1 DEF TimeToLive
  <2>2. expiry' \in [Minutes -> Nat \cup {Never}]
    BY <2>1 DEF LimiterTypeOK, SetExpiry
  <2>3. QED
    BY <2>2 DEF LimiterTypeOK
<1>4. \A d \in Calls : StepInv(d)'
  BY DEF StepInv, LimiterTypeOK
<1>5. PlacesTaken' /\ PlacesUnique'
  BY DEF PlacesTaken, PlacesUnique
<1>6. ExpiryInv'
  <2> SUFFICES ASSUME NEW k \in Minutes, expiry'[k] # Never
               PROVE  /\ now < expiry'[k] /\ expiry'[k] <= now + TimeToLive
                      /\ (k + 2) * Window <= expiry'[k]
    BY DEF ExpiryInv, TimeToLive
  <2>1. CASE SetExpiry(c) /\ k = m
    <3>1. expiry'[k] = now + TimeToLive
      BY <2>1 DEF SetExpiry, LimiterTypeOK
    <3>2. (m + 2) * Window = m * Window + 2 * Window
      BY <1>1
    <3>3. QED
      BY <2>1, <3>1, <3>2, <1>1, <1>2 DEF TimeToLive
  <2>2. CASE ~(SetExpiry(c) /\ k = m)
    <3>1. expiry'[k] = expiry[k]
      BY <2>2 DEF SetExpiry, LimiterTypeOK
    <3>2. QED
      BY <3>1 DEF ExpiryInv
  <2>3. QED
    BY <2>1, <2>2
<1>7. CounterOutlivesMinute'
  BY DEF CounterOutlivesMinute
<1>8. RefusedWhenFull'
  BY DEF RefusedWhenFull, LimiterTypeOK
<1>9. CountersExpire'
  <2> SUFFICES ASSUME NEW k \in Minutes, counter[k] > 0
               PROVE  IF expiry'[k] = Never
                      THEN \E d \in Calls : /\ minute[d] = k /\ count[d] = 1
                                            /\ step'[d] \in {"first", "open", "dead"}
                      ELSE now < expiry'[k] /\ expiry'[k] <= now + TimeToLive
    BY DEF CountersExpire, TimeToLive
  <2>1. CASE expiry'[k] # Never
    BY <2>1, <1>6 DEF ExpiryInv, TimeToLive
  <2>2. CASE expiry'[k] = Never
    <3>1. now + TimeToLive # Never
      BY <1>1 DEF TimeToLive, Never
    <3>2. expiry[k] = Never /\ (SetExpiry(c) => k # m)
      BY <2>2, <3>1 DEF SetExpiry, LimiterTypeOK
    <3>3. PICK d \in Calls : /\ minute[d] = k /\ count[d] = 1
                             /\ step[d] \in {"first", "open", "dead"}
      BY <3>2 DEF CountersExpire
    <3>4. step'[d] \in {"first", "open", "dead"}
      BY <3>2, <3>3 DEF LimiterTypeOK
    <3>5. QED
      BY <2>2, <3>3, <3>4
  <2>3. QED
    BY <2>1, <2>2
<1>10. QED
  BY <1>3, <1>4, <1>5, <1>6, <1>7, <1>8, <1>9

(* The clock drops the counters whose time is up, and no others.           *)
LEMMA InvTick ==
  ASSUME LimiterInv, Tick
  PROVE  LimiterInv'
<1> USE LimiterAssumption DEF LimiterInv
<1> DEFINE over == {m \in Minutes : expiry[m] # Never /\ expiry[m] <= now + 1}
<1>1. /\ now' = now + 1 /\ now < MaxTime /\ now \in Nat
      /\ counter' = [m \in Minutes |-> IF m \in over THEN 0 ELSE counter[m]]
      /\ expiry' = [m \in Minutes |-> IF m \in over THEN Never ELSE expiry[m]]
      /\ dropped' = dropped \cup over
      /\ UNCHANGED <<step, minute, count>>
  BY DEF Tick, LimiterTypeOK
<1>2. \A m \in Minutes : m \in Nat /\ counter[m] \in Nat /\ expiry[m] \in Nat \cup {Never}
  <2>1. Minutes \subseteq Nat
    BY DEF Minutes
  <2>2. QED
    BY <2>1 DEF LimiterTypeOK
<1>3. LimiterTypeOK'
  BY <1>1, <1>2 DEF LimiterTypeOK
<1>4. \A d \in Calls : StepInv(d)'
  <2> SUFFICES ASSUME NEW d \in Calls, StepInv(d) PROVE StepInv(d)'
    OBVIOUS
  <2>1. minute[d] * Window \in Int
    BY <1>2 DEF LimiterTypeOK
  <2>2. QED
    BY <2>1, <1>1 DEF StepInv
<1>5. PlacesTaken'
  <2> SUFFICES ASSUME NEW k \in Minutes, NEW n \in 1 .. counter'[k]
               PROVE  \E d \in Calls : minute[d] = k /\ count[d] = n
    BY <1>1 DEF PlacesTaken
  <2>1. n \in 1 .. counter[k]
    BY <1>1, <1>2
  <2>2. QED
    BY <2>1 DEF PlacesTaken
<1>6. PlacesUnique'
  <2> SUFFICES ASSUME NEW d \in Calls, minute[d] \notin dropped'
               PROVE  /\ count[d] <= counter'[minute[d]]
                      /\ \A e \in Calls \ {d} :
                           minute[e] = minute[d] /\ count[e] = count[d] => count[d] = 0
    BY <1>1 DEF PlacesUnique
  <2>1. minute[d] \in Minutes \ over /\ minute[d] \notin dropped
    BY <1>1 DEF LimiterTypeOK
  <2>2. counter'[minute[d]] = counter[minute[d]]
    BY <2>1, <1>1
  <2>3. QED
    BY <2>1, <2>2 DEF PlacesUnique
<1>7. ExpiryInv'
  <2> SUFFICES ASSUME NEW k \in Minutes, expiry'[k] # Never
               PROVE  /\ now' < expiry'[k] /\ expiry'[k] <= now' + TimeToLive
                      /\ (k + 2) * Window <= expiry'[k]
    BY DEF ExpiryInv, TimeToLive
  <2>1. k \notin over /\ expiry'[k] = expiry[k]
    BY <1>1
  <2>2. ~(expiry[k] <= now + 1) /\ expiry[k] \in Nat
    BY <2>1, <1>2
  <2>3. expiry[k] <= now + TimeToLive /\ (k + 2) * Window <= expiry[k]
    BY <2>1 DEF ExpiryInv
  <2>4. TimeToLive \in Nat
    BY DEF TimeToLive
  <2>5. QED
    BY <2>1, <2>2, <2>3, <2>4, <1>1
<1>8. CounterOutlivesMinute'
  <2> SUFFICES ASSUME NEW k \in dropped' PROVE now' >= (k + 2) * Window
    BY DEF CounterOutlivesMinute
  <2>1. k \in Nat
    BY <1>1, <1>2 DEF LimiterTypeOK
  <2>2. (k + 2) * Window \in Int
    BY <2>1
  <2>3. CASE k \in dropped
    BY <2>2, <2>3, <1>1 DEF CounterOutlivesMinute
  <2>4. CASE k \in over
    <3>1. (k + 2) * Window <= expiry[k] /\ expiry[k] <= now + 1
      BY <2>4 DEF ExpiryInv
    <3>2. expiry[k] \in Nat
      BY <2>4, <1>2
    <3>3. QED
      BY <3>1, <3>2, <2>2, <1>1
  <2>5. QED
    BY <2>3, <2>4, <1>1
<1>9. RefusedWhenFull'
  BY <1>1 DEF RefusedWhenFull
<1>10. CountersExpire'
  <2> SUFFICES ASSUME NEW k \in Minutes, counter'[k] > 0
               PROVE  IF expiry'[k] = Never
                      THEN \E d \in Calls : /\ minute[d] = k /\ count[d] = 1
                                            /\ step[d] \in {"first", "open", "dead"}
                      ELSE now' < expiry'[k] /\ expiry'[k] <= now' + TimeToLive
    BY <1>1 DEF CountersExpire, TimeToLive
  <2>1. CASE expiry'[k] # Never
    BY <2>1, <1>7 DEF ExpiryInv, TimeToLive
  <2>2. CASE expiry'[k] = Never
    <3>1. k \notin over
      BY <1>1
    <3>2. expiry[k] = Never /\ counter[k] > 0
      BY <2>2, <3>1, <1>1
    <3>3. QED
      BY <2>2, <3>2 DEF CountersExpire
  <2>3. QED
    BY <2>1, <2>2
<1>11. QED
  BY <1>3, <1>4, <1>5, <1>6, <1>7, <1>8, <1>9, <1>10

-----------------------------------------------------------------------------
(* Every step keeps the invariant.                                         *)
LEMMA InvNext == LimiterInv /\ [LimiterNext]_limiterVars => LimiterInv'
<1> SUFFICES ASSUME LimiterInv, [LimiterNext]_limiterVars PROVE LimiterInv'
  OBVIOUS
<1>1. CASE Tick
  BY <1>1, InvTick
<1>2. ASSUME NEW c \in Calls, Arrive(c) PROVE LimiterInv'
  BY <1>2, InvArrive
<1>3. ASSUME NEW c \in Calls, Incr(c) PROVE LimiterInv'
  <2> DEFINE s == IF count'[c] = 1 THEN "first" ELSE Verdict(count'[c])
  <2>1. s \in Steps \ {"idle", "arrived"}
    BY DEF Verdict, Steps
  <2>2. step[c] = "arrived" /\ CountCall(c) /\ step' = [step EXCEPT ![c] = s]
    BY <1>3 DEF Incr
  <2>3. count'[c] \in Nat
    <3>1. minute[c] \in Minutes /\ counter[minute[c]] \in Nat
      BY DEF LimiterInv, LimiterTypeOK
    <3>2. QED
      BY <2>2, <3>1 DEF CountCall, LimiterInv, LimiterTypeOK
  <2>4. /\ s = "first" => count'[c] = 1
        /\ s = "admitted" => count'[c] <= Limit
        /\ s = "refused" => count'[c] > Limit
        /\ count'[c] = 1 => s \in {"first", "open", "dead"}
    BY <2>3, LimiterAssumption DEF Verdict
  <2> HIDE DEF s
  <2>5. QED
    BY <2>1, <2>2, <2>4, InvCounted
<1>4. ASSUME NEW c \in Calls, Expire(c) PROVE LimiterInv'
  <2> DEFINE s == Verdict(count[c])
  <2>1. step[c] = "first" /\ SetExpiry(c) /\ step' = [step EXCEPT ![c] = s]
    BY <1>4 DEF Expire
  <2>2. count[c] = 1
    BY <2>1 DEF LimiterInv, StepInv
  <2>3. /\ s \in Steps \ {"idle", "arrived", "first"}
        /\ s = "admitted" => count[c] \in 1 .. Limit
        /\ s = "refused" => Limit < 1
    BY <2>2, LimiterAssumption DEF Verdict, Steps
  <2>4. UNCHANGED <<now, counter, minute, count, dropped>>
    BY <2>1 DEF SetExpiry
  <2> HIDE DEF s
  <2>5. QED
    BY <2>1, <2>3, <2>4, InvWentOn
<1>5. ASSUME NEW c \in Calls, NEW s \in {"open", "dead"}, Ends(c, s) PROVE LimiterInv'
  <2>1. s \in Steps \ {"idle", "arrived", "first", "admitted", "refused"}
        /\ step' = [step EXCEPT ![c] = s]
    BY <1>5 DEF Ends, Steps
  <2>2. CASE step[c] = "arrived" /\ CountCall(c)
    BY <2>1, <2>2, InvCounted
  <2>3. CASE step[c] = "first" /\ SetExpiry(c)
    <3>1. UNCHANGED <<now, counter, minute, count, dropped>>
      BY <2>3 DEF SetExpiry
    <3>2. QED
      BY <2>1, <2>3, <3>1, InvWentOn
  <2>4. CASE step[c] \in {"arrived", "first"}
             /\ UNCHANGED <<now, counter, expiry, minute, count, dropped>>
    BY <2>1, <2>4, InvWentOn
  <2>5. QED
    BY <1>5, <2>2, <2>3, <2>4 DEF Ends
<1>6. CASE UNCHANGED limiterVars
  BY <1>6 DEF limiterVars, LimiterInv, LimiterTypeOK, StepInv, PlacesTaken, PlacesUnique,
     ExpiryInv, CounterOutlivesMinute, RefusedWhenFull, CountersExpire
<1>7. QED
  BY <1>1, <1>2, <1>3, <1>4, <1>5, <1>6
     DEF LimiterNext, LimiterCall, FailOpen, Die

(* The inductive invariant.                                                *)
THEOREM LimiterInvariant == LimiterSpec => []LimiterInv
<1>1. LimiterInit => LimiterInv
  BY InvInit
<1>2. LimiterInv /\ [LimiterNext]_limiterVars => LimiterInv'
  BY InvNext
<1>3. QED
  BY <1>1, <1>2, PTL DEF LimiterSpec

(* The calls admitted in a minute have different counts, none over the     *)
(* limit: there are no more of them than that.                             *)
THEOREM AdmittedWithinLimit == LimiterSpec => []WithinLimit
<1>1. LimiterInv => WithinLimit
  <2> SUFFICES ASSUME LimiterInv, NEW m \in Minutes \ dropped
               PROVE  Cardinality(Admitted(m)) <= Limit
    BY DEF WithinLimit
  <2> DEFINE A == Admitted(m)
             f == [c \in A |-> count[c]]
  <2>1. \A c \in A : c \in Calls /\ minute[c] = m /\ count[c] \in 1 .. Limit
    BY DEF Admitted, LimiterInv, StepInv
  <2>2. \A c, d \in A : count[c] = count[d] => c = d
    BY <2>1 DEF LimiterInv, PlacesUnique
  <2>3. f \in Injection(A, 1 .. Limit)
    BY <2>1, <2>2 DEF Injection, IsInjective
  <2>4. IsFiniteSet(1 .. Limit) /\ Cardinality(1 .. Limit) = Limit
    BY FS_Interval, LimiterAssumption
  <2> HIDE DEF f, A
  <2>5. Cardinality(A) <= Limit
    BY <2>3, <2>4, FS_Injection
  <2>6. QED
    BY <2>5 DEF A
<1>2. QED
  BY <1>1, LimiterInvariant, PTL

(* A refusal has its cause: the places of its minute were given to others. *)
THEOREM RefusalsHaveCauses == LimiterSpec => []RefusedWhenFull
<1>1. LimiterInv => RefusedWhenFull
  BY DEF LimiterInv
<1>2. QED
  BY <1>1, LimiterInvariant, PTL

(* A counter is gone after two minutes, but for the one a failure between  *)
(* INCR and EXPIRE has left; it is not gone before its minute and one more *)
(* are over.                                                               *)
THEOREM CountersLive == LimiterSpec => [](CountersExpire /\ CounterOutlivesMinute)
<1>1. LimiterInv => CountersExpire /\ CounterOutlivesMinute
  BY DEF LimiterInv
<1>2. QED
  BY <1>1, LimiterInvariant, PTL
=============================================================================
