------------------------- MODULE EventIngestionProofs -------------------------
(***************************************************************************)
(* Proofs about EventIngestion, for any finite set of events, any topics   *)
(* of them, any consumers and any number of faults: IngestionInv is        *)
(* inductive, and the safety properties follow from it.                    *)
(***************************************************************************)
EXTENDS EventIngestion, FiniteSetTheorems, SequenceTheorems, TLAPS

-----------------------------------------------------------------------------
(* What consumers hold.                                                    *)

(* The topics of the events.                                               *)
LEMMA TopicFacts ==
  /\ Topics \subseteq AllTopics /\ "none" \notin Topics
  /\ \A e \in Events : TopicOf[e] \in Topics
BY IngestionAssumption DEF Topics, AllTopics

(* The types of what one consumer holds, and of one topic.                 *)
LEMMA HeldTypes ==
  ASSUME IngestionTypeOK, NEW c \in Consumers, NEW t \in Topics
  PROVE  /\ log[t] \in Seq(Events) /\ Len(log[t]) \in Nat
         /\ \A i \in 1 .. Len(log[t]) : log[t][i] \in Events
         /\ committed[t] \in Nat /\ committed[t] <= Len(log[t])
         /\ done[c][t] \in Nat /\ position[c][t] \in Nat
         /\ done[c][t] <= position[c][t] /\ position[c][t] <= Len(log[t])
         /\ topic[c] = t => done[c][t] < position[c][t]
         /\ topic[c] = "none" => done[c][t] = position[c][t]
         /\ topic[c] \in Topics \cup {"none"} /\ (at[c] \in Busy <=> topic[c] # "none")
         /\ done[c] \in [Topics -> Nat] /\ position[c] \in [Topics -> Nat]
<1>1. log[t] \in Seq(Events)
  BY DEF IngestionTypeOK
<1>2. Len(log[t]) \in Nat /\ \A i \in 1 .. Len(log[t]) : log[t][i] \in Events
  BY <1>1
<1>3. QED
  BY <1>1, <1>2 DEF IngestionTypeOK, BatchOK

(* A consumer at work has a record in its hands, of the topic it works on. *)
LEMMA CurrentFacts ==
  ASSUME IngestionTypeOK, NEW c \in Consumers, at[c] \in Busy
  PROVE  /\ topic[c] \in Topics
         /\ done[c][topic[c]] + 1 \in 1 .. Len(log[topic[c]])
         /\ done[c][topic[c]] + 1 <= position[c][topic[c]]
         /\ Current(c) \in Events /\ Current(c) \in Left(c)
         /\ LogInv => TopicOf[Current(c)] = topic[c]
<1>1. topic[c] \in Topics
  <2>1. topic[c] \in Topics \cup {"none"} /\ topic[c] # "none"
    BY DEF IngestionTypeOK, BatchOK
  <2>2. QED
    BY <2>1
<1> DEFINE t == topic[c]
           n == done[c][t]
<1>2. /\ n \in Nat /\ position[c][t] \in Nat /\ Len(log[t]) \in Nat
      /\ n < position[c][t] /\ position[c][t] <= Len(log[t])
  BY <1>1, HeldTypes
<1>3. n + 1 \in 1 .. Len(log[t]) /\ n + 1 <= position[c][t] /\ n + 1 \in n + 1 .. position[c][t]
  BY <1>2
<1>4. Current(c) = log[t][n + 1]
  BY DEF Current
<1>5. Current(c) \in Events
  BY <1>1, <1>3, <1>4, HeldTypes
<1>6. Current(c) \in Left(c)
  BY <1>1, <1>3, <1>4 DEF Left, Records
<1>7. LogInv => TopicOf[Current(c)] = t
  BY <1>1, <1>3, <1>4 DEF LogInv
<1>8. QED
  BY <1>1, <1>3, <1>5, <1>6, <1>7

(* What a consumer has left are records of its topics after done.          *)
LEMMA LeftFacts ==
  ASSUME IngestionTypeOK, NEW c \in Consumers
  PROVE  /\ \A e : e \in Left(c) <=>
              \E t \in Topics : \E i \in done[c][t] + 1 .. position[c][t] : e = log[t][i]
         /\ Left(c) \subseteq Events
<1>1. \A e : e \in Left(c) <=>
        \E t \in Topics : \E i \in done[c][t] + 1 .. position[c][t] : e = log[t][i]
  BY DEF Left, Records
<1>2. ASSUME NEW t \in Topics, NEW i \in done[c][t] + 1 .. position[c][t]
      PROVE  log[t][i] \in Events
  <2>1. i \in 1 .. Len(log[t])
    BY HeldTypes
  <2>2. QED
    BY <2>1, HeldTypes
<1>3. QED
  BY <1>1, <1>2

(* The values that the steps write have the types they should have.        *)
LEMMA Values ==
  /\ NoFields \in Fields /\ NoOffsets \in [Topics -> Nat]
  /\ \A t \in Topics : NoOffsets[t] = 0
BY DEF NoFields, Fields, NoOffsets

(* What a producer appends.                                                *)
LEMMA Appended ==
  ASSUME IngestionTypeOK, LogInv, NEW e \in Events,
         \/ log' = [log EXCEPT ![TopicOf[e]] = Append(@, e)]
         \/ log' = [log EXCEPT ![TopicOf[e]] = @ \o <<e, e>>]
  PROVE  /\ log' \in [Topics -> Seq(Events)]
         /\ \A t \in Topics :
              /\ Len(log[t]) <= Len(log'[t])
              /\ \A i \in 1 .. Len(log[t]) : log'[t][i] = log[t][i]
         /\ LogInv'
<1>1. TopicOf[e] \in Topics /\ log \in [Topics -> Seq(Events)]
  BY TopicFacts DEF IngestionTypeOK
<1>2. PICK s \in {<<e>>, <<e, e>>} : log' = [log EXCEPT ![TopicOf[e]] = @ \o s]
  <2>1. Append(log[TopicOf[e]], e) = log[TopicOf[e]] \o <<e>>
    BY <1>1, AppendIsConcat
  <2>2. QED
    BY <1>1, <2>1
<1>3. s \in Seq(Events) /\ Len(s) \in {1, 2} /\ \A i \in 1 .. Len(s) : s[i] = e
  <2>1. CASE s = <<e>>
    BY <2>1
  <2>2. CASE s = <<e, e>>
    BY <2>2
  <2>3. QED
    BY <1>2, <2>1, <2>2
<1>4. ASSUME NEW t \in Topics
      PROVE  /\ log'[t] \in Seq(Events)
             /\ Len(log[t]) <= Len(log'[t])
             /\ \A i \in 1 .. Len(log[t]) : log'[t][i] = log[t][i]
             /\ \A i \in 1 .. Len(log'[t]) : TopicOf[log'[t][i]] = t
  <2>1. log[t] \in Seq(Events) /\ Len(log[t]) \in Nat
    BY <1>1
  <2>2. CASE t # TopicOf[e]
    <3>1. log'[t] = log[t]
      BY <1>1, <1>2, <2>2
    <3>2. QED
      BY <2>1, <3>1 DEF LogInv
  <2>3. CASE t = TopicOf[e]
    <3>1. log'[t] = log[t] \o s
      BY <1>1, <1>2, <2>3
    <3>2. /\ log'[t] \in Seq(Events) /\ Len(log'[t]) = Len(log[t]) + Len(s)
          /\ \A i \in 1 .. Len(log[t]) + Len(s) :
               log'[t][i] = IF i <= Len(log[t]) THEN log[t][i] ELSE s[i - Len(log[t])]
      BY <1>3, <2>1, <3>1, ConcatProperties
    <3>3. \A i \in 1 .. Len(log'[t]) :
            i \in 1 .. Len(log[t]) \/ i - Len(log[t]) \in 1 .. Len(s)
      BY <1>3, <2>1, <3>2
    <3>4. ASSUME NEW i \in 1 .. Len(log'[t])
          PROVE  TopicOf[log'[t][i]] = t
      <4>1. CASE i <= Len(log[t])
        BY <2>1, <3>2, <4>1 DEF LogInv
      <4>2. CASE ~(i <= Len(log[t]))
        <5>1. i - Len(log[t]) \in 1 .. Len(s)
          BY <2>1, <3>3, <4>2
        <5>2. log'[t][i] = e
          BY <1>3, <2>1, <3>2, <4>2, <5>1
        <5>3. QED
          BY <2>3, <5>2
      <4>3. QED
        BY <4>1, <4>2
    <3>5. \A i \in 1 .. Len(log[t]) : log'[t][i] = log[t][i]
      BY <1>3, <2>1, <3>2
    <3>6. QED
      BY <1>3, <2>1, <3>2, <3>4, <3>5
  <2>4. QED
    BY <2>2, <2>3
<1>5. QED
  BY <1>1, <1>2, <1>4 DEF LogInv

(* How the steps leave the logs and the stores: they only grow.            *)
Grows ==
  /\ \A t \in Topics :
       /\ committed[t] <= committed'[t] /\ Len(log[t]) <= Len(log'[t])
       /\ \A i \in 1 .. Len(log[t]) : log'[t][i] = log[t][i]
  /\ table \subseteq table' /\ table \cup dlq \cup lost \subseteq (table \cup dlq \cup lost)'

(* A consumer that goes on with the record it has.                         *)
Keeps(x) == /\ topic'[x] = topic[x] /\ done'[x] = done[x] /\ position'[x] = position[x]
Rests(x) == Keeps(x) /\ at'[x] = at[x] /\ outbox'[x] = outbox[x] /\ reading'[x] = reading[x]

(* The batch of a consumer that goes on with it is still one.              *)
LEMMA BatchKept ==
  ASSUME IngestionTypeOK, Grows, NEW x \in Consumers, Keeps(x),
         at'[x] \in Busy <=> at[x] \in Busy,
         \A t \in Topics : Len(log'[t]) \in Nat
  PROVE  BatchOK(x)'
<1>1. ASSUME NEW t \in Topics
      PROVE  /\ done'[x][t] <= position'[x][t] /\ position'[x][t] <= Len(log'[t])
             /\ topic'[x] = t => done'[x][t] < position'[x][t]
             /\ topic'[x] = "none" => done'[x][t] = position'[x][t]
  BY HeldTypes DEF Grows, Keeps
<1>2. at'[x] \in Busy <=> topic'[x] # "none"
  BY DEF Keeps, IngestionTypeOK, BatchOK
<1>3. QED
  BY <1>1, <1>2 DEF BatchOK

(* Its current record is the same.                                         *)
LEMMA CurrentKept ==
  ASSUME IngestionTypeOK, Grows, NEW x \in Consumers, Keeps(x), at[x] \in Busy
  PROVE  Current(x)' = Current(x)
BY CurrentFacts DEF Current, Keeps, Grows

(* And so is what it has left.                                             *)
LEMMA LeftKept ==
  ASSUME IngestionTypeOK, Grows, NEW x \in Consumers, Keeps(x)
  PROVE  Left(x)' = Left(x)
<1>1. ASSUME NEW t \in Topics, NEW i \in done[x][t] + 1 .. position[x][t]
      PROVE  log'[t][i] = log[t][i]
  <2>1. i \in 1 .. Len(log[t])
    BY HeldTypes
  <2>2. QED
    BY <2>1 DEF Grows
<1>2. ASSUME NEW t \in Topics
      PROVE  Records(t, done[x][t], position[x][t])' = Records(t, done[x][t], position[x][t])
  BY <1>1, <1>2 DEF Records, Keeps
<1>3. QED
  BY <1>2 DEF Left, Keeps

-----------------------------------------------------------------------------
(* Types.                                                                  *)

(* The budget of faults.                                                   *)
LEMMA FaultsTyped ==
  ASSUME IngestionTypeOK, Fault \/ faults' = faults
  PROVE  faults' \in 0 .. MaxFaults
BY IngestionAssumption DEF Fault, IngestionTypeOK

(* Producers append to a log.                                              *)
LEMMA ProducersTyped ==
  ASSUME IngestionTypeOK, LogInv, NEW e \in Events,
         Produce(e) \/ ProduceTwice(e) \/ ProduceFlawed(e)
  PROVE  IngestionTypeOK' /\ LogInv' /\ Grows
<1>1. /\ log' = [log EXCEPT ![TopicOf[e]] = Append(@, e)]
         \/ log' = [log EXCEPT ![TopicOf[e]] = @ \o <<e, e>>]
      /\ UNCHANGED <<committed, owner, workerVars, storeVars, pastVars>>
  BY DEF Produce, ProduceTwice, ProduceFlawed
<1>2. /\ log' \in [Topics -> Seq(Events)] /\ LogInv'
      /\ \A t \in Topics :
           /\ Len(log[t]) <= Len(log'[t])
           /\ \A i \in 1 .. Len(log[t]) : log'[t][i] = log[t][i]
  BY <1>1, Appended
<1>3. flaw' \in [Events -> {"none", "malformed", "invalid"}] /\ faults' \in 0 .. MaxFaults
  <2>1. flaw' \in [Events -> {"none", "malformed", "invalid"}]
    <3>1. CASE ProduceFlawed(e)
      BY <3>1 DEF ProduceFlawed, IngestionTypeOK
    <3>2. CASE Produce(e) \/ ProduceTwice(e)
      BY <3>2 DEF Produce, ProduceTwice, IngestionTypeOK
    <3>3. QED
      BY <3>1, <3>2
  <2>2. QED
    BY <2>1, FaultsTyped DEF Produce, ProduceTwice, ProduceFlawed
<1>4. Grows
  <2>1. \A t \in Topics : committed[t] \in Nat
    BY DEF IngestionTypeOK
  <2>2. QED
    BY <1>1, <1>2, <2>1 DEF Grows, storeVars, pastVars
<1>5. \A t \in Topics : Len(log'[t]) \in Nat /\ committed[t] <= Len(log'[t])
  <2>1. \A t \in Topics : log'[t] \in Seq(Events) /\ log[t] \in Seq(Events)
    BY <1>2 DEF IngestionTypeOK
  <2>2. \A t \in Topics : Len(log'[t]) \in Nat /\ Len(log[t]) \in Nat
    BY <2>1
  <2>3. \A t \in Topics : committed[t] \in Nat /\ committed[t] <= Len(log[t])
    BY DEF IngestionTypeOK
  <2>4. QED
    BY <1>2, <2>2, <2>3
<1>6. \A c \in Consumers : BatchOK(c)'
  BY <1>1, <1>4, <1>5, BatchKept DEF Keeps, workerVars
<1>7. QED
  BY <1>1, <1>2, <1>3, <1>4, <1>5, <1>6
  DEF IngestionTypeOK, workerVars, storeVars, pastVars

(* Topics change hands between the batches of their new owner.             *)
LEMMA MembersTyped ==
  ASSUME IngestionTypeOK, NEW c \in Consumers, NEW t,
         Start(c) \/ Evict(c) \/ (t \in Topics /\ Assign(c, t))
  PROVE  IngestionTypeOK' /\ Grows
<1>1. UNCHANGED <<log, flaw, committed, reading, outbox, topic, storeVars, lost, uncounted>>
  BY DEF Start, Evict, Assign, workerVars, pastVars
<1>2. /\ owner' \in [Topics -> Consumers \cup {"none"}] /\ faults' \in 0 .. MaxFaults
      /\ overlapped' \in BOOLEAN
  <2>1. owner' \in [Topics -> Consumers \cup {"none"}]
    BY DEF Start, Evict, Assign, WithoutOwner, IngestionTypeOK
  <2>2. overlapped' \in BOOLEAN
    BY DEF Start, Evict, Assign, IngestionTypeOK, pastVars
  <2>3. QED
    BY <2>1, <2>2, FaultsTyped DEF Start, Evict, Assign
<1>3. \A u \in Topics : Len(log[u]) \in Nat /\ committed[u] \in Nat /\ committed[u] <= Len(log[u])
  BY HeldTypes
<1>4. Grows
  BY <1>1, <1>3 DEF Grows, storeVars
<1>5. /\ at' \in [Consumers -> Busy \cup {"down", "polling"}]
      /\ \A x \in Consumers : at'[x] \in Busy <=> at[x] \in Busy
  BY DEF Start, Evict, Assign, workerVars, IngestionTypeOK, Busy
<1>6. /\ done' \in [Consumers -> [Topics -> Nat]] /\ position' \in [Consumers -> [Topics -> Nat]]
      /\ \A x \in Consumers : Keeps(x) \/
           /\ x = c /\ at[c] = "polling" /\ at'[c] = "polling" /\ done'[c] = position'[c]
           /\ position'[c] = [position[c] EXCEPT ![t] = committed[t]]
  <2>1. CASE t \in Topics /\ Assign(c, t)
    <3>1. [position[c] EXCEPT ![t] = committed[t]] \in [Topics -> Nat]
      BY <1>3, <2>1 DEF IngestionTypeOK
    <3>2. QED
      BY <2>1, <3>1 DEF Assign, Keeps, IngestionTypeOK
  <2>2. CASE Start(c) \/ Evict(c)
    BY <2>2 DEF Start, Evict, Keeps, workerVars, IngestionTypeOK
  <2>3. QED
    BY <2>1, <2>2
<1>7. ASSUME NEW x \in Consumers
      PROVE  BatchOK(x)'
  <2>1. CASE Keeps(x)
    BY <1>1, <1>3, <1>4, <1>5, <2>1, BatchKept
  <2>2. CASE ~Keeps(x)
    <3>1. /\ x = c /\ at'[c] = "polling" /\ topic'[c] = topic[c] /\ topic[c] = "none"
          /\ done'[c] = position'[c] /\ position'[c] = [position[c] EXCEPT ![t] = committed[t]]
      BY <1>1, <1>6, <2>2 DEF IngestionTypeOK, BatchOK, Busy
    <3>2. ASSUME NEW u \in Topics
          PROVE  position'[c][u] <= Len(log[u]) /\ done'[c][u] = position'[c][u] /\ position'[c][u] \in Nat
      BY <1>3, <3>1, HeldTypes
    <3>3. QED
      BY <1>1, <3>1, <3>2, TopicFacts DEF BatchOK, Busy
  <2>3. QED
    BY <2>1, <2>2
<1>8. {done, position}' \subseteq [Consumers -> [Topics -> Nat]]
  BY <1>6
<1>9. QED
  BY <1>1, <1>2, <1>3, <1>4, <1>5, <1>7, <1>8 DEF IngestionTypeOK, storeVars

(* A poll reaches no further than the log.                                 *)
LEMMA PollTyped ==
  ASSUME IngestionTypeOK, NEW c \in Consumers, Poll(c)
  PROVE  IngestionTypeOK' /\ Grows
<1>1. PICK reached \in [Topics -> 0 .. Max({Len(log[t]) : t \in Topics})], first \in Topics :
        /\ \A t \in Topics : reached[t] \in position[c][t] .. Len(log[t])
        /\ reached[first] > position[c][first]
        /\ position' = [position EXCEPT ![c] = reached]
        /\ topic' = [topic EXCEPT ![c] = first]
  BY DEF Poll
<1>2. /\ at' = [at EXCEPT ![c] = "handling"] /\ at[c] = "polling"
      /\ UNCHANGED <<kafkaVars, reading, outbox, done, storeVars, faults, pastVars>>
  BY DEF Poll
<1>3. \A t \in Topics :
        /\ Len(log[t]) \in Nat /\ committed[t] \in Nat /\ committed[t] <= Len(log[t])
        /\ position[c][t] \in Nat /\ done[c][t] \in Nat
        /\ done[c][t] = position[c][t]
  <2>1. topic[c] = "none"
    BY <1>2 DEF IngestionTypeOK, BatchOK, Busy
  <2>2. QED
    BY <2>1, HeldTypes
<1>4. Grows
  BY <1>2, <1>3 DEF Grows, kafkaVars, storeVars, pastVars
<1>5. reached \in [Topics -> Nat] /\ \A t \in Topics : reached[t] \in Nat
  BY <1>1, <1>3
<1>6. ASSUME NEW x \in Consumers
      PROVE  BatchOK(x)'
  <2>1. CASE x # c
    <3>1. Keeps(x) /\ at'[x] = at[x]
      BY <1>1, <1>2, <2>1 DEF Keeps, IngestionTypeOK
    <3>2. QED
      BY <1>2, <1>3, <1>4, <3>1, BatchKept DEF kafkaVars
  <2>2. CASE x = c
    <3>1. topic'[c] = first /\ position'[c] = reached /\ at'[c] = "handling" /\ done'[c] = done[c]
      BY <1>1, <1>2 DEF IngestionTypeOK
    <3>2. ASSUME NEW t \in Topics
          PROVE  /\ done[c][t] <= reached[t] /\ reached[t] <= Len(log[t])
                 /\ first = t => done[c][t] < reached[t]
      BY <1>1, <1>3
    <3>3. QED
      BY <1>2, <2>2, <3>1, <3>2, TopicFacts DEF BatchOK, Busy, kafkaVars
  <2>3. QED
    BY <2>1, <2>2
<1>7. /\ at' \in [Consumers -> Busy \cup {"down", "polling"}]
      /\ topic' \in [Consumers -> Topics \cup {"none"}]
  BY <1>1, <1>2 DEF IngestionTypeOK, Busy
<1>8. {done, position}' \subseteq [Consumers -> [Topics -> Nat]]
  BY <1>1, <1>2, <1>5 DEF IngestionTypeOK
<1>9. QED
  BY <1>2, <1>4, <1>6, <1>7, <1>8 DEF IngestionTypeOK, kafkaVars, storeVars, pastVars

(* The steps that handle a record, and the sender of dead letters.         *)
Handling(c) ==
  \/ Reject(c) \/ RegistryFails(c) \/ Insert(c) \/ ReadProfile(c) \/ UpdateProfile(c)
  \/ RedisFails(c) \/ DeadLetterSent(c) \/ DeadLetterFails(c)

(* What the pipeline sets has the types of a profile.                      *)
LEMMA UpdatedTyped ==
  ASSUME IngestionTypeOK, NEW c \in Consumers, at[c] \in Busy
  PROVE  Updated(c) \in [count : [AllTopics -> Nat], fields : Fields]
<1>1. /\ Current(c) \in Events /\ TopicOf[Current(c)] \in AllTopics
  BY CurrentFacts, TopicFacts
<1>2. /\ profile.count \in [AllTopics -> Nat] /\ profile.fields.total \in Nat
      /\ profile.fields.categories \in SUBSET Events
      /\ reading[c].total \in Nat /\ reading[c].categories \in SUBSET Events
  BY DEF IngestionTypeOK, Fields
<1>3. [profile.count EXCEPT ![TopicOf[Current(c)]] = @ + 1] \in [AllTopics -> Nat]
  BY <1>1, <1>2
<1>4. NewFields(c).total \in Nat /\ NewFields(c).categories \in SUBSET Events
  BY <1>1, <1>2 DEF NewFields
<1>5. QED
  BY <1>2, <1>3, <1>4 DEF Updated, Fields

(* They leave the log and the batches alone.                               *)
LEMMA HandlingFacts ==
  ASSUME IngestionTypeOK, NEW c \in Consumers, Handling(c)
  PROVE  /\ UNCHANGED <<kafkaVars, topic, done, position, overlapped>>
         /\ at' \in [Consumers -> Busy \cup {"down", "polling"}]
         /\ at'[c] \in Busy <=> at[c] \in Busy
         /\ \A x \in Consumers : x # c => Rests(x)
         /\ \A x \in Consumers : Keeps(x)
         /\ Grows
<1>1. UNCHANGED <<kafkaVars, topic, done, position, overlapped>>
  BY DEF Handling, Reject, RegistryFails, Insert, ReadProfile, UpdateProfile, RedisFails,
         DeadLetterSent, DeadLetterFails, SendToDlq, pastVars
<1>2. \/ at' = at
      \/ \E to \in Busy : at[c] \in Busy /\ at' = [at EXCEPT ![c] = to]
  <2>1. \A e : AfterInsert(e) \in Busy
    BY DEF AfterInsert, Busy
  <2>2. QED
    BY <2>1 DEF Handling, Reject, RegistryFails, Insert, ReadProfile, UpdateProfile, RedisFails,
         DeadLetterSent, DeadLetterFails, SendToDlq, Step, Busy
<1>3. /\ at' \in [Consumers -> Busy \cup {"down", "polling"}]
      /\ at'[c] \in Busy <=> at[c] \in Busy
      /\ \A x \in Consumers : x # c => at'[x] = at[x]
  <2>1. at \in [Consumers -> Busy \cup {"down", "polling"}]
    BY DEF IngestionTypeOK
  <2>2. CASE at' = at
    BY <2>1, <2>2
  <2>3. ASSUME NEW to \in Busy, at[c] \in Busy, at' = [at EXCEPT ![c] = to]
        PROVE  /\ at' \in [Consumers -> Busy \cup {"down", "polling"}]
               /\ at'[c] \in Busy /\ \A x \in Consumers : x # c => at'[x] = at[x]
    BY <2>1, <2>3
  <2>4. QED
    BY <1>2, <2>2, <2>3
<1>4. \A x \in Consumers : x # c => outbox'[x] = outbox[x] /\ reading'[x] = reading[x]
  BY DEF Handling, Reject, RegistryFails, Insert, ReadProfile, UpdateProfile, RedisFails,
         DeadLetterSent, DeadLetterFails, SendToDlq, IngestionTypeOK
<1>5. \A x \in Consumers : Keeps(x)
  BY <1>1 DEF Keeps
<1>6. table \subseteq table' /\ dlq \subseteq dlq' /\ lost \subseteq lost'
  BY DEF Handling, Reject, RegistryFails, Insert, ReadProfile, UpdateProfile, RedisFails,
         DeadLetterSent, DeadLetterFails, SendToDlq, storeVars, pastVars
<1>7. Grows
  <2>1. \A t \in Topics : Len(log[t]) \in Nat /\ committed[t] \in Nat
    BY HeldTypes
  <2>2. QED
    BY <1>1, <1>6, <2>1 DEF Grows, kafkaVars
<1>8. QED
  BY <1>1, <1>3, <1>4, <1>5, <1>7 DEF Rests

LEMMA HandlingTyped ==
  ASSUME IngestionTypeOK, NEW c \in Consumers, Handling(c)
  PROVE  IngestionTypeOK'
<1>1. /\ UNCHANGED <<kafkaVars, topic, done, position, overlapped>>
      /\ at' \in [Consumers -> Busy \cup {"down", "polling"}]
      /\ at'[c] \in Busy <=> at[c] \in Busy
      /\ \A x \in Consumers : x # c => Rests(x)
      /\ \A x \in Consumers : Keeps(x)
      /\ Grows
  BY HandlingFacts
<1>2. \A t \in Topics : Len(log'[t]) \in Nat /\ committed'[t] \in Nat /\ committed'[t] <= Len(log'[t])
  <2>1. \A t \in Topics : Len(log[t]) \in Nat /\ committed[t] \in Nat /\ committed[t] <= Len(log[t])
    BY HeldTypes
  <2>2. QED
    BY <1>1, <2>1 DEF kafkaVars
<1>3. \A x \in Consumers : BatchOK(x)'
  BY <1>1, <1>2, BatchKept DEF Rests
<1>4. at[c] \in Busy => Current(c) \in Events
  BY CurrentFacts
<1>5. \/ DeadLetterSent(c) \/ DeadLetterFails(c) \/ at[c] \in Busy
  BY DEF Handling, Reject, RegistryFails, Insert, ReadProfile, UpdateProfile, RedisFails,
         SendToDlq, Step, Busy
<1>6. reading' \in [Consumers -> Fields]
  <2>1. profile.fields \in Fields
    BY DEF IngestionTypeOK
  <2>2. QED
    BY <2>1, Values
    DEF Handling, Reject, RegistryFails, Insert, ReadProfile, UpdateProfile, RedisFails,
         DeadLetterSent, DeadLetterFails, SendToDlq, IngestionTypeOK
<1>7. outbox' \in [Consumers -> SUBSET Events]
  BY <1>4, <1>5
  DEF Handling, Reject, RegistryFails, Insert, ReadProfile, UpdateProfile, RedisFails,
         DeadLetterSent, DeadLetterFails, SendToDlq, IngestionTypeOK
<1>8. {table, dlq, lost, uncounted}' \subseteq SUBSET Events
  <2>1. outbox[c] \subseteq Events /\ {table, dlq, lost, uncounted} \subseteq SUBSET Events
    BY DEF IngestionTypeOK
  <2>2. QED
    BY <1>4, <1>5, <2>1
    DEF Handling, Reject, RegistryFails, Insert, ReadProfile, UpdateProfile, RedisFails,
         DeadLetterSent, DeadLetterFails, SendToDlq, storeVars, pastVars
<1>9. profile' \in [count : [AllTopics -> Nat], fields : Fields]
  <2>1. profile' \in {profile, Updated(c)}
    BY DEF Handling, Reject, RegistryFails, Insert, ReadProfile, UpdateProfile, RedisFails,
         DeadLetterSent, DeadLetterFails, SendToDlq, storeVars
  <2>2. profile' = profile \/ at[c] \in Busy
    BY <1>5 DEF DeadLetterSent, DeadLetterFails, storeVars
  <2>3. QED
    BY <2>1, <2>2, UpdatedTyped DEF IngestionTypeOK
<1>10. faults' \in 0 .. MaxFaults
  BY FaultsTyped
  DEF Handling, Reject, RegistryFails, Insert, ReadProfile, UpdateProfile, RedisFails,
         DeadLetterSent, DeadLetterFails
<1>11. QED
  BY <1>1, <1>2, <1>3, <1>6, <1>7, <1>8, <1>9, <1>10 DEF IngestionTypeOK, kafkaVars

(* The steps that end a consumer.                                          *)
Stopping(c) ==
  \/ Shutdown(c) \/ Kill(c) \/ Refuse(c) \/ InsertFails(c) \/ CommitRefused(c) \/ CommitFails(c)

(* The position of its topics is what a consumer commits.                  *)
LEMMA CommittedByTyped ==
  ASSUME IngestionTypeOK, NEW c \in Consumers, at[c] # "down", ConsumerInv(c)
  PROVE  /\ CommittedBy(c) \in [Topics -> Nat]
         /\ \A t \in Topics : committed[t] <= CommittedBy(c)[t] /\ CommittedBy(c)[t] <= Len(log[t])
<1>1. ASSUME NEW t \in Topics
      PROVE  /\ CommittedBy(c)[t] \in Nat
             /\ committed[t] <= CommittedBy(c)[t] /\ CommittedBy(c)[t] <= Len(log[t])
  BY HeldTypes DEF CommittedBy, ConsumerInv
<1>2. QED
  BY <1>1 DEF CommittedBy

(* What all of them have in common. Only a failed commit moves offsets.    *)
LEMMA StoppingFacts ==
  ASSUME IngestionTypeOK, NEW c \in Consumers, Stopping(c)
  PROVE  /\ at[c] # "down" /\ UNCHANGED <<log, flaw, profile, overlapped>>
         /\ owner' \in {owner, WithoutOwner(c)}
         /\ \E gone \in {{}, outbox[c]} :
              CutOff(c, gone, committed') /\ outbox[c] \subseteq gone \cup dlq'
         /\ dlq' \in {dlq, dlq \cup outbox[c]}
         /\ table' = table \/ (at[c] = "handling" /\ table' = table \cup {Current(c)})
         /\ committed' = committed \/ (at[c] = "committing" /\ committed' = CommittedBy(c))
         /\ Fault \/ faults' = faults
<1>1. CASE Kill(c)
  BY <1>1 DEF Kill, kafkaVars, storeVars
<1>2. CASE Shutdown(c)
  BY <1>2 DEF Shutdown, Stop
<1>3. CASE Refuse(c)
  BY <1>3 DEF Refuse, Stop
<1>4. CASE InsertFails(c)
  BY <1>4 DEF InsertFails, Stop
<1>5. CASE CommitRefused(c)
  BY <1>5 DEF CommitRefused, Stop
<1>6. CASE CommitFails(c)
  BY <1>6 DEF CommitFails, Stop
<1>7. QED
  BY <1>1, <1>2, <1>3, <1>4, <1>5, <1>6 DEF Stopping

LEMMA StoppingTyped ==
  ASSUME IngestionTypeOK, NEW c \in Consumers, ConsumerInv(c), Stopping(c)
  PROVE  /\ IngestionTypeOK' /\ Grows
         /\ \A x \in Consumers : x # c => Rests(x)
<1>1. /\ at[c] # "down" /\ UNCHANGED <<log, flaw, profile, overlapped>>
      /\ owner' \in {owner, WithoutOwner(c)}
      /\ dlq' \in {dlq, dlq \cup outbox[c]}
      /\ table' = table \/ (at[c] = "handling" /\ table' = table \cup {Current(c)})
      /\ committed' = committed \/ committed' = CommittedBy(c)
      /\ Fault \/ faults' = faults
  BY StoppingFacts
<1>2. PICK gone \in {{}, outbox[c]} : CutOff(c, gone, committed')
  BY StoppingFacts
<1>3. /\ committed' \in [Topics -> Nat]
      /\ \A t \in Topics : /\ Len(log[t]) \in Nat /\ committed'[t] \in Nat
                            /\ committed[t] <= committed'[t] /\ committed'[t] <= Len(log[t])
  <2>1. \A t \in Topics :
          Len(log[t]) \in Nat /\ committed[t] \in Nat /\ committed[t] <= Len(log[t])
    BY HeldTypes
  <2>2. committed \in [Topics -> Nat]
    BY DEF IngestionTypeOK
  <2>3. QED
    BY <1>1, <2>1, <2>2, CommittedByTyped
<1>4. /\ at' = [at EXCEPT ![c] = "down"] /\ outbox' = [outbox EXCEPT ![c] = {}]
      /\ reading' = [reading EXCEPT ![c] = NoFields] /\ topic' = [topic EXCEPT ![c] = "none"]
      /\ done' = [done EXCEPT ![c] = NoOffsets] /\ position' = [position EXCEPT ![c] = NoOffsets]
  BY <1>2 DEF CutOff
<1>5. \A x \in Consumers : x # c => Rests(x)
  BY <1>4 DEF Rests, Keeps, IngestionTypeOK
<1>6. Grows
  BY <1>1, <1>2, <1>3 DEF Grows, CutOff
<1>7. ASSUME NEW x \in Consumers
      PROVE  BatchOK(x)'
  <2>1. CASE x # c
    BY <1>1, <1>3, <1>5, <1>6, <2>1, BatchKept DEF Rests
  <2>2. CASE x = c
    <3>1. /\ at'[c] = "down" /\ topic'[c] = "none"
          /\ done'[c] = NoOffsets /\ position'[c] = NoOffsets
      BY <1>4 DEF IngestionTypeOK
    <3>2. QED
      BY <1>1, <1>3, <2>2, <3>1, Values, TopicFacts DEF BatchOK, Busy
  <2>3. QED
    BY <2>1, <2>2
<1>8. /\ at' \in [Consumers -> Busy \cup {"down", "polling"}]
      /\ topic' \in [Consumers -> Topics \cup {"none"}]
      /\ outbox' \in [Consumers -> SUBSET Events]
  BY <1>4 DEF IngestionTypeOK
<1>9. reading' \in [Consumers -> Fields]
  BY <1>4, Values DEF IngestionTypeOK
<1>10. {done, position}' \subseteq [Consumers -> [Topics -> Nat]]
  BY <1>4, Values DEF IngestionTypeOK
<1>11. at[c] \in Busy => Current(c) \in Events
  BY CurrentFacts
<1>12. {table, dlq, lost, uncounted}' \subseteq SUBSET Events
  <2>1. Left(c) \subseteq Events /\ gone \subseteq Events /\ outbox[c] \subseteq Events
    BY LeftFacts DEF IngestionTypeOK
  <2>2. {table, dlq, lost, uncounted} \subseteq SUBSET Events
    BY DEF IngestionTypeOK
  <2>3. table' \subseteq Events /\ dlq' \subseteq Events
    BY <1>1, <1>11, <2>1, <2>2 DEF Busy
  <2>4. lost' \subseteq Events /\ uncounted' \subseteq Events
    BY <1>2, <1>11, <2>1, <2>2 DEF CutOff, Busy
  <2>5. QED
    BY <2>3, <2>4
<1>13. owner' \in [Topics -> Consumers \cup {"none"}] /\ faults' \in 0 .. MaxFaults
  BY <1>1, FaultsTyped DEF IngestionTypeOK, WithoutOwner
<1>14. QED
  BY <1>1, <1>3, <1>5, <1>6, <1>7, <1>8, <1>9, <1>10, <1>12, <1>13 DEF IngestionTypeOK

(* A commit makes the next record of the batch the current one.            *)
LEMMA CommitTyped ==
  ASSUME IngestionTypeOK, NEW c \in Consumers, ConsumerInv(c), Commit(c)
  PROVE  /\ IngestionTypeOK' /\ Grows
         /\ \A x \in Consumers : x # c => Rests(x)
<1>1. /\ at[c] = "committing" /\ committed' = CommittedBy(c)
      /\ done' = [done EXCEPT ![c] = Handled(c)]
      /\ UNCHANGED <<log, flaw, owner, reading, outbox, position, storeVars, faults, pastVars>>
  BY DEF Commit
<1>2. PICK u \in NextTopics(c) :
        /\ topic' = [topic EXCEPT ![c] = u]
        /\ at' = [at EXCEPT ![c] = IF u = "none" THEN "polling" ELSE "handling"]
  BY DEF Commit
<1>3. /\ topic[c] \in Topics /\ done[c] \in [Topics -> Nat] /\ position[c] \in [Topics -> Nat]
      /\ done[c][topic[c]] + 1 <= position[c][topic[c]]
  BY <1>1, CurrentFacts DEF Busy, IngestionTypeOK
<1>4. /\ Handled(c) \in [Topics -> Nat]
      /\ \A t \in Topics :
           /\ Handled(c)[t] = IF t = topic[c] THEN done[c][t] + 1 ELSE done[c][t]
           /\ Handled(c)[t] <= position[c][t]
  <2>1. Handled(c) = [done[c] EXCEPT ![topic[c]] = done[c][topic[c]] + 1]
    BY DEF Handled
  <2>2. Handled(c) \in [Topics -> Nat]
    BY <1>3, <2>1
  <2>3. ASSUME NEW t \in Topics
        PROVE  /\ Handled(c)[t] = IF t = topic[c] THEN done[c][t] + 1 ELSE done[c][t]
               /\ Handled(c)[t] <= position[c][t]
    BY <1>3, <2>1, HeldTypes
  <2>4. QED
    BY <2>2, <2>3
<1>5. /\ u \in Topics \cup {"none"}
      /\ \A t \in Topics : u = t => Handled(c)[t] < position[c][t]
      /\ u = "none" => \A t \in Topics : Handled(c)[t] = position[c][t]
  <2> DEFINE rest == {t \in Topics : Handled(c)[t] < position[c][t]}
  <2>1. u \in rest \/ (u = "none" /\ rest = {})
    BY <1>2 DEF NextTopics
  <2>2. \A t \in Topics : Handled(c)[t] \in Nat /\ position[c][t] \in Nat
    BY <1>3, <1>4
  <2>3. QED
    BY <1>4, <2>1, <2>2, TopicFacts
<1>6. /\ committed' \in [Topics -> Nat]
      /\ \A t \in Topics : /\ Len(log[t]) \in Nat /\ committed'[t] \in Nat
                            /\ committed[t] <= committed'[t] /\ committed'[t] <= Len(log[t])
  BY <1>1, CommittedByTyped, HeldTypes
<1>7. Grows
  BY <1>1, <1>6 DEF Grows, storeVars, pastVars
<1>8. \A x \in Consumers : x # c => Rests(x)
  BY <1>1, <1>2 DEF Rests, Keeps, IngestionTypeOK
<1>9. ASSUME NEW x \in Consumers
      PROVE  BatchOK(x)'
  <2>1. CASE x # c
    BY <1>1, <1>6, <1>7, <1>8, <2>1, BatchKept DEF Rests
  <2>2. CASE x = c
    <3>1. /\ at'[c] = IF u = "none" THEN "polling" ELSE "handling"
          /\ topic'[c] = u /\ done'[c] = Handled(c) /\ position'[c] = position[c]
      BY <1>1, <1>2 DEF IngestionTypeOK
    <3>2. \A t \in Topics : position[c][t] <= Len(log[t])
      BY HeldTypes
    <3>3. QED
      BY <1>1, <1>4, <1>5, <2>2, <3>1, <3>2 DEF BatchOK, Busy
  <2>3. QED
    BY <2>1, <2>2
<1>10. /\ at' \in [Consumers -> Busy \cup {"down", "polling"}]
       /\ topic' \in [Consumers -> Topics \cup {"none"}]
  BY <1>2, <1>5 DEF IngestionTypeOK, Busy
<1>11. {done, position}' \subseteq [Consumers -> [Topics -> Nat]]
  BY <1>1, <1>4 DEF IngestionTypeOK
<1>12. QED
  BY <1>1, <1>6, <1>7, <1>8, <1>9, <1>10, <1>11 DEF IngestionTypeOK, storeVars, pastVars

-----------------------------------------------------------------------------
(* Nothing unaccounted.                                                    *)

(* What a consumer is to have done with its record, and where it stands.   *)
AtWork(c) ==
  /\ at[c] \in {"reading", "updating"} => Current(c) \in table \ Ends
  /\ at[c] = "committing" => Accounted(Current(c)) \/ Current(c) \in outbox[c]
  /\ \A t \in Topics : at[c] # "down" /\ owner[t] = c => committed[t] <= position[c][t]

(* What it has passed and not committed is accounted for, or in its hands. *)
HasPassed(c, t, i) == i <= committed[t] \/ Accounted(log[t][i]) \/ log[t][i] \in InHand(c)

LEMMA ConsumerInvParts ==
  ASSUME NEW c \in Consumers
  PROVE  /\ ConsumerInv(c) <=>
              AtWork(c) /\ \A t \in Topics : \A i \in 1 .. position[c][t] : HasPassed(c, t, i)
         /\ ConsumerInv(c)' <=>
              AtWork(c)' /\ \A t \in Topics : \A i \in 1 .. position'[c][t] : HasPassed(c, t, i)'
BY DEF ConsumerInv, AtWork, HasPassed

(* A step accounts for all below the offsets when no record below them, or *)
(* below the position of the consumer that holds it, leaves the hands of   *)
(* that consumer for nowhere, when offsets come from positions, and when   *)
(* positions are moved to the offsets or over records taken in hand.       *)
LEMMA Accounting ==
  ASSUME IngestionTypeOK, IngestionTypeOK', Grows,
         NothingUnaccounted, \A x \in Consumers : ConsumerInv(x),
         \A x \in Consumers : \A t \in Topics : \A i \in 1 .. Len(log[t]) :
           log[t][i] \in InHand(x) =>
             \/ log[t][i] \in InHand(x)' \cup (table \cup dlq \cup lost)'
             \/ i > committed'[t] /\ i > position'[x][t],
         \A t \in Topics :
           committed'[t] = committed[t] \/ \E x \in Consumers : committed'[t] = position[x][t],
         \A x \in Consumers : \A t \in Topics : \A i \in 1 .. position'[x][t] :
           i <= position[x][t] \/ i <= committed'[t] \/ log'[t][i] \in InHand(x)'
  PROVE  /\ NothingUnaccounted'
         /\ \A x \in Consumers : \A t \in Topics : \A i \in 1 .. position'[x][t] : HasPassed(x, t, i)'
<1> DEFINE Acc == (table \cup dlq \cup lost)'
<1>1. ASSUME NEW t \in Topics
      PROVE  /\ committed[t] \in Nat /\ committed'[t] \in Nat /\ Len(log[t]) \in Nat
             /\ committed[t] <= Len(log[t]) /\ committed[t] <= committed'[t]
             /\ \A x \in Consumers : /\ position[x][t] \in Nat /\ position[x][t] <= Len(log[t])
                                     /\ position'[x][t] \in Nat
             /\ \A i \in 1 .. Len(log[t]) : log'[t][i] = log[t][i]
  <2>1. committed'[t] \in Nat /\ \A x \in Consumers : position'[x][t] \in Nat
    BY DEF IngestionTypeOK
  <2>2. committed[t] \in Nat /\ Len(log[t]) \in Nat /\ committed[t] <= Len(log[t])
    BY DEF IngestionTypeOK
  <2>3. QED
    BY <2>1, <2>2, HeldTypes DEF Grows
<1>2. ASSUME NEW x \in Consumers, NEW t \in Topics, NEW i \in 1 .. Len(log[t]),
             log[t][i] \in InHand(x), i <= committed'[t] \/ i <= position'[x][t]
      PROVE  log'[t][i] \in Acc \/ log'[t][i] \in InHand(x)'
  <2>1. ~(i > committed'[t] /\ i > position'[x][t])
    BY <1>1, <1>2
  <2>2. log[t][i] \in InHand(x)' \cup Acc
    BY <1>2, <2>1
  <2>3. QED
    BY <1>1, <2>2
<1>3. ASSUME NEW t \in Topics, NEW i \in 1 .. committed[t]
      PROVE  log'[t][i] \in Acc \/ \E x \in Consumers : log'[t][i] \in InHand(x)'
  <2>1. i \in 1 .. Len(log[t]) /\ i <= committed'[t]
    BY <1>1
  <2>2. log[t][i] \in table \cup dlq \cup lost \/ \E x \in Consumers : log[t][i] \in InHand(x)
    BY DEF NothingUnaccounted
  <2>3. CASE log[t][i] \in table \cup dlq \cup lost
    BY <1>1, <2>1, <2>3 DEF Grows
  <2>4. CASE \E x \in Consumers : log[t][i] \in InHand(x)
    BY <1>2, <2>1, <2>4
  <2>5. QED
    BY <2>2, <2>3, <2>4
<1>4. ASSUME NEW x \in Consumers, NEW t \in Topics, NEW i \in 1 .. position[x][t],
             i <= committed'[t] \/ i <= position'[x][t]
      PROVE  \/ i <= committed[t] \/ log'[t][i] \in Acc \/ log'[t][i] \in InHand(x)'
  <2>1. i \in 1 .. Len(log[t])
    BY <1>1
  <2>2. HasPassed(x, t, i)
    BY ConsumerInvParts
  <2>3. CASE Accounted(log[t][i])
    BY <1>1, <2>1, <2>3 DEF Grows, Accounted
  <2>4. CASE log[t][i] \in InHand(x)
    BY <1>2, <1>4, <2>1, <2>4
  <2>5. QED
    BY <2>2, <2>3, <2>4 DEF HasPassed
<1>5. ASSUME NEW t \in Topics, NEW i \in 1 .. committed'[t]
      PROVE  log'[t][i] \in Acc \/ \E x \in Consumers : log'[t][i] \in InHand(x)'
  <2>1. CASE i <= committed[t]
    <3>1. i \in 1 .. committed[t]
      BY <1>1, <2>1
    <3>2. QED
      BY <1>3, <3>1
  <2>2. CASE ~(i <= committed[t])
    <3>1. PICK x \in Consumers : committed'[t] = position[x][t]
      BY <1>1, <2>2
    <3>2. i \in 1 .. position[x][t] /\ i <= committed'[t]
      BY <1>1, <3>1
    <3>3. QED
      BY <1>4, <2>2, <3>2
  <2>3. QED
    BY <2>1, <2>2
<1>6. ASSUME NEW x \in Consumers, NEW t \in Topics, NEW i \in 1 .. position'[x][t]
      PROVE  HasPassed(x, t, i)'
  <2>1. CASE i <= committed'[t]
    BY <2>1 DEF HasPassed
  <2>2. CASE log'[t][i] \in InHand(x)'
    BY <2>2 DEF HasPassed
  <2>3. CASE i <= position[x][t] /\ ~(i <= committed'[t])
    <3>1. i \in 1 .. position[x][t] /\ i <= position'[x][t] /\ ~(i <= committed[t])
      BY <1>1, <2>3
    <3>2. log'[t][i] \in Acc \/ log'[t][i] \in InHand(x)'
      BY <1>4, <3>1
    <3>3. QED
      BY <3>2 DEF HasPassed, Accounted
  <2>4. QED
    BY <2>1, <2>2, <2>3
<1>7. QED
  BY <1>5, <1>6 DEF NothingUnaccounted

(* A consumer that rests stands where it stood.                            *)
LEMMA ResterKept ==
  ASSUME IngestionTypeOK, Grows, NEW x \in Consumers, Rests(x), ConsumerInv(x),
         \A t \in Topics : owner'[t] = x => owner[t] = x /\ committed'[t] = committed[t]
  PROVE  AtWork(x)' /\ InHand(x)' = InHand(x)
<1>1. Left(x)' = Left(x) /\ (at[x] \in Busy => Current(x)' = Current(x))
  BY LeftKept, CurrentKept DEF Rests
<1>2. InHand(x)' = InHand(x)
  BY <1>1 DEF InHand, Rests
<1>3. /\ at'[x] \in {"reading", "updating"} => Current(x)' \in table' \ Ends
      /\ at'[x] = "committing" => Accounted(Current(x))' \/ Current(x)' \in outbox'[x]
  BY <1>1 DEF ConsumerInv, Rests, Grows, Accounted, Busy
<1>4. \A t \in Topics : at'[x] # "down" /\ owner'[t] = x => committed'[t] <= position'[x][t]
  BY DEF ConsumerInv, Rests, Keeps
<1>5. QED
  BY <1>2, <1>3, <1>4 DEF AtWork

(* Each group of steps keeps that part of the invariant.                   *)
AccountInv == NothingUnaccounted /\ \A x \in Consumers : ConsumerInv(x)

(* Consumers that rest, whose offsets nobody moves, keep theirs.           *)
LEMMA RestingAccount ==
  ASSUME IngestionTypeOK, IngestionTypeOK', Grows, AccountInv,
         committed' = committed,
         \A x \in Consumers : Rests(x) /\ \A t \in Topics : owner'[t] = x => owner[t] = x
  PROVE  AccountInv'
<1>1. \A x \in Consumers : AtWork(x)' /\ InHand(x)' = InHand(x)
  BY ResterKept DEF AccountInv
<1>2. \A x \in Consumers : position'[x] = position[x]
  BY DEF Rests, Keeps
<1>3. /\ NothingUnaccounted'
      /\ \A x \in Consumers : \A t \in Topics : \A i \in 1 .. position'[x][t] : HasPassed(x, t, i)'
  <2>1. \A x \in Consumers : \A t \in Topics : \A i \in 1 .. position'[x][t] : i <= position[x][t]
    BY <1>2, HeldTypes
  <2>2. QED
    BY <1>1, <2>1, Accounting DEF AccountInv
<1>4. QED
  BY <1>1, <1>3, ConsumerInvParts DEF AccountInv

LEMMA MembersAccount ==
  ASSUME IngestionTypeOK, IngestionTypeOK', Grows, AccountInv,
         NEW c \in Consumers, NEW t, Start(c) \/ Evict(c) \/ (t \in Topics /\ Assign(c, t))
  PROVE  AccountInv'
<1>1. /\ UNCHANGED <<log, committed, reading, outbox, topic, table, dlq, lost>>
      /\ \A x \in Consumers : x # c => Rests(x)
      /\ at[c] \in Busy \/ at'[c] = "polling"
  BY DEF Start, Evict, Assign, workerVars, storeVars, pastVars, Rests, Keeps, IngestionTypeOK
<1>2. \A x \in Consumers : \A u \in Topics : x # c /\ owner'[u] = x => owner[u] = x
  <2>1. owner \in [Topics -> Consumers \cup {"none"}] /\ "none" \notin Consumers
    BY IngestionAssumption DEF IngestionTypeOK
  <2>2. CASE owner' = WithoutOwner(c)
    BY <2>1, <2>2 DEF WithoutOwner
  <2>3. CASE owner' = [owner EXCEPT ![t] = c]
    BY <2>1, <2>3
  <2>4. QED
    BY <2>2, <2>3 DEF Start, Evict, Assign
<1>3. \A x \in Consumers : x # c => AtWork(x)' /\ InHand(x)' = InHand(x)
  BY <1>1, <1>2, ResterKept DEF AccountInv
<1>4. CASE Evict(c)
  <2>1. \A x \in Consumers : Rests(x)
    BY <1>4 DEF Evict, workerVars, Rests, Keeps
  <2>2. \A x \in Consumers : \A u \in Topics : owner'[u] = x => owner[u] = x
    BY <1>4, IngestionAssumption DEF Evict, WithoutOwner, IngestionTypeOK
  <2>3. QED
    BY <1>1, <2>1, <2>2, RestingAccount
<1>5. CASE Start(c) \/ (t \in Topics /\ Assign(c, t))
  <2>1. /\ at'[c] = "polling" /\ topic[c] = "none" /\ topic'[c] = "none"
    BY <1>1, <1>5 DEF Start, Assign, IngestionTypeOK, BatchOK, Busy
  <2>2. /\ \A u \in Topics : /\ committed[u] \in Nat /\ position[c][u] \in Nat
                             /\ position'[c][u] \in Nat /\ done'[c][u] = position'[c][u]
                             /\ done[c][u] = position[c][u]
    <3>1. \A u \in Topics : done[c][u] = position[c][u] /\ done'[c][u] = position'[c][u]
      BY <2>1 DEF IngestionTypeOK, BatchOK
    <3>2. QED
      BY <3>1 DEF IngestionTypeOK
  <2>3. \A u \in Topics :
          /\ position'[c][u] = position[c][u] \/ position'[c][u] = committed[u]
          /\ owner'[u] = c => committed[u] <= position'[c][u]
    <3>1. CASE Start(c)
      BY <3>1, IngestionAssumption DEF Start, WithoutOwner
    <3>2. CASE t \in Topics /\ Assign(c, t)
      <4>1. position'[c] = [position[c] EXCEPT ![t] = committed[t]] /\ at[c] = "polling"
        BY <3>2 DEF Assign, IngestionTypeOK
      <4>2. owner' = [owner EXCEPT ![t] = c]
        BY <3>2 DEF Assign
      <4>3. ASSUME NEW u \in Topics
            PROVE  /\ position'[c][u] = position[c][u] \/ position'[c][u] = committed[u]
                   /\ owner'[u] = c => committed[u] <= position'[c][u]
        <5>1. CASE u = t
          BY <2>2, <4>1, <5>1 DEF IngestionTypeOK
        <5>2. CASE u # t
          <6>1. position'[c][u] = position[c][u] /\ owner'[u] = owner[u]
            BY <4>1, <4>2, <5>2 DEF IngestionTypeOK
          <6>2. owner[u] = c => committed[u] <= position[c][u]
            BY <4>1 DEF AccountInv, ConsumerInv
          <6>3. QED
            BY <6>1, <6>2
        <5>3. QED
          BY <5>1, <5>2
      <4>4. QED
        BY <4>3
    <3>3. QED
      BY <1>5, <3>1, <3>2
  <2>4. AtWork(c)'
    BY <1>1, <2>1, <2>3 DEF AtWork
  <2>5. InHand(c)' = InHand(c)
    <3>1. Left(c) = {} /\ Left(c)' = {}
      BY <2>2 DEF Left, Records
    <3>2. QED
      BY <1>1, <3>1 DEF InHand
  <2>6. \A x \in Consumers : AtWork(x)' /\ InHand(x)' = InHand(x)
    BY <1>3, <2>4, <2>5
  <2>7. \A x \in Consumers : \A u \in Topics : \A i \in 1 .. position'[x][u] :
          i <= position[x][u] \/ i <= committed'[u]
    <3>1. \A x \in Consumers : \A u \in Topics :
            /\ position[x][u] \in Nat /\ position'[x][u] \in Nat /\ committed[u] \in Nat
            /\ position'[x][u] = position[x][u] \/ position'[x][u] = committed[u]
      <4>1. \A x \in Consumers : \A u \in Topics : position[x][u] \in Nat /\ committed[u] \in Nat
        BY HeldTypes
      <4>2. \A x \in Consumers : x # c => position'[x] = position[x]
        BY <1>1 DEF Rests, Keeps
      <4>3. QED
        BY <2>2, <2>3, <4>1, <4>2
    <3>2. QED
      BY <1>1, <3>1
  <2>8. /\ NothingUnaccounted'
        /\ \A x \in Consumers : \A u \in Topics : \A i \in 1 .. position'[x][u] : HasPassed(x, u, i)'
    BY <1>1, <2>6, <2>7, Accounting DEF AccountInv
  <2>9. QED
    BY <2>6, <2>8, ConsumerInvParts DEF AccountInv
<1>6. QED
  BY <1>4, <1>5

LEMMA PollAccount ==
  ASSUME IngestionTypeOK, IngestionTypeOK', Grows, AccountInv, NEW c \in Consumers, Poll(c)
  PROVE  AccountInv'
<1>1. /\ UNCHANGED <<log, committed, owner, reading, outbox, done, table, dlq, lost>>
      /\ at[c] = "polling" /\ at'[c] = "handling"
      /\ \A x \in Consumers : x # c => Rests(x)
  BY DEF Poll, kafkaVars, storeVars, pastVars, Rests, Keeps, IngestionTypeOK
<1>2. \A u \in Topics : /\ position[c][u] \in Nat /\ position'[c][u] \in Nat
                        /\ done[c][u] = position[c][u] /\ position[c][u] <= position'[c][u]
                        /\ committed[u] \in Nat /\ Len(log[u]) \in Nat
  <2>1. \A u \in Topics : position[c][u] \in Nat /\ Len(log[u]) \in Nat /\ position'[c][u] \in Nat
                         /\ committed[u] \in Nat
    BY HeldTypes DEF IngestionTypeOK
  <2>2. \A u \in Topics : position'[c][u] \in position[c][u] .. Len(log[u])
    BY DEF Poll, IngestionTypeOK
  <2>3. \A u \in Topics : done[c][u] = position[c][u]
    BY <1>1 DEF IngestionTypeOK, BatchOK, Busy
  <2>4. QED
    BY <2>1, <2>2, <2>3
<1>3. \A x \in Consumers : x # c => AtWork(x)' /\ InHand(x)' = InHand(x)
  BY <1>1, ResterKept DEF AccountInv
<1>4. AtWork(c)'
  <2>1. \A u \in Topics : owner[u] = c => committed[u] <= position[c][u]
    BY <1>1 DEF AccountInv, ConsumerInv
  <2>2. \A u \in Topics : owner'[u] = c => committed'[u] <= position'[c][u]
    BY <1>1, <1>2, <2>1
  <2>3. QED
    BY <1>1, <2>2 DEF AtWork
<1>5. InHand(c) \subseteq InHand(c)'
  <2>1. Left(c) = {}
    BY <1>2 DEF Left, Records
  <2>2. QED
    BY <1>1, <2>1 DEF InHand
<1>6. \A u \in Topics : \A i \in 1 .. position'[c][u] : i <= position[c][u] \/ log'[u][i] \in InHand(c)'
  <2>1. ASSUME NEW u \in Topics, NEW i \in 1 .. position'[c][u], ~(i <= position[c][u])
        PROVE  log'[u][i] \in Left(c)'
    <3>1. i \in done'[c][u] + 1 .. position'[c][u]
      BY <1>1, <1>2, <2>1
    <3>2. QED
      BY <3>1 DEF Left, Records
  <2>2. QED
    BY <2>1 DEF InHand
<1>7. \A x \in Consumers : \A u \in Topics : \A i \in 1 .. position'[x][u] :
        i <= position[x][u] \/ log'[u][i] \in InHand(x)'
  <2>1. \A x \in Consumers : \A u \in Topics : x # c => \A i \in 1 .. position'[x][u] : i <= position[x][u]
    BY <1>1, HeldTypes DEF Rests, Keeps
  <2>2. QED
    BY <1>6, <2>1
<1>8. /\ NothingUnaccounted'
      /\ \A x \in Consumers : \A u \in Topics : \A i \in 1 .. position'[x][u] : HasPassed(x, u, i)'
  <2>1. \A x \in Consumers : InHand(x) \subseteq InHand(x)'
    BY <1>3, <1>5
  <2>2. QED
    BY <1>1, <1>7, <2>1, Accounting DEF AccountInv
<1>9. QED
  BY <1>3, <1>4, <1>8, ConsumerInvParts DEF AccountInv

LEMMA HandlingAccount ==
  ASSUME IngestionTypeOK, IngestionTypeOK', Grows, AccountInv, NEW c \in Consumers, Handling(c)
  PROVE  AccountInv'
<1>1. /\ UNCHANGED <<kafkaVars, topic, done, position>>
      /\ at'[c] \in Busy <=> at[c] \in Busy
      /\ \A x \in Consumers : x # c => Rests(x)
      /\ Keeps(c)
  BY HandlingFacts
<1>2. \A x \in Consumers : x # c => AtWork(x)' /\ InHand(x)' = InHand(x)
  BY <1>1, ResterKept DEF AccountInv, kafkaVars
<1>3. Left(c)' = Left(c) /\ (at[c] \in Busy => Current(c)' = Current(c))
  BY <1>1, LeftKept, CurrentKept
<1>4. outbox[c] \subseteq outbox'[c] \cup (dlq \cup lost)'
  BY DEF Handling, Reject, RegistryFails, Insert, ReadProfile, UpdateProfile, RedisFails,
         DeadLetterSent, DeadLetterFails, SendToDlq, IngestionTypeOK
<1>5. AtWork(c)'
  <2>1. /\ at[c] \in {"reading", "updating"} => Current(c) \in table \ Ends
        /\ at[c] = "committing" => Accounted(Current(c)) \/ Current(c) \in outbox[c]
        /\ \A u \in Topics : at[c] # "down" /\ owner[u] = c => committed[u] <= position[c][u]
    BY DEF AccountInv, ConsumerInv
  <2>2. \/ at' = at
        \/ /\ \/ at[c] \in {"reading", "updating"}
              \/ /\ at[c] \in Busy /\ Current(c) \in table'
                 /\ at'[c] = "committing" \/ Current(c) \notin Ends
           /\ at'[c] \in Busy
        \/ at[c] \in Busy /\ at'[c] = "committing" /\ Current(c) \in outbox'[c]
    <3>1. CASE Reject(c)
      BY <3>1 DEF Reject, SendToDlq, Step, Busy, IngestionTypeOK
    <3>2. CASE RegistryFails(c)
      BY <3>2 DEF RegistryFails, SendToDlq, Step, Busy, IngestionTypeOK
    <3>3. CASE Insert(c)
      BY <1>1, <3>3 DEF Insert, AfterInsert, Step, Busy, IngestionTypeOK
    <3>4. CASE ReadProfile(c)
      BY <1>1, <3>4 DEF ReadProfile, Step, Busy, IngestionTypeOK
    <3>5. CASE UpdateProfile(c)
      BY <1>1, <3>5 DEF UpdateProfile, Step, Busy, IngestionTypeOK
    <3>6. CASE RedisFails(c)
      BY <3>6 DEF RedisFails, SendToDlq, Step, Busy, IngestionTypeOK
    <3>7. CASE DeadLetterSent(c) \/ DeadLetterFails(c)
      BY <3>7 DEF DeadLetterSent, DeadLetterFails
    <3>8. QED
      BY <3>1, <3>2, <3>3, <3>4, <3>5, <3>6, <3>7 DEF Handling
  <2>3. /\ at'[c] \in {"reading", "updating"} => Current(c)' \in table' \ Ends
        /\ at'[c] = "committing" => Accounted(Current(c))' \/ Current(c)' \in outbox'[c]
    <3>1. Accounted(Current(c))' <=> Current(c)' \in (table \cup dlq \cup lost)'
      BY DEF Accounted
    <3>2. table \subseteq table' /\ table \cup dlq \cup lost \subseteq (table \cup dlq \cup lost)'
      BY DEF Grows
    <3>3. CASE at' = at
      <4>1. at[c] = "committing" =>
              \/ Current(c) \in (table \cup dlq \cup lost)' \/ Current(c) \in outbox'[c]
        BY <1>4, <2>1, <3>2 DEF Accounted
      <4>2. QED
        BY <1>3, <2>1, <3>1, <3>2, <3>3, <4>1 DEF Busy
    <3>4. CASE /\ \/ at[c] \in {"reading", "updating"}
                  \/ /\ at[c] \in Busy /\ Current(c) \in table'
                     /\ at'[c] = "committing" \/ Current(c) \notin Ends
               /\ at'[c] \in Busy
      BY <1>3, <2>1, <3>1, <3>2, <3>4 DEF Busy
    <3>5. CASE at[c] \in Busy /\ at'[c] = "committing" /\ Current(c) \in outbox'[c]
      BY <1>3, <3>5
    <3>6. QED
      BY <2>2, <3>3, <3>4, <3>5
  <2>4. \A u \in Topics : at'[c] # "down" /\ owner'[u] = c => committed'[u] <= position'[c][u]
    <3>1. at[c] = "down" => at'[c] = "down"
      BY <2>2 DEF Busy
    <3>2. QED
      BY <1>1, <2>1, <3>1 DEF kafkaVars
  <2>5. QED
    BY <2>3, <2>4 DEF AtWork
<1>6. \A x \in Consumers : InHand(x) \subseteq InHand(x)' \cup (table \cup dlq \cup lost)'
  <2>1. InHand(c) \subseteq InHand(c)' \cup (table \cup dlq \cup lost)'
    BY <1>3, <1>4 DEF InHand
  <2>2. QED
    BY <1>2, <2>1
<1>7. \A x \in Consumers : \A u \in Topics : \A i \in 1 .. position'[x][u] : i <= position[x][u]
  BY <1>1, HeldTypes
<1>8. /\ NothingUnaccounted'
      /\ \A x \in Consumers : \A u \in Topics : \A i \in 1 .. position'[x][u] : HasPassed(x, u, i)'
  BY <1>1, <1>6, <1>7, Accounting DEF AccountInv, kafkaVars
<1>9. QED
  BY <1>2, <1>5, <1>8, ConsumerInvParts DEF AccountInv

(* What a consumer that stops takes along is below no offset, or is        *)
(* counted as lost.                                                        *)
LEMMA StoppingAccount ==
  ASSUME IngestionTypeOK, IngestionTypeOK', Grows, AccountInv, NEW c \in Consumers, Stopping(c)
  PROVE  AccountInv'
<1>1. /\ at[c] # "down" /\ UNCHANGED log
      /\ owner' \in {owner, WithoutOwner(c)}
      /\ committed' = committed \/ committed' = CommittedBy(c)
  BY StoppingFacts
<1>2. PICK gone \in {{}, outbox[c]} : CutOff(c, gone, committed') /\ outbox[c] \subseteq gone \cup dlq'
  BY StoppingFacts
<1>3. /\ at'[c] = "down" /\ position'[c] = NoOffsets
      /\ lost' = lost \cup ((Left(c) \cup gone) \cap Below(committed'))
  BY <1>2 DEF CutOff, IngestionTypeOK
<1>4. \A x \in Consumers : x # c => Rests(x)
  BY <1>2 DEF CutOff, Rests, Keeps, IngestionTypeOK
<1>5. \A x \in Consumers : \A u \in Topics :
        x # c /\ owner'[u] = x => owner[u] = x /\ committed'[u] = committed[u]
  BY <1>1, IngestionAssumption DEF WithoutOwner, CommittedBy
<1>6. \A x \in Consumers : x # c => AtWork(x)' /\ InHand(x)' = InHand(x)
  BY <1>4, <1>5, ResterKept DEF AccountInv
<1>7. AtWork(c)'
  BY <1>3 DEF AtWork
<1>8. \A u \in Topics : position'[c][u] = 0
  BY <1>3, Values
<1>9. ASSUME NEW u \in Topics, NEW i \in 1 .. Len(log[u]), log[u][i] \in InHand(c)
      PROVE  \/ log[u][i] \in (table \cup dlq \cup lost)'
             \/ i > committed'[u] /\ i > position'[c][u]
  <2>1. Len(log[u]) \in Nat /\ committed'[u] \in Nat
    BY HeldTypes DEF IngestionTypeOK
  <2>2. CASE i <= committed'[u]
    <3>1. log[u][i] \in Below(committed')
      <4>1. i \in 0 + 1 .. committed'[u]
        BY <2>1, <2>2
      <4>2. QED
        BY <4>1 DEF Below, Records
    <3>2. log[u][i] \in Left(c) \cup gone \cup dlq'
      BY <1>2, <1>9 DEF InHand
    <3>3. QED
      BY <1>3, <3>1, <3>2
  <2>3. CASE ~(i <= committed'[u])
    BY <1>8, <2>1, <2>3
  <2>4. QED
    BY <2>2, <2>3
<1>10. \A u \in Topics :
         committed'[u] = committed[u] \/ \E x \in Consumers : committed'[u] = position[x][u]
  BY <1>1 DEF CommittedBy
<1>11. \A x \in Consumers : \A u \in Topics : \A i \in 1 .. position'[x][u] : i <= position[x][u]
  <2>1. \A x \in Consumers : \A u \in Topics : x # c => \A i \in 1 .. position'[x][u] : i <= position[x][u]
    BY <1>4, HeldTypes DEF Rests, Keeps
  <2>2. \A u \in Topics : 1 .. position'[c][u] = {}
    BY <1>8
  <2>3. QED
    BY <2>1, <2>2
<1>12. \A x \in Consumers : \A u \in Topics : \A i \in 1 .. Len(log[u]) :
         log[u][i] \in InHand(x) =>
           \/ log[u][i] \in InHand(x)' \cup (table \cup dlq \cup lost)'
           \/ i > committed'[u] /\ i > position'[x][u]
  BY <1>6, <1>9
<1>13. /\ NothingUnaccounted'
       /\ \A x \in Consumers : \A u \in Topics : \A i \in 1 .. position'[x][u] : HasPassed(x, u, i)'
  BY <1>10, <1>11, <1>12, Accounting DEF AccountInv
<1>14. QED
  BY <1>6, <1>7, <1>13, ConsumerInvParts DEF AccountInv

(* A commit covers the whole batch: what is left of it is in hand.         *)
LEMMA CommitAccount ==
  ASSUME IngestionTypeOK, IngestionTypeOK', Grows, AccountInv, NEW c \in Consumers, Commit(c)
  PROVE  AccountInv'
<1>1. /\ at[c] = "committing" /\ at'[c] \in {"polling", "handling"}
      /\ committed' = CommittedBy(c) /\ done'[c] = Handled(c) /\ position' = position
      /\ UNCHANGED <<log, owner, outbox, table, dlq, lost>>
      /\ \A x \in Consumers : x # c => Rests(x)
  BY DEF Commit, storeVars, pastVars, Rests, Keeps, IngestionTypeOK
<1>2. \A x \in Consumers : \A u \in Topics :
        x # c /\ owner'[u] = x => owner[u] = x /\ committed'[u] = committed[u]
  BY <1>1, IngestionAssumption DEF CommittedBy
<1>3. \A x \in Consumers : x # c => AtWork(x)' /\ InHand(x)' = InHand(x)
  BY <1>1, <1>2, ResterKept DEF AccountInv
<1>4. AtWork(c)'
  <2>1. \A u \in Topics : owner'[u] = c => committed'[u] = position'[c][u]
    BY <1>1 DEF CommittedBy
  <2>2. \A u \in Topics : owner'[u] = c => committed'[u] <= position'[c][u]
    BY <2>1 DEF IngestionTypeOK
  <2>3. QED
    BY <1>1, <2>2 DEF AtWork
<1>5. InHand(c) \subseteq InHand(c)' \cup (table \cup dlq \cup lost)'
  <2>1. Current(c) \in outbox'[c] \cup (table \cup dlq \cup lost)'
    BY <1>1 DEF AccountInv, ConsumerInv, Accounted
  <2>2. ASSUME NEW u \in Topics, NEW i \in done[c][u] + 1 .. position[c][u]
        PROVE  log[u][i] = Current(c) \/ log[u][i] \in Left(c)'
    <3>1. topic[c] \in Topics /\ done[c][u] \in Nat /\ position[c][u] \in Nat
          /\ done[c] \in [Topics -> Nat]
      BY <1>1, CurrentFacts, HeldTypes DEF Busy
    <3>2. done'[c][u] = IF u = topic[c] THEN done[c][u] + 1 ELSE done[c][u]
      BY <1>1, <3>1 DEF Handled
    <3>3. CASE i = done[c][u] + 1 /\ u = topic[c]
      BY <3>3 DEF Current
    <3>4. CASE ~(i = done[c][u] + 1 /\ u = topic[c])
      <4>1. i \in done'[c][u] + 1 .. position'[c][u]
        BY <1>1, <3>1, <3>2, <3>4
      <4>2. QED
        BY <1>1, <4>1 DEF Left, Records
    <3>5. QED
      BY <3>3, <3>4
  <2>3. Left(c) \subseteq {Current(c)} \cup Left(c)'
    BY <2>2, LeftFacts
  <2>4. QED
    BY <1>1, <2>1, <2>3 DEF InHand
<1>6. \A u \in Topics :
        committed'[u] = committed[u] \/ \E x \in Consumers : committed'[u] = position[x][u]
  BY <1>1 DEF CommittedBy
<1>7. \A x \in Consumers : \A u \in Topics : \A i \in 1 .. position'[x][u] : i <= position[x][u]
  BY <1>1, HeldTypes
<1>8. \A x \in Consumers : InHand(x) \subseteq InHand(x)' \cup (table \cup dlq \cup lost)'
  BY <1>3, <1>5
<1>9. /\ NothingUnaccounted'
      /\ \A x \in Consumers : \A u \in Topics : \A i \in 1 .. position'[x][u] : HasPassed(x, u, i)'
  BY <1>6, <1>7, <1>8, Accounting DEF AccountInv
<1>10. QED
  BY <1>3, <1>4, <1>9, ConsumerInvParts DEF AccountInv

-----------------------------------------------------------------------------
(* Rows are counted.                                                       *)

Counting == {"reading", "updating"}

(* The rows of a topic that its counter has to cover.                      *)
Owed(t) == {e \in table \ (Ends \cup BeingCounted \cup uncounted) : TopicOf[e] = t}

(* A counter keeps up when it rises with every row it owes.                *)
LEMMA CountersKeepUp ==
  ASSUME IngestionTypeOK, IngestionTypeOK', RowsAreCounted,
         \A t \in Topics :
           \/ Owed(t)' \subseteq Owed(t) /\ profile.count[t] <= profile'.count[t]
           \/ \E e : /\ Owed(t)' \subseteq Owed(t) \cup {e}
                    /\ profile'.count[t] = profile.count[t] + 1
  PROVE  RowsAreCounted'
<1>1. ASSUME NEW t \in Topics
      PROVE  Cardinality(Owed(t)') <= profile'.count[t]
  <2>1. /\ t \in AllTopics /\ profile.count[t] \in Nat /\ profile'.count[t] \in Nat
    BY TopicFacts DEF IngestionTypeOK
  <2>2. /\ IsFiniteSet(Owed(t)) /\ IsFiniteSet(Owed(t)')
        /\ Cardinality(Owed(t)) \in Nat /\ Cardinality(Owed(t)') \in Nat
    <3>1. Owed(t) \subseteq Events /\ Owed(t)' \subseteq Events
      BY DEF Owed, IngestionTypeOK
    <3>2. QED
      BY <3>1, FS_Subset, FS_CardinalityType, IngestionAssumption
  <2>3. Cardinality(Owed(t)) <= profile.count[t]
    BY DEF RowsAreCounted, Owed
  <2>4. CASE Owed(t)' \subseteq Owed(t) /\ profile.count[t] <= profile'.count[t]
    <3>1. Cardinality(Owed(t)') <= Cardinality(Owed(t))
      BY <2>2, <2>4, FS_Subset
    <3>2. QED
      BY <2>1, <2>2, <2>3, <2>4, <3>1
  <2>5. ASSUME NEW e, Owed(t)' \subseteq Owed(t) \cup {e},
               profile'.count[t] = profile.count[t] + 1
        PROVE  Cardinality(Owed(t)') <= profile'.count[t]
    <3>1. /\ IsFiniteSet(Owed(t) \cup {e})
          /\ Cardinality(Owed(t) \cup {e}) \in {Cardinality(Owed(t)), Cardinality(Owed(t)) + 1}
      BY <2>2, FS_AddElement
    <3>2. Cardinality(Owed(t)') <= Cardinality(Owed(t) \cup {e})
      BY <2>5, <3>1, FS_Subset
    <3>3. QED
      BY <2>1, <2>2, <2>3, <2>5, <3>1, <3>2
  <2>6. QED
    BY <2>4, <2>5
<1>2. QED
  BY <1>1 DEF RowsAreCounted, Owed

(* While every consumer rests, nothing changes.                            *)
LEMMA RestingRows ==
  ASSUME IngestionTypeOK, IngestionTypeOK', Grows, RowsAreCounted,
         UNCHANGED <<table, uncounted, profile>>, \A x \in Consumers : Rests(x)
  PROVE  RowsAreCounted'
<1>1. ASSUME NEW x \in Consumers, at[x] \in Counting
      PROVE  at'[x] \in Counting /\ Current(x)' = Current(x)
  BY <1>1, CurrentKept DEF Rests, Counting, Busy
<1>2. BeingCounted \subseteq BeingCounted'
  BY <1>1 DEF BeingCounted, Counting
<1>3. \A t \in Topics : Owed(t)' \subseteq Owed(t)
  BY <1>2 DEF Owed
<1>4. \A t \in Topics : profile.count[t] <= profile'.count[t]
  BY TopicFacts DEF IngestionTypeOK
<1>5. QED
  BY <1>3, <1>4, CountersKeepUp

(* The step of one consumer lets no row go uncounted when the row it has   *)
(* in hand is not its to count, is counted now, or is still to be counted. *)
LEMMA RowsStep ==
  ASSUME IngestionTypeOK, IngestionTypeOK', Grows, RowsAreCounted,
         NEW c \in Consumers, \A x \in Consumers : x # c => Rests(x),
         uncounted \subseteq uncounted', table' \subseteq table \cup {Current(c)},
         \A t \in Topics : profile.count[t] <= profile'.count[t],
         \/ table' = table /\ at[c] \notin Counting
         \/ Current(c) \in uncounted' \cup Ends
         \/ at[c] \in Busy /\ Keeps(c) /\ at'[c] \in Counting
         \/ /\ table' = table
            /\ profile'.count[TopicOf[Current(c)]] = profile.count[TopicOf[Current(c)]] + 1
  PROVE  RowsAreCounted'
<1>1. \A x \in Consumers : at[x] \in Counting /\ x # c => Current(x) \in BeingCounted'
  <2>1. ASSUME NEW x \in Consumers, at[x] \in Counting, x # c
        PROVE  at'[x] \in Counting /\ Current(x)' = Current(x)
    BY <2>1, CurrentKept DEF Rests, Counting, Busy
  <2>2. QED
    BY <2>1 DEF BeingCounted, Counting
<1>2. BeingCounted \subseteq BeingCounted' \cup {Current(c)}
  BY <1>1 DEF BeingCounted, Counting
<1>3. \A t \in Topics : Owed(t)' \subseteq Owed(t) \cup {Current(c)}
  BY <1>2 DEF Owed
<1>4. CASE table' = table /\ at[c] \notin Counting
  <2>1. BeingCounted \subseteq BeingCounted'
    BY <1>1, <1>4 DEF BeingCounted, Counting
  <2>2. \A t \in Topics : Owed(t)' \subseteq Owed(t)
    BY <1>4, <2>1 DEF Owed
  <2>3. QED
    BY <2>2, CountersKeepUp
<1>5. CASE Current(c) \in uncounted' \cup Ends
  <2>1. \A t \in Topics : Current(c) \notin Owed(t)'
    BY <1>5 DEF Owed
  <2>2. QED
    BY <1>3, <2>1, CountersKeepUp
<1>6. CASE at[c] \in Busy /\ Keeps(c) /\ at'[c] \in Counting
  <2>1. Current(c) \in BeingCounted'
    BY <1>6, CurrentKept DEF BeingCounted, Counting
  <2>2. \A t \in Topics : Current(c) \notin Owed(t)'
    BY <2>1 DEF Owed
  <2>3. QED
    BY <1>3, <2>2, CountersKeepUp
<1>7. CASE /\ table' = table
           /\ profile'.count[TopicOf[Current(c)]] = profile.count[TopicOf[Current(c)]] + 1
  <2>1. ASSUME NEW t \in Topics
        PROVE  \/ Owed(t)' \subseteq Owed(t) /\ profile.count[t] <= profile'.count[t]
               \/ \E e : /\ Owed(t)' \subseteq Owed(t) \cup {e}
                        /\ profile'.count[t] = profile.count[t] + 1
    <3>1. CASE TopicOf[Current(c)] = t
      BY <1>3, <1>7, <3>1
    <3>2. CASE TopicOf[Current(c)] # t
      <4>1. Current(c) \notin Owed(t)'
        BY <3>2 DEF Owed
      <4>2. QED
        BY <1>3, <4>1
    <3>3. QED
      BY <3>1, <3>2
  <2>2. QED
    BY <2>1, CountersKeepUp
<1>8. QED
  BY <1>4, <1>5, <1>6, <1>7

(* The pipeline counts one more event of the topic.                        *)
LEMMA UpdatedCounts ==
  ASSUME IngestionTypeOK, NEW c \in Consumers, at[c] \in Busy
  PROVE  \A t \in AllTopics : Updated(c).count[t] =
           IF t = TopicOf[Current(c)] THEN profile.count[t] + 1 ELSE profile.count[t]
<1>1. profile.count \in [AllTopics -> Nat]
  BY DEF IngestionTypeOK
<1>2. Updated(c).count = [profile.count EXCEPT ![TopicOf[Current(c)]] = @ + 1]
  BY DEF Updated
<1>3. QED
  BY <1>1, <1>2

LEMMA HandlingRows ==
  ASSUME IngestionTypeOK, IngestionTypeOK', RowsAreCounted, NEW c \in Consumers, Handling(c)
  PROVE  RowsAreCounted'
<1>1. /\ Grows /\ Keeps(c) /\ \A x \in Consumers : x # c => Rests(x)
      /\ at' \in [Consumers -> Busy \cup {"down", "polling"}]
  BY HandlingFacts
<1>2. /\ \A t \in AllTopics : profile.count[t] \in Nat
      /\ at[c] \in Busy => TopicOf[Current(c)] \in AllTopics
  BY CurrentFacts, TopicFacts DEF IngestionTypeOK
<1>3. at \in [Consumers -> Busy \cup {"down", "polling"}]
  BY DEF IngestionTypeOK
<1>4. /\ uncounted \subseteq uncounted' /\ table' \subseteq table \cup {Current(c)}
      /\ profile' = profile \/ (at[c] \in Busy /\ profile' = Updated(c))
  BY DEF Handling, Reject, RegistryFails, Insert, ReadProfile, UpdateProfile, RedisFails,
         DeadLetterSent, DeadLetterFails, SendToDlq, Step, storeVars, pastVars, Busy
<1>5. \A t \in Topics : profile.count[t] <= profile'.count[t]
  <2>1. \A t \in AllTopics : profile.count[t] <= profile'.count[t]
    BY <1>2, <1>4, UpdatedCounts
  <2>2. QED
    BY <2>1, TopicFacts
<1>6. \/ table' = table /\ at[c] \notin Counting
      \/ Current(c) \in uncounted' \cup Ends
      \/ at[c] \in Busy /\ Keeps(c) /\ at'[c] \in Counting
      \/ /\ table' = table
         /\ profile'.count[TopicOf[Current(c)]] = profile.count[TopicOf[Current(c)]] + 1
  <2>1. CASE Reject(c) \/ RegistryFails(c)
    BY <2>1 DEF Reject, RegistryFails, SendToDlq, Step, Counting
  <2>2. CASE Insert(c)
    BY <1>1, <1>3, <2>2 DEF Insert, Step, AfterInsert, Counting, Busy
  <2>3. CASE ReadProfile(c)
    BY <1>1, <1>3, <2>3 DEF ReadProfile, Step, Counting, Busy
  <2>4. CASE UpdateProfile(c)
    BY <1>2, <2>4, UpdatedCounts DEF UpdateProfile, Step, Busy
  <2>5. CASE RedisFails(c)
    BY <2>5 DEF RedisFails
  <2>6. CASE DeadLetterSent(c) \/ DeadLetterFails(c)
    <3>1. at' = at /\ table' = table
      BY <2>6 DEF DeadLetterSent, DeadLetterFails, storeVars
    <3>2. QED
      BY <1>1, <3>1 DEF Counting, Busy
  <2>7. QED
    BY <2>1, <2>2, <2>3, <2>4, <2>5, <2>6 DEF Handling
<1>7. QED
  BY <1>1, <1>4, <1>5, <1>6, RowsStep

LEMMA StoppingRows ==
  ASSUME IngestionTypeOK, IngestionTypeOK', Grows, RowsAreCounted,
         NEW c \in Consumers, \A x \in Consumers : x # c => Rests(x), Stopping(c)
  PROVE  RowsAreCounted'
<1>1. /\ profile' = profile
      /\ table' = table \/ (at[c] = "handling" /\ table' = table \cup {Current(c)})
  BY StoppingFacts
<1>2. uncounted' = uncounted \cup
        IF at[c] \in {"handling", "reading", "updating"} THEN {Current(c)} ELSE {}
  BY StoppingFacts DEF CutOff
<1>3. \A t \in Topics : profile.count[t] <= profile'.count[t]
  BY <1>1, TopicFacts DEF IngestionTypeOK
<1>4. uncounted \subseteq uncounted' /\ table' \subseteq table \cup {Current(c)}
  BY <1>1, <1>2
<1>5. \/ table' = table /\ at[c] \notin Counting
      \/ Current(c) \in uncounted' \cup Ends
  BY <1>1, <1>2 DEF Counting
<1>6. QED
  BY <1>3, <1>4, <1>5, RowsStep

(* The steps of a consumer that is not handling a record.                  *)
LEMMA OtherRows ==
  ASSUME IngestionTypeOK, IngestionTypeOK', Grows, RowsAreCounted,
         NEW c \in Consumers, \A x \in Consumers : x # c => Rests(x), at[c] \notin Counting,
         UNCHANGED <<table, uncounted, profile>>
  PROVE  RowsAreCounted'
<1>1. \A t \in Topics : profile.count[t] <= profile'.count[t]
  BY TopicFacts DEF IngestionTypeOK
<1>2. QED
  BY <1>1, RowsStep

-----------------------------------------------------------------------------
(* The profile agrees.                                                     *)

AgreeInv == ProfileAgrees /\ (~overlapped => \A x \in Consumers : SoleInv(x))

(* A consumer that rests keeps to its topics, if they are still its own,   *)
(* and what it has read stays true, if nobody writes it.                   *)
LEMMA SoleKept ==
  ASSUME NEW x \in Consumers, Rests(x), SoleInv(x),
         \A t \in Topics : owner[t] = x /\ done[x][t] < position[x][t] => owner'[t] = x,
         at[x] = "updating" =>
           /\ topic[x] = "purchases" => profile'.fields.total = profile.fields.total
           /\ topic[x] = "page_views" => profile'.fields.categories = profile.fields.categories
  PROVE  SoleInv(x)'
BY DEF SoleInv, Rests, Keeps

(* A consumer that is not updating, and has done all it polled.            *)
LEMMA SoleIdle ==
  ASSUME NEW c \in Consumers, at'[c] # "updating",
         \A t \in Topics : done'[c][t] < position'[c][t] => owner'[t] = c
  PROVE  SoleInv(c)'
BY DEF SoleInv

LEMMA MembersAgree ==
  ASSUME IngestionTypeOK, IngestionTypeOK', AgreeInv,
         NEW c \in Consumers, NEW t, Start(c) \/ Evict(c) \/ (t \in Topics /\ Assign(c, t))
  PROVE  AgreeInv'
<1>1. CASE Evict(c)
  BY <1>1 DEF Evict, AgreeInv, ProfileAgrees
<1>2. CASE Start(c) \/ (t \in Topics /\ Assign(c, t))
  <2>1. UNCHANGED <<profile, overlapped>>
    BY <1>2 DEF Start, Assign, storeVars, pastVars
  <2>2. ProfileAgrees'
    BY <2>1 DEF AgreeInv, ProfileAgrees
  <2>3. \A x \in Consumers : x # c => Rests(x)
    <3>1. CASE Start(c)
      BY <3>1 DEF Start, Rests, Keeps, IngestionTypeOK
    <3>2. CASE t \in Topics /\ Assign(c, t)
      BY <3>2 DEF Assign, Rests, Keeps, IngestionTypeOK
    <3>3. QED
      BY <1>2, <3>1, <3>2
  <2>4. at'[c] = "polling" /\ \A u \in Topics : ~(done'[c][u] < position'[c][u])
    <3>1. at'[c] = "polling"
      BY <1>2 DEF Start, Assign, IngestionTypeOK
    <3>2. topic'[c] = "none"
      BY <3>1 DEF IngestionTypeOK, BatchOK, Busy
    <3>3. \A u \in Topics : done'[c][u] = position'[c][u] /\ done'[c][u] \in Nat
      BY <3>2 DEF IngestionTypeOK, BatchOK
    <3>4. QED
      BY <3>1, <3>3
  <2>5. ASSUME NEW x \in Consumers, x # c, NEW u \in Topics, owner[u] = x, done[x][u] < position[x][u]
        PROVE  owner'[u] = x
    <3>1. at[x] \notin {"down", "polling"}
      <4>1. topic[x] # "none"
        BY <2>5, HeldTypes
      <4>2. QED
        BY <4>1 DEF IngestionTypeOK, BatchOK, Busy
    <3>2. CASE Start(c)
      BY <2>5, <3>2 DEF Start, WithoutOwner
    <3>3. CASE t \in Topics /\ Assign(c, t)
      <4>1. owner' = [owner EXCEPT ![t] = c] /\ Assignable(c, t)
        BY <3>3 DEF Assign
      <4>2. owner[t] # x
        BY <2>5, <3>1, <4>1, IngestionAssumption DEF Assignable
      <4>3. QED
        BY <2>5, <4>1, <4>2 DEF IngestionTypeOK
    <3>4. QED
      BY <1>2, <3>2, <3>3
  <2>6. ASSUME ~overlapped', NEW x \in Consumers
        PROVE  SoleInv(x)'
    <3>1. CASE x # c
      BY <2>1, <2>3, <2>5, <2>6, <3>1, SoleKept DEF AgreeInv
    <3>2. CASE x = c
      BY <2>4, <3>2, SoleIdle
    <3>3. QED
      BY <3>1, <3>2
  <2>7. QED
    BY <2>2, <2>6 DEF AgreeInv
<1>3. QED
  BY <1>1, <1>2

LEMMA PollAgrees ==
  ASSUME IngestionTypeOK, IngestionTypeOK', AgreeInv, NEW c \in Consumers, Poll(c)
  PROVE  AgreeInv'
<1>1. /\ UNCHANGED <<owner, done, profile, overlapped>> /\ at[c] = "polling" /\ at'[c] = "handling"
      /\ \A x \in Consumers : x # c => Rests(x)
  BY DEF Poll, kafkaVars, storeVars, pastVars, Rests, Keeps, IngestionTypeOK
<1>2. ProfileAgrees'
  BY <1>1 DEF AgreeInv, ProfileAgrees
<1>3. ASSUME NEW u \in Topics, done'[c][u] < position'[c][u]
      PROVE  owner'[u] = c
  <2>1. done[c][u] = position[c][u] /\ position[c][u] \in Nat
    <3>1. topic[c] = "none"
      BY <1>1 DEF IngestionTypeOK, BatchOK, Busy
    <3>2. QED
      BY <3>1, HeldTypes
  <2>2. owner[u] # c => position'[c][u] = position[c][u]
    BY DEF Poll, IngestionTypeOK
  <2>3. QED
    BY <1>1, <1>3, <2>1, <2>2
<1>4. ASSUME ~overlapped', NEW x \in Consumers
      PROVE  SoleInv(x)'
  <2>1. CASE x # c
    BY <1>1, <1>4, <2>1, SoleKept DEF AgreeInv
  <2>2. CASE x = c
    BY <1>1, <1>3, <2>2, SoleIdle
  <2>3. QED
    BY <2>1, <2>2
<1>5. QED
  BY <1>2, <1>4 DEF AgreeInv

LEMMA StoppingAgrees ==
  ASSUME IngestionTypeOK, IngestionTypeOK', AgreeInv, NEW c \in Consumers, Stopping(c),
         \A x \in Consumers : x # c => Rests(x)
  PROVE  AgreeInv'
<1>1. UNCHANGED <<profile, overlapped>> /\ owner' \in {owner, WithoutOwner(c)}
  BY StoppingFacts
<1>2. at'[c] = "down" /\ topic'[c] = "none"
  BY StoppingFacts DEF CutOff, IngestionTypeOK
<1>3. ProfileAgrees'
  BY <1>1 DEF AgreeInv, ProfileAgrees
<1>4. \A u \in Topics : ~(done'[c][u] < position'[c][u])
  <2>1. \A u \in Topics : done'[c][u] = position'[c][u] /\ done'[c][u] \in Nat
    BY <1>2 DEF IngestionTypeOK, BatchOK
  <2>2. QED
    BY <2>1
<1>5. ASSUME ~overlapped', NEW x \in Consumers
      PROVE  SoleInv(x)'
  <2>1. CASE x # c
    <3>1. \A u \in Topics : owner[u] = x => owner'[u] = x
      BY <1>1, <2>1 DEF WithoutOwner
    <3>2. QED
      BY <1>1, <1>5, <2>1, <3>1, SoleKept DEF AgreeInv
  <2>2. CASE x = c
    BY <1>2, <1>4, <2>2, SoleIdle
  <2>3. QED
    BY <2>1, <2>2
<1>6. QED
  BY <1>3, <1>5 DEF AgreeInv

LEMMA CommitAgrees ==
  ASSUME IngestionTypeOK, IngestionTypeOK', AgreeInv, NEW c \in Consumers, Commit(c),
         \A x \in Consumers : x # c => Rests(x)
  PROVE  AgreeInv'
<1>1. /\ UNCHANGED <<owner, position, profile, overlapped>>
      /\ at[c] = "committing" /\ at'[c] # "updating" /\ done'[c] = Handled(c)
  BY DEF Commit, storeVars, pastVars, IngestionTypeOK
<1>2. ProfileAgrees'
  BY <1>1 DEF AgreeInv, ProfileAgrees
<1>3. ASSUME ~overlapped, NEW u \in Topics, done'[c][u] < position'[c][u]
      PROVE  owner'[u] = c
  <2>1. topic[c] \in Topics /\ done[c] \in [Topics -> Nat] /\ position[c][u] \in Nat
    BY <1>1, CurrentFacts, HeldTypes DEF Busy
  <2>2. done'[c][u] = IF u = topic[c] THEN done[c][u] + 1 ELSE done[c][u]
    BY <1>1, <2>1 DEF Handled
  <2>3. done[c][u] < position[c][u]
    BY <1>1, <1>3, <2>1, <2>2
  <2>4. QED
    BY <1>1, <1>3, <2>3 DEF AgreeInv, SoleInv
<1>4. ASSUME ~overlapped', NEW x \in Consumers
      PROVE  SoleInv(x)'
  <2>1. CASE x # c
    BY <1>1, <1>4, <2>1, SoleKept DEF AgreeInv
  <2>2. CASE x = c
    BY <1>1, <1>3, <1>4, <2>2, SoleIdle
  <2>3. QED
    BY <2>1, <2>2
<1>5. QED
  BY <1>2, <1>4 DEF AgreeInv

(* What the pipeline writes agrees, when what was read does.               *)
LEMMA UpdatedAgrees ==
  ASSUME IngestionTypeOK, LogInv, NEW c \in Consumers, at[c] = "updating", SoleInv(c),
         profile.fields.total = profile.count["purchases"],
         Cardinality(profile.fields.categories) <= profile.count["page_views"]
  PROVE  /\ Updated(c).fields.total = Updated(c).count["purchases"]
         /\ Cardinality(Updated(c).fields.categories) <= Updated(c).count["page_views"]
<1> DEFINE t == TopicOf[Current(c)]
<1>1. t = topic[c] /\ t \in AllTopics
  BY CurrentFacts, TopicFacts DEF Busy
<1>2. \A u \in AllTopics :
        Updated(c).count[u] = IF u = t THEN profile.count[u] + 1 ELSE profile.count[u]
  BY UpdatedCounts DEF Busy
<1>3. /\ profile.count["page_views"] \in Nat /\ profile.count["purchases"] \in Nat
      /\ profile.fields.categories \in SUBSET Events
  BY DEF IngestionTypeOK, AllTopics, Fields
<1>4. /\ Updated(c).fields.total =
           IF t = "purchases" THEN reading[c].total + 1 ELSE profile.fields.total
      /\ Updated(c).fields.categories =
           IF t = "page_views" THEN reading[c].categories \cup {Current(c)} ELSE profile.fields.categories
  BY DEF Updated, NewFields
<1>5. Updated(c).fields.total = Updated(c).count["purchases"]
  BY <1>1, <1>2, <1>3, <1>4 DEF SoleInv, AllTopics
<1>6. CASE t = "page_views"
  <2>1. Updated(c).fields.categories = profile.fields.categories \cup {Current(c)}
    BY <1>1, <1>4, <1>6 DEF SoleInv
  <2>2. IsFiniteSet(profile.fields.categories) /\ Cardinality(profile.fields.categories) \in Nat
    BY <1>3, FS_Subset, FS_CardinalityType, IngestionAssumption
  <2>3. Cardinality(Updated(c).fields.categories)
          \in {Cardinality(profile.fields.categories), Cardinality(profile.fields.categories) + 1}
    BY <2>1, <2>2, FS_AddElement
  <2>4. Updated(c).count["page_views"] = profile.count["page_views"] + 1
    BY <1>2, <1>6 DEF AllTopics
  <2>5. QED
    BY <1>3, <1>5, <2>2, <2>3, <2>4
<1>7. CASE t # "page_views"
  BY <1>2, <1>4, <1>5, <1>7 DEF AllTopics
<1>8. QED
  BY <1>6, <1>7

LEMMA HandlingAgrees ==
  ASSUME IngestionTypeOK, IngestionTypeOK', LogInv, AgreeInv, NEW c \in Consumers, Handling(c)
  PROVE  AgreeInv'
<1>1. /\ UNCHANGED <<owner, topic, done, position, overlapped>>
      /\ \A x \in Consumers : x # c => Rests(x)
  BY HandlingFacts DEF kafkaVars
<1>2. /\ profile' = profile \/ (at[c] = "updating" /\ at'[c] = "committing" /\ profile' = Updated(c))
      /\ at'[c] = "updating" =>
           \/ reading'[c] = profile.fields /\ profile' = profile
           \/ at[c] = "updating" /\ reading'[c] = reading[c] /\ profile' = profile
           \/ topic[c] = "sessions"
  <2>1. at[c] \in Busy => TopicOf[Current(c)] = topic[c]
    BY CurrentFacts
  <2>2. CASE Reject(c) \/ RegistryFails(c)
    BY <2>2 DEF Reject, RegistryFails, SendToDlq, Step, IngestionTypeOK
  <2>3. CASE Insert(c)
    BY <2>1, <2>3 DEF Insert, Step, AfterInsert, Busy, IngestionTypeOK
  <2>4. CASE ReadProfile(c)
    BY <2>4 DEF ReadProfile, Step, storeVars, IngestionTypeOK
  <2>5. CASE UpdateProfile(c)
    BY <2>5 DEF UpdateProfile, Step, IngestionTypeOK
  <2>6. CASE RedisFails(c)
    BY <2>6 DEF RedisFails, SendToDlq, Step, IngestionTypeOK
  <2>7. CASE DeadLetterSent(c) \/ DeadLetterFails(c)
    BY <2>7 DEF DeadLetterSent, DeadLetterFails, storeVars
  <2>8. QED
    BY <2>2, <2>3, <2>4, <2>5, <2>6, <2>7 DEF Handling
<1>3. SUFFICES ASSUME ~overlapped
               PROVE  /\ \A x \in Consumers : SoleInv(x)'
                      /\ profile'.fields.total = profile'.count["purchases"]
                      /\ Cardinality(profile'.fields.categories) <= profile'.count["page_views"]
  BY <1>1 DEF AgreeInv, ProfileAgrees
<1>4. /\ \A x \in Consumers : SoleInv(x)
      /\ profile.fields.total = profile.count["purchases"]
      /\ Cardinality(profile.fields.categories) <= profile.count["page_views"]
  BY <1>3 DEF AgreeInv, ProfileAgrees
<1>5. /\ profile'.fields.total = profile'.count["purchases"]
      /\ Cardinality(profile'.fields.categories) <= profile'.count["page_views"]
  <2>1. CASE profile' = profile
    BY <1>4, <2>1
  <2>2. CASE at[c] = "updating" /\ profile' = Updated(c)
    BY <1>4, <2>2, UpdatedAgrees
  <2>3. QED
    BY <1>2, <2>1, <2>2
<1>6. ASSUME NEW x \in Consumers, x # c
      PROVE  SoleInv(x)'
  <2>1. CASE profile' = profile
    BY <1>1, <1>4, <1>6, <2>1, SoleKept
  <2>2. CASE at[c] = "updating" /\ profile' = Updated(c)
    <3>1. at[x] = "updating" => topic[x] # TopicOf[Current(c)]
      <4>1. topic[c] \in Topics /\ done[c][topic[c]] < position[c][topic[c]] /\ TopicOf[Current(c)] = topic[c]
        BY <2>2, CurrentFacts, HeldTypes DEF Busy
      <4>2. at[x] = "updating" => topic[x] \in Topics /\ done[x][topic[x]] < position[x][topic[x]]
        BY CurrentFacts, HeldTypes DEF Busy
      <4>3. owner[topic[c]] = c
        BY <1>4, <4>1 DEF SoleInv
      <4>4. QED
        BY <1>4, <1>6, <4>1, <4>2, <4>3 DEF SoleInv
    <3>2. /\ TopicOf[Current(c)] # "purchases" => profile'.fields.total = profile.fields.total
          /\ TopicOf[Current(c)] # "page_views" => profile'.fields.categories = profile.fields.categories
      BY <2>2 DEF Updated
    <3>3. QED
      BY <1>1, <1>4, <1>6, <3>1, <3>2, SoleKept
  <2>3. QED
    BY <1>2, <2>1, <2>2
<1>7. SoleInv(c)'
  <2>1. \A t \in Topics : done'[c][t] < position'[c][t] => owner'[t] = c
    BY <1>1, <1>4 DEF SoleInv
  <2>2. at'[c] = "updating" =>
          /\ topic'[c] = "purchases" => reading'[c].total = profile'.fields.total
          /\ topic'[c] = "page_views" => reading'[c].categories = profile'.fields.categories
    BY <1>1, <1>2, <1>4 DEF SoleInv
  <2>3. QED
    BY <2>1, <2>2 DEF SoleInv
<1>8. QED
  BY <1>5, <1>6, <1>7

-----------------------------------------------------------------------------
(* The inductive invariant.                                                *)

LEMMA InvParts ==
  /\ IngestionInv <=> IngestionTypeOK /\ LogInv /\ AccountInv /\ RowsAreCounted /\ AgreeInv
  /\ IngestionInv' <=> IngestionTypeOK' /\ LogInv' /\ AccountInv' /\ RowsAreCounted' /\ AgreeInv'
BY DEF IngestionInv, AccountInv, AgreeInv

LEMMA IngestionInit == Init => IngestionInv
<1> SUFFICES ASSUME Init PROVE IngestionInv
  OBVIOUS
<1>1. IngestionTypeOK
  <2>1. log \in [Topics -> Seq(Events)] /\ \A t \in Topics : log[t] = <<>> /\ Len(log[t]) = 0
    BY DEF Init
  <2>2. \A c \in Consumers : BatchOK(c)
    BY <2>1, Values, TopicFacts DEF Init, BatchOK, Busy
  <2>3. {done, position} \subseteq [Consumers -> [Topics -> Nat]] /\ committed \in [Topics -> Nat]
        /\ \A t \in Topics : committed[t] <= Len(log[t])
    BY <2>1, Values DEF Init
  <2>4. profile \in [count : [AllTopics -> Nat], fields : Fields] /\ reading \in [Consumers -> Fields]
    BY Values DEF Init
  <2>5. faults \in 0 .. MaxFaults
    BY IngestionAssumption DEF Init
  <2>6. QED
    BY <2>1, <2>2, <2>3, <2>4, <2>5 DEF Init, IngestionTypeOK
<1>2. LogInv
  BY DEF Init, LogInv
<1>3. AccountInv
  <2>1. \A t \in Topics : committed[t] = 0 /\ \A x \in Consumers : position[x][t] = 0
    BY Values DEF Init
  <2>2. \A x \in Consumers : at[x] = "down"
    BY DEF Init
  <2>3. QED
    BY <2>1, <2>2 DEF AccountInv, NothingUnaccounted, ConsumerInv
<1>4. RowsAreCounted
  <2>1. \A t \in Topics : profile.count[t] = 0 /\ table = {}
    BY TopicFacts DEF Init
  <2>2. \A t \in Topics : {e \in table \ (Ends \cup BeingCounted \cup uncounted) : TopicOf[e] = t} = {}
    BY <2>1
  <2>3. QED
    BY <2>1, <2>2, FS_EmptySet DEF RowsAreCounted
<1>5. AgreeInv
  <2>1. ProfileAgrees
    <3>1. /\ profile.count = [t \in AllTopics |-> 0]
          /\ profile.fields.total = 0 /\ profile.fields.categories = {}
      BY DEF Init, NoFields
    <3>2. profile.count["purchases"] = 0 /\ profile.count["page_views"] = 0
      BY <3>1 DEF AllTopics
    <3>3. QED
      BY <3>1, <3>2, FS_EmptySet DEF ProfileAgrees
  <2>2. \A x \in Consumers : SoleInv(x)
    BY Values DEF Init, SoleInv
  <2>3. QED
    BY <2>1, <2>2 DEF AgreeInv
<1>6. QED
  BY <1>1, <1>2, <1>3, <1>4, <1>5, InvParts

LEMMA IngestionStep == IngestionInv /\ [Next]_vars => IngestionInv'
<1> SUFFICES ASSUME IngestionInv, [Next]_vars PROVE IngestionInv'
  OBVIOUS
<1>1. IngestionTypeOK /\ LogInv /\ AccountInv /\ RowsAreCounted /\ AgreeInv
  BY InvParts
<1>2. \A x \in Consumers : ConsumerInv(x)
  BY <1>1 DEF AccountInv
<1>3. ASSUME NEW e \in Events, Produce(e) \/ ProduceTwice(e) \/ ProduceFlawed(e)
      PROVE  IngestionInv'
  <2>1. IngestionTypeOK' /\ LogInv' /\ Grows
    BY <1>1, <1>3, ProducersTyped
  <2>2. UNCHANGED <<committed, owner, workerVars, storeVars, pastVars>>
    BY <1>3 DEF Produce, ProduceTwice, ProduceFlawed
  <2>3. \A x \in Consumers : Rests(x)
    BY <2>2 DEF Rests, Keeps, workerVars
  <2>4. AccountInv' /\ RowsAreCounted'
    BY <1>1, <2>1, <2>2, <2>3, RestingAccount, RestingRows DEF storeVars, pastVars
  <2>5. AgreeInv'
    <3>1. UNCHANGED <<owner, profile, overlapped>>
      BY <2>2 DEF storeVars, pastVars
    <3>2. QED
      BY <1>1, <2>3, <3>1, SoleKept DEF AgreeInv, ProfileAgrees
  <2>6. QED
    BY <2>1, <2>4, <2>5, InvParts
<1>4. ASSUME NEW c \in Consumers, NEW t, Start(c) \/ Evict(c) \/ (t \in Topics /\ Assign(c, t))
      PROVE  IngestionInv'
  <2>1. IngestionTypeOK' /\ Grows
    BY <1>1, <1>4, MembersTyped
  <2>2. UNCHANGED <<log, table, uncounted, profile>>
    BY <1>4 DEF Start, Evict, Assign, storeVars, pastVars
  <2>3. AccountInv' /\ AgreeInv'
    BY <1>1, <1>4, <2>1, MembersAccount, MembersAgree
  <2>4. RowsAreCounted'
    <3>1. CASE Evict(c)
      <4>1. \A x \in Consumers : Rests(x)
        BY <3>1 DEF Evict, workerVars, Rests, Keeps
      <4>2. QED
        BY <1>1, <2>1, <2>2, <4>1, RestingRows
    <3>2. CASE Start(c)
      <4>1. at[c] \notin Counting /\ \A x \in Consumers : x # c => Rests(x)
        BY <1>1, <3>2 DEF Start, Counting, Rests, Keeps, IngestionTypeOK
      <4>2. QED
        BY <1>1, <2>1, <2>2, <4>1, OtherRows
    <3>3. CASE t \in Topics /\ Assign(c, t)
      <4>1. at[c] \notin Counting /\ \A x \in Consumers : x # c => Rests(x)
        BY <1>1, <3>3 DEF Assign, Counting, Rests, Keeps, IngestionTypeOK
      <4>2. QED
        BY <1>1, <2>1, <2>2, <4>1, OtherRows
    <3>4. QED
      BY <1>4, <3>1, <3>2, <3>3
  <2>5. LogInv'
    BY <1>1, <2>2 DEF LogInv
  <2>6. QED
    BY <2>1, <2>3, <2>4, <2>5, InvParts
<1>5. ASSUME NEW c \in Consumers, Start(c) \/ Evict(c)
      PROVE  IngestionInv'
  BY <1>4, <1>5
<1>6. ASSUME NEW c \in Consumers, Poll(c)
      PROVE  IngestionInv'
  <2>1. IngestionTypeOK' /\ Grows
    BY <1>1, <1>6, PollTyped
  <2>2. UNCHANGED <<log, table, uncounted, profile>>
    BY <1>6 DEF Poll, kafkaVars, storeVars, pastVars
  <2>3. at[c] \notin Counting /\ \A x \in Consumers : x # c => Rests(x)
    BY <1>1, <1>6 DEF Poll, Counting, Rests, Keeps, IngestionTypeOK
  <2>4. AccountInv' /\ AgreeInv' /\ RowsAreCounted'
    BY <1>1, <1>6, <2>1, <2>2, <2>3, PollAccount, PollAgrees, OtherRows
  <2>5. LogInv'
    BY <1>1, <2>2 DEF LogInv
  <2>6. QED
    BY <2>1, <2>4, <2>5, InvParts
<1>7. ASSUME NEW c \in Consumers, Handling(c)
      PROVE  IngestionInv'
  <2>1. IngestionTypeOK' /\ Grows /\ UNCHANGED log
    BY <1>1, <1>7, HandlingTyped, HandlingFacts DEF kafkaVars
  <2>2. AccountInv' /\ AgreeInv' /\ RowsAreCounted'
    BY <1>1, <1>7, <2>1, HandlingAccount, HandlingAgrees, HandlingRows
  <2>3. LogInv'
    BY <1>1, <2>1 DEF LogInv
  <2>4. QED
    BY <2>1, <2>2, <2>3, InvParts
<1>8. ASSUME NEW c \in Consumers, Stopping(c)
      PROVE  IngestionInv'
  <2>1. IngestionTypeOK' /\ Grows /\ \A x \in Consumers : x # c => Rests(x)
    BY <1>1, <1>2, <1>8, StoppingTyped
  <2>2. UNCHANGED log
    BY <1>1, <1>8, StoppingFacts
  <2>3. AccountInv' /\ AgreeInv' /\ RowsAreCounted'
    BY <1>1, <1>8, <2>1, StoppingAccount, StoppingAgrees, StoppingRows
  <2>4. LogInv'
    BY <1>1, <2>2 DEF LogInv
  <2>5. QED
    BY <2>1, <2>3, <2>4, InvParts
<1>9. ASSUME NEW c \in Consumers, Commit(c)
      PROVE  IngestionInv'
  <2>1. IngestionTypeOK' /\ Grows /\ \A x \in Consumers : x # c => Rests(x)
    BY <1>1, <1>2, <1>9, CommitTyped
  <2>2. UNCHANGED <<log, table, uncounted, profile>> /\ at[c] \notin Counting
    BY <1>9 DEF Commit, storeVars, pastVars, Counting
  <2>3. AccountInv' /\ AgreeInv' /\ RowsAreCounted'
    BY <1>1, <1>9, <2>1, <2>2, CommitAccount, CommitAgrees, OtherRows
  <2>4. LogInv'
    BY <1>1, <2>2 DEF LogInv
  <2>5. QED
    BY <2>1, <2>3, <2>4, InvParts
<1>10. CASE UNCHANGED vars
  <2>1. UNCHANGED <<kafkaVars, workerVars, storeVars, faults, pastVars>>
    BY <1>10 DEF vars
  <2>2. \A t \in Topics : committed[t] \in Nat /\ Len(log[t]) \in Nat
    <3>1. \A t \in Topics : log[t] \in Seq(Events) /\ committed[t] \in Nat
      BY <1>1 DEF IngestionTypeOK
    <3>2. QED
      BY <3>1
  <2>3. Grows /\ \A x \in Consumers : Rests(x)
    BY <2>1, <2>2 DEF kafkaVars, workerVars, storeVars, pastVars, Grows, Rests, Keeps
  <2>4. IngestionTypeOK' /\ LogInv'
    BY <1>1, <2>1 DEF kafkaVars, workerVars, storeVars, pastVars, IngestionTypeOK, BatchOK, LogInv
  <2>5. AccountInv' /\ RowsAreCounted'
    BY <1>1, <2>1, <2>3, <2>4, RestingAccount, RestingRows DEF kafkaVars, storeVars, pastVars
  <2>6. AgreeInv'
    <3>1. UNCHANGED <<owner, profile, overlapped>>
      BY <2>1 DEF kafkaVars, storeVars, pastVars
    <3>2. QED
      BY <1>1, <2>3, <3>1, SoleKept DEF AgreeInv, ProfileAgrees
  <2>7. QED
    BY <2>4, <2>5, <2>6, InvParts
<1>11. QED
  BY <1>3, <1>4, <1>5, <1>6, <1>7, <1>8, <1>9, <1>10
  DEF Next, Work, Failure, Handling, Stopping

(* Every reachable state satisfies IngestionInv.                           *)
THEOREM IngestionInvariant == Spec => []IngestionInv
<1>1. QED
  BY IngestionInit, IngestionStep, PTL DEF Spec

(* Types hold in every reachable state.                                    *)
THEOREM IngestionTyped == Spec => []IngestionTypeOK
<1>1. IngestionInv => IngestionTypeOK
  BY InvParts
<1>2. QED
  BY <1>1, IngestionInvariant, PTL

(* Whatever is below a committed offset is stored, dead-lettered, lost     *)
(* with its consumer, or in the hands of one that runs.                    *)
THEOREM OffsetsAreCovered == Spec => []NothingUnaccounted
<1>1. IngestionInv => NothingUnaccounted
  BY DEF IngestionInv
<1>2. QED
  BY <1>1, IngestionInvariant, PTL

(* The counters of the profile never fall behind the rows.                 *)
THEOREM CountersCoverRows == Spec => []RowsAreCounted
<1>1. IngestionInv => RowsAreCounted
  BY DEF IngestionInv
<1>2. QED
  BY <1>1, IngestionInvariant, PTL

(* The total and the categories agree with the counters, while no consumer *)
(* works on after its eviction.                                            *)
THEOREM ProfileFollowsCounters == Spec => []ProfileAgrees
<1>1. IngestionInv => ProfileAgrees
  BY DEF IngestionInv
<1>2. QED
  BY <1>1, IngestionInvariant, PTL

(* A commit is that of a member, which is at or past what is committed in  *)
(* each of its topics: no step takes a committed offset back.              *)
LEMMA OffsetStep ==
  ASSUME IngestionInv, Next
  PROVE  \A t \in Topics : committed[t] <= committed'[t]
<1> USE DEF kafkaVars
<1>1. /\ IngestionTypeOK /\ \A c \in Consumers : ConsumerInv(c)
      /\ \A t \in Topics : committed[t] \in Nat
  BY DEF IngestionInv, IngestionTypeOK
<1>2. ASSUME NEW c \in Consumers, at[c] = "committing", committed' = CommittedBy(c)
      PROVE  \A t \in Topics : committed[t] <= committed'[t]
  <2> SUFFICES ASSUME NEW t \in Topics PROVE committed[t] <= committed'[t]
    OBVIOUS
  <2>1. owner[t] = c => committed[t] <= position[c][t]
    BY <1>1, <1>2 DEF ConsumerInv
  <2>2. committed'[t] = IF owner[t] = c THEN position[c][t] ELSE committed[t]
    BY <1>2 DEF CommittedBy
  <2>3. QED
    BY <1>1, <2>1, <2>2
<1>3. CASE committed' = committed
  BY <1>1, <1>3
<1>4. ASSUME NEW c \in Consumers, Stopping(c)
      PROVE  \A t \in Topics : committed[t] <= committed'[t]
  BY <1>1, <1>2, <1>3, <1>4, StoppingFacts
<1>5. ASSUME NEW e \in Events, Produce(e) \/ ProduceTwice(e) \/ ProduceFlawed(e)
      PROVE  committed' = committed
  BY <1>5 DEF Produce, ProduceTwice, ProduceFlawed
<1>6. ASSUME NEW c \in Consumers, NEW t \in Topics, Assign(c, t)
      PROVE  committed' = committed
  BY <1>6 DEF Assign
<1>7. ASSUME NEW c \in Consumers, Start(c) \/ Evict(c) \/ Poll(c)
      PROVE  committed' = committed
  BY <1>7 DEF Start, Evict, Poll
<1>8. ASSUME NEW c \in Consumers, Handling(c)
      PROVE  committed' = committed
  BY <1>8 DEF Handling, Reject, RegistryFails, Insert, ReadProfile, UpdateProfile, RedisFails,
     DeadLetterSent, DeadLetterFails, SendToDlq
<1>9. ASSUME NEW c \in Consumers, Commit(c)
      PROVE  \A t \in Topics : committed[t] <= committed'[t]
  BY <1>2, <1>9 DEF Commit
<1>10. QED
  BY <1>3, <1>4, <1>5, <1>6, <1>7, <1>8, <1>9 DEF Next, Work, Failure, Handling, Stopping

(* Committed offsets never go back.                                        *)
THEOREM OffsetsOnlyRise == Spec => OffsetsNeverFall
<1>1. IngestionInv /\ [Next]_vars => [\A t \in Topics : committed[t] <= committed'[t]]_vars
  BY OffsetStep
<1>2. QED
  BY <1>1, IngestionInvariant, PTL DEF Spec, OffsetsNeverFall

-----------------------------------------------------------------------------
(* What readers of the rows and of the profile see.                        *)

(* What a step may do to the stores: store events one at a time, count the *)
(* event at hand, mark an overlap; and what consumers have read is what    *)
(* they had, or what the profile holds.                                    *)
Stores(e) ==
  /\ UNCHANGED <<profile, overlapped>> /\ table' \in {table, table \cup {e}}
Counts(c) ==
  /\ at[c] = "updating" /\ profile' = Updated(c) /\ UNCHANGED <<table, overlapped>>
Overlaps == UNCHANGED <<table, profile>> /\ overlapped' \in {overlapped, TRUE}
StoreEffect ==
  \/ \E e \in Events : Stores(e)
  \/ \E c \in Consumers : Counts(c)
  \/ Overlaps

LEMMA StoreEffects ==
  ASSUME IngestionTypeOK, Next
  PROVE  /\ StoreEffect
         /\ \A x \in Consumers : reading'[x] \in {reading[x], NoFields, profile.fields}
<1> DEFINE Read == \A x \in Consumers : reading'[x] \in {reading[x], NoFields, profile.fields}
<1> USE DEF kafkaVars, workerVars, storeVars, pastVars
<1>1. reading \in [Consumers -> Fields]
  BY DEF IngestionTypeOK
<1>2. ASSUME NEW e \in Events, Produce(e) \/ ProduceTwice(e) \/ ProduceFlawed(e)
      PROVE  Overlaps /\ Read
  BY <1>2 DEF Produce, ProduceTwice, ProduceFlawed, Overlaps
<1>3. ASSUME NEW c \in Consumers, NEW t,
             Start(c) \/ Evict(c) \/ (t \in Topics /\ Assign(c, t)) \/ Poll(c) \/ Commit(c)
      PROVE  Overlaps /\ Read
  BY <1>3 DEF Start, Evict, Assign, Poll, Commit, Overlaps
<1>4. ASSUME NEW c \in Consumers, Stopping(c)
      PROVE  StoreEffect /\ Read
  <2>1. /\ UNCHANGED <<profile, overlapped>>
        /\ table' = table \/ (at[c] = "handling" /\ table' = table \cup {Current(c)})
        /\ reading' = [reading EXCEPT ![c] = NoFields]
    BY <1>4, StoppingFacts DEF CutOff
  <2>2. CASE table' = table
    BY <1>1, <2>1, <2>2 DEF StoreEffect, Overlaps
  <2>3. CASE at[c] = "handling" /\ table' = table \cup {Current(c)}
    <3>1. Current(c) \in Events
      BY <2>3, CurrentFacts DEF Busy
    <3>2. QED
      BY <1>1, <2>1, <2>3, <3>1 DEF StoreEffect, Stores
  <2>4. QED
    BY <2>1, <2>2, <2>3
<1>5. ASSUME NEW c \in Consumers, Handling(c)
      PROVE  StoreEffect /\ Read
  <2>1. UNCHANGED overlapped
    BY <1>5, HandlingFacts
  <2>2. CASE Reject(c) \/ RegistryFails(c) \/ DeadLetterSent(c) \/ DeadLetterFails(c)
    BY <1>1, <2>1, <2>2 DEF Reject, RegistryFails, DeadLetterSent, DeadLetterFails, SendToDlq,
       StoreEffect, Overlaps
  <2>3. CASE Insert(c)
    <3>1. Current(c) \in Events
      BY <2>3, CurrentFacts DEF Insert, Busy
    <3>2. QED
      BY <2>1, <2>3, <3>1 DEF Insert, StoreEffect, Stores
  <2>4. CASE ReadProfile(c)
    BY <1>1, <2>1, <2>4 DEF ReadProfile, StoreEffect, Overlaps
  <2>5. CASE UpdateProfile(c)
    BY <1>1, <2>1, <2>5 DEF UpdateProfile, Step, StoreEffect, Counts
  <2>6. CASE RedisFails(c)
    BY <1>1, <2>1, <2>6 DEF RedisFails, SendToDlq, Step, StoreEffect, Counts, Overlaps
  <2>7. QED
    BY <1>5, <2>2, <2>3, <2>4, <2>5, <2>6 DEF Handling
<1>6. Overlaps => StoreEffect
  BY DEF StoreEffect
<1>7. QED
  BY <1>2, <1>3, <1>4, <1>5, <1>6 DEF Next, Work, Failure, Handling, Stopping

(* What the pipeline writes of a purchase, a page view, any other event.   *)
LEMMA UpdatedFields ==
  ASSUME IngestionTypeOK, LogInv, NEW c \in Consumers, ConsumerInv(c), at[c] = "updating"
  PROVE  /\ Current(c) \in table \ Ends /\ Current(c) \in Events
         /\ TopicOf[Current(c)] = topic[c] /\ topic[c] \in AllTopics
         /\ Updated(c).count = [profile.count EXCEPT ![TopicOf[Current(c)]] = @ + 1]
         /\ Updated(c).fields.total =
              IF topic[c] = "purchases" THEN reading[c].total + 1 ELSE profile.fields.total
         /\ Updated(c).fields.categories =
              IF topic[c] = "page_views" THEN reading[c].categories \cup {Current(c)}
              ELSE profile.fields.categories
<1>1. /\ Current(c) \in Events /\ TopicOf[Current(c)] = topic[c] /\ topic[c] \in AllTopics
  BY CurrentFacts, TopicFacts DEF Busy
<1>2. Current(c) \in table \ Ends
  BY DEF ConsumerInv
<1>3. QED
  BY <1>1, <1>2 DEF Updated, NewFields

(* Nothing is in the profile, or was read of it, that was not stored and   *)
(* counted.                                                                *)
LEMMA ProfileStep ==
  ASSUME IngestionInv, ProfileInv, [Next]_vars
  PROVE  ProfileInv'
<1>1. /\ IngestionTypeOK /\ LogInv /\ \A c \in Consumers : ConsumerInv(c)
      /\ profile.count \in [AllTopics -> Nat] /\ profile.fields \in Fields
      /\ \A x \in Consumers : reading[x] \in Fields
  BY DEF IngestionInv, IngestionTypeOK
<1>2. CASE UNCHANGED vars
  BY <1>2 DEF vars, workerVars, storeVars, ProfileInv, NoMoreThanStored
<1>3. CASE Next
  <2>1. /\ StoreEffect
        /\ \A x \in Consumers : reading'[x] \in {reading[x], NoFields, profile.fields}
    BY <1>1, <1>3, StoreEffects
  <2>2. profile.count["purchases"] \in Nat /\ "purchases" \in AllTopics
    BY <1>1 DEF AllTopics
  <2> DEFINE Ok(f) == f.total <= profile'.count["purchases"] /\ f.categories \subseteq table'
  <2>3. ASSUME \A f \in Fields : NoMoreThanStored(f) => Ok(f), Ok(profile'.fields)
        PROVE  ProfileInv'
    <3>1. NoFields \in Fields /\ NoMoreThanStored(NoFields)
      BY <2>2, Values DEF NoMoreThanStored, NoFields
    <3>2. ASSUME NEW x \in Consumers PROVE Ok(reading'[x])
      <4>1. reading'[x] \in Fields /\ NoMoreThanStored(reading'[x])
        BY <1>1, <2>1, <3>1 DEF ProfileInv
      <4>2. QED
        BY <2>3, <4>1
    <3>3. QED
      BY <2>3, <3>2 DEF ProfileInv, NoMoreThanStored
  <2>4. CASE Overlaps \/ \E e \in Events : Stores(e)
    <3>1. profile' = profile /\ table \subseteq table'
      BY <2>4 DEF Overlaps, Stores
    <3>2. \A f : NoMoreThanStored(f) => Ok(f)
      BY <3>1 DEF NoMoreThanStored
    <3>3. QED
      BY <2>3, <3>1, <3>2 DEF ProfileInv
  <2>5. ASSUME NEW c \in Consumers, Counts(c) PROVE ProfileInv'
    <3>1. /\ Current(c) \in table /\ table' = table
          /\ profile'.count = [profile.count EXCEPT ![topic[c]] = @ + 1]
          /\ profile'.fields.total =
               IF topic[c] = "purchases" THEN reading[c].total + 1 ELSE profile.fields.total
          /\ profile'.fields.categories =
               IF topic[c] = "page_views" THEN reading[c].categories \cup {Current(c)}
               ELSE profile.fields.categories
      BY <1>1, <2>5, UpdatedFields DEF Counts
    <3>2. profile'.count["purchases"] = IF topic[c] = "purchases"
            THEN profile.count["purchases"] + 1 ELSE profile.count["purchases"]
      BY <1>1, <2>2, <3>1
    <3>3. \A f \in Fields : NoMoreThanStored(f) => Ok(f)
      BY <2>2, <3>1, <3>2 DEF NoMoreThanStored, Fields
    <3>4. /\ NoMoreThanStored(profile.fields) /\ NoMoreThanStored(reading[c])
          /\ profile.fields.total \in Nat /\ reading[c].total \in Nat
      BY <1>1 DEF ProfileInv, Fields
    <3>5. profile'.fields.total <= profile'.count["purchases"]
      BY <2>2, <3>1, <3>2, <3>4 DEF NoMoreThanStored
    <3>6. profile'.fields.categories \subseteq table'
      BY <3>1, <3>4 DEF NoMoreThanStored
    <3>7. QED
      BY <2>3, <3>3, <3>5, <3>6
  <2>6. QED
    BY <2>1, <2>4, <2>5 DEF StoreEffect
<1>4. QED
  BY <1>2, <1>3

THEOREM ProfileInvariant == Spec => []ProfileInv
<1>1. Init => ProfileInv
  <2> SUFFICES ASSUME Init PROVE ProfileInv
    OBVIOUS
  <2>1. profile.count["purchases"] = 0
    BY DEF Init, AllTopics
  <2>2. QED
    BY <2>1 DEF Init, ProfileInv, NoMoreThanStored, NoFields
<1>2. QED
  BY <1>1, ProfileStep, IngestionInvariant, PTL DEF Spec

(* An event is counted as readers are promised.                            *)
LEMMA CountShown ==
  ASSUME IngestionInv, ProfileInv, NEW c \in Consumers, Counts(c)
  PROVE  EventStore!Count(Current(c)) /\ Current(c) \in Events
<1> DEFINE e == Current(c)
<1>1. /\ e \in table \ Ends /\ e \in Events
      /\ TopicOf[e] = topic[c]
      /\ profile'.count = [profile.count EXCEPT ![TopicOf[e]] = @ + 1]
      /\ profile'.fields.total =
           IF topic[c] = "purchases" THEN reading[c].total + 1 ELSE profile.fields.total
      /\ profile'.fields.categories =
           IF topic[c] = "page_views" THEN reading[c].categories \cup {e}
           ELSE profile.fields.categories
  BY UpdatedFields DEF IngestionInv, Counts
<1>2. ~overlapped => SoleInv(c)
  BY DEF IngestionInv
<1>3. /\ reading[c].total \in Nat /\ profile.count["purchases"] \in Nat
      /\ NoMoreThanStored(reading[c])
  BY DEF IngestionInv, IngestionTypeOK, Fields, AllTopics, ProfileInv
<1>4. topic[c] = "purchases" => profile'.fields.total \in EventStore!Totals
  <2>1. CASE overlapped
    BY <1>1, <1>3, <2>1 DEF EventStore!Totals, NoMoreThanStored
  <2>2. CASE ~overlapped
    BY <1>1, <1>2, <2>2 DEF EventStore!Totals, SoleInv, Counts
  <2>3. QED
    BY <2>1, <2>2
<1>5. topic[c] = "page_views" => profile'.fields.categories \in EventStore!CategorySets(e)
  <2>1. CASE overlapped
    BY <1>1, <1>3, <2>1 DEF EventStore!CategorySets, NoMoreThanStored
  <2>2. CASE ~overlapped
    BY <1>1, <1>2, <2>2 DEF EventStore!CategorySets, SoleInv, Counts
  <2>3. QED
    BY <2>1, <2>2
<1>6. UNCHANGED <<table, overlapped>>
  BY DEF Counts
<1>7. QED
  BY <1>1, <1>4, <1>5, <1>6 DEF EventStore!Count

(* The consumers keep what EventStore promises to the readers of the rows  *)
(* and of the profile.                                                     *)
THEOREM ConsumersKeepStore == Spec => KeepsStore
<1>1. Init => EventStore!StoreInit
  BY DEF Init, EventStore!StoreInit, NoFields
<1>2. IngestionInv /\ ProfileInv /\ [Next]_vars => [EventStore!StoreNext]_(EventStore!storeVars)
  <2> SUFFICES ASSUME IngestionInv, ProfileInv, [Next]_vars
               PROVE  [EventStore!StoreNext]_(EventStore!storeVars)
    OBVIOUS
  <2>1. CASE UNCHANGED vars
    BY <2>1 DEF vars, storeVars, pastVars, EventStore!storeVars
  <2>2. CASE Next
    <3>1. StoreEffect
      BY <2>2, StoreEffects DEF IngestionInv
    <3>2. ASSUME NEW e \in Events, Stores(e)
          PROVE  [EventStore!StoreNext]_(EventStore!storeVars)
      BY <3>2 DEF Stores, EventStore!StoreNext, EventStore!Store, EventStore!storeVars
    <3>3. ASSUME NEW c \in Consumers, Counts(c)
          PROVE  EventStore!StoreNext
      BY <3>3, CountShown DEF EventStore!StoreNext
    <3>4. CASE Overlaps
      BY <3>4 DEF Overlaps, EventStore!StoreNext, EventStore!Overlap, EventStore!storeVars
    <3>5. QED
      BY <3>1, <3>2, <3>3, <3>4 DEF StoreEffect
  <2>3. QED
    BY <2>1, <2>2
<1>3. QED
  BY <1>1, <1>2, IngestionInvariant, ProfileInvariant, PTL
     DEF Spec, KeepsStore, EventStore!StoreSpec
=============================================================================
