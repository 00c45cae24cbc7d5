---------------------------- MODULE EventIngestion ----------------------------
(***************************************************************************)
(* Behavioural events on their way from Kafka to PostgreSQL and Redis.     *)
(*                                                                         *)
(* BaseKafkaConsumer.run polls a batch of records, decodes and processes   *)
(* them one by one, and after each calls commit() without offsets, which   *)
(* commits the positions the poll has reached. BehavioralEventConsumer     *)
(* inserts a row, then updates the profile of the user in Redis. A record  *)
(* that cannot be handled goes to the dead-letter topic, through a         *)
(* producer that sends in the background.                                  *)
(*                                                                         *)
(* Each topic is one partition, and all events are of one user.            *)
(***************************************************************************)
EXTENDS Naturals, FiniteSets, SequencesExt

CONSTANTS
  Events,     \* event ids
  TopicOf,    \* the topic of each event
  Ends,       \* the SESSION_END events, which leave the profile alone
  Consumers,  \* consumer processes of the group
  MaxFaults   \* bound: flawed or doubled records, outages, deaths, shutdowns

AllTopics == {"page_views", "purchases", "sessions"}
Topics == {TopicOf[e] : e \in Events}

ASSUME IngestionAssumption ==
  /\ IsFiniteSet(Events) /\ "none" \notin Consumers
  /\ TopicOf \in [Events -> AllTopics]
  /\ Ends \subseteq {e \in Events : TopicOf[e] = "sessions"}
  /\ MaxFaults \in Nat

VARIABLES
  log,        \* records of each topic
  flaw,       \* what is wrong with the record of an event
  committed,  \* committed offset of the group in each topic
  owner,      \* the consumer each topic is assigned to
  at, reading, outbox,    \* each consumer process
  topic, done, position,  \* its batch: from done to position of each topic
  table,      \* rows of behavioral_events
  profile,    \* the hash profile:{user} in Redis
  dlq,        \* events in the dead-letter topic
  (* environment and history *)
  faults,     \* faults the environment may still inject
  overlapped, \* a consumer has worked on after its partitions were taken away
  lost,       \* events in the hands of a consumer that died
  uncounted   \* events whose update of the profile failed or was cut off

kafkaVars  == <<log, flaw, committed, owner>>
workerVars == <<at, reading, outbox, topic, done, position>>
storeVars  == <<table, profile, dlq>>
pastVars   == <<overlapped, lost, uncounted>>
vars == <<kafkaVars, workerVars, storeVars, faults, pastVars>>

-----------------------------------------------------------------------------
(* The two fields of the profile that are read before they are written.    *)
Fields == [total : Nat, categories : SUBSET Events]
NoFields == [total |-> 0, categories |-> {}]

Busy == {"handling", "reading", "updating", "committing"}
Current(c) == log[topic[c]][done[c][topic[c]] + 1]
Member(c)  == \E t \in Topics : owner[t] = c

(* The records of a topic after one offset, up to another.                 *)
Records(t, from, to) == {log[t][i] : i \in from + 1 .. to}
Left(c) == UNION {Records(t, done[c][t], position[c][t]) : t \in Topics}
Below(offsets) == UNION {Records(t, 0, offsets[t]) : t \in Topics}
NoOffsets == [t \in Topics |-> 0]

(* A consumer at work has a record, of a topic it has not done.            *)
BatchOK(c) ==
  /\ at[c] \in Busy <=> topic[c] # "none"
  /\ \A t \in Topics :
       /\ done[c][t] <= position[c][t] /\ position[c][t] <= Len(log[t])
       /\ topic[c] = t => done[c][t] < position[c][t]
       /\ topic[c] = "none" => done[c][t] = position[c][t]

(* Types of the log, the offsets, the stores and what each consumer holds. *)
IngestionTypeOK ==
  /\ log \in [Topics -> Seq(Events)] /\ flaw \in [Events -> {"none", "malformed", "invalid"}]
  /\ committed \in [Topics -> Nat] /\ \A t \in Topics : committed[t] <= Len(log[t])
  /\ owner \in [Topics -> Consumers \cup {"none"}]
  /\ at \in [Consumers -> Busy \cup {"down", "polling"}]
  /\ reading \in [Consumers -> Fields] /\ outbox \in [Consumers -> SUBSET Events]
  /\ topic \in [Consumers -> Topics \cup {"none"}]
  /\ {done, position} \subseteq [Consumers -> [Topics -> Nat]]
  /\ \A c \in Consumers : BatchOK(c)
  /\ {table, dlq, lost, uncounted} \subseteq SUBSET Events
  /\ profile \in [count : [AllTopics -> Nat], fields : Fields]
  /\ faults \in 0 .. MaxFaults /\ overlapped \in BOOLEAN

Init ==
  /\ log = [t \in Topics |-> <<>>]
  /\ flaw = [e \in Events |-> "none"]
  /\ committed = NoOffsets
  /\ owner = [t \in Topics |-> "none"]
  /\ at = [c \in Consumers |-> "down"]
  /\ reading = [c \in Consumers |-> NoFields]
  /\ outbox = [c \in Consumers |-> {}]
  /\ topic = [c \in Consumers |-> "none"]
  /\ done = [c \in Consumers |-> NoOffsets] /\ position = done
  /\ table = {} /\ dlq = {}
  /\ profile = [count |-> [t \in AllTopics |-> 0], fields |-> NoFields]
  /\ faults = MaxFaults
  /\ overlapped = FALSE /\ lost = {} /\ uncounted = {}

Fault == faults > 0 /\ faults' = faults - 1

-----------------------------------------------------------------------------
(* The producer: one id per event.                                         *)

Fresh(e) == \A t \in Topics : e \notin ToSet(log[t])

Produce(e) ==
  /\ Fresh(e)
  /\ log' = [log EXCEPT ![TopicOf[e]] = Append(@, e)]
  /\ UNCHANGED <<flaw, committed, owner, workerVars, storeVars, faults, pastVars>>

(* The retries of a producer that is not idempotent.                       *)
ProduceTwice(e) ==
  /\ Fresh(e) /\ Fault
  /\ log' = [log EXCEPT ![TopicOf[e]] = @ \o <<e, e>>]
  /\ UNCHANGED <<flaw, committed, owner, workerVars, storeVars, pastVars>>

(* A record that does not decode, or that decodes under a schema version   *)
(* whose records the event models refuse.                                  *)
ProduceFlawed(e) ==
  /\ Fresh(e) /\ Fault
  /\ log' = [log EXCEPT ![TopicOf[e]] = Append(@, e)]
  /\ \E what \in {"malformed", "invalid"} : flaw' = [flaw EXCEPT ![e] = what]
  /\ UNCHANGED <<committed, owner, workerVars, storeVars, pastVars>>

-----------------------------------------------------------------------------
(* The consumer group.                                                     *)

WithoutOwner(c) == [t \in Topics |-> IF owner[t] = c THEN "none" ELSE owner[t]]

(* A process that starts again is a new member, and has nothing assigned.  *)
Start(c) ==
  /\ at[c] = "down"
  /\ at' = [at EXCEPT ![c] = "polling"]
  /\ owner' = WithoutOwner(c)
  /\ UNCHANGED <<log, flaw, committed, reading, outbox, topic, done, position, storeVars, faults, pastVars>>

(* A rebalance ends while its members poll. A topic nobody works on goes   *)
(* to a member, and a member without topics gets one of another's.         *)
Assignable(c, t) ==
  \/ owner[t] = "none"
  \/ \E o \in Consumers \ {c} :
       owner[t] = o /\ (at[o] = "down" \/ (at[o] = "polling" /\ ~Member(c)))

(* Mutant: auto_offset_reset = 'latest', in a group without offsets.       *)
Assign_Latest(c, t) ==
  /\ at[c] = "polling" /\ Assignable(c, t)
  /\ owner' = [owner EXCEPT ![t] = c]
  /\ position' = [position EXCEPT ![c][t] =
       IF committed[t] = 0 THEN Len(log[t]) ELSE committed[t]]
  /\ done' = [done EXCEPT ![c] = position'[c]]
  /\ UNCHANGED <<log, flaw, committed, at, reading, outbox, topic, storeVars, faults, pastVars>>

(* Mutant: a consumer starts at the beginning of a topic it is assigned.   *)
Assign_Earliest(c, t) ==
  /\ at[c] = "polling" /\ Assignable(c, t)
  /\ owner' = [owner EXCEPT ![t] = c]
  /\ position' = [position EXCEPT ![c][t] = 0]
  /\ done' = [done EXCEPT ![c] = position'[c]]
  /\ UNCHANGED <<log, flaw, committed, at, reading, outbox, topic, storeVars, faults, pastVars>>

Assign(c, t) ==
  /\ at[c] = "polling" /\ Assignable(c, t)
  /\ owner' = [owner EXCEPT ![t] = c]
  /\ position' = [position EXCEPT ![c] = [@ EXCEPT ![t] = committed[t]]]
  /\ done' = [done EXCEPT ![c] = position'[c]]
  /\ UNCHANGED <<log, flaw, committed, at, reading, outbox, topic, storeVars, faults, pastVars>>

(* The batch takes longer than the group waits for the next poll.          *)
Evict(c) ==
  /\ at[c] \in Busy /\ Member(c) /\ Fault
  /\ owner' = WithoutOwner(c)
  /\ overlapped' = TRUE
  /\ UNCHANGED <<log, flaw, committed, workerVars, storeVars, lost, uncounted>>

-----------------------------------------------------------------------------
(* BaseKafkaConsumer.run.                                                  *)

(* A batch: some of the next records of each topic, of one topic first.    *)
Poll(c) ==
  /\ at[c] = "polling"
  /\ \E reached \in [Topics -> 0 .. Max({Len(log[t]) : t \in Topics})], first \in Topics :
       /\ \A t \in Topics :
            /\ reached[t] \in position[c][t] .. Len(log[t])
            /\ owner[t] # c => reached[t] = position[c][t]
       /\ reached[first] > position[c][first]
       /\ position' = [position EXCEPT ![c] = reached]
       /\ topic' = [topic EXCEPT ![c] = first]
  /\ at' = [at EXCEPT ![c] = "handling"]
  /\ UNCHANGED <<kafkaVars, reading, outbox, done, storeVars, faults, pastVars>>

(* The process ends with a batch in hand; gone was not sent in time, and   *)
(* the offsets of the group tell what nobody will read again.              *)
CutOff(c, gone, offsets) ==
  /\ lost' = lost \cup ((Left(c) \cup gone) \cap Below(offsets))
  /\ uncounted' = uncounted \cup
       IF at[c] \in {"handling", "reading", "updating"} THEN {Current(c)} ELSE {}
  /\ at' = [at EXCEPT ![c] = "down"]
  /\ outbox' = [outbox EXCEPT ![c] = {}]
  /\ reading' = [reading EXCEPT ![c] = NoFields]
  /\ topic' = [topic EXCEPT ![c] = "none"]
  /\ done' = [done EXCEPT ![c] = NoOffsets]
  /\ position' = [position EXCEPT ![c] = NoOffsets]

(* The finally clause leaves the group and flushes the dead letters.       *)
Stop(c, offsets) ==
  /\ CutOff(c, {}, offsets)
  /\ committed' = offsets
  /\ owner' = WithoutOwner(c)
  /\ dlq' = dlq \cup outbox[c]
  /\ UNCHANGED <<log, flaw, profile, overlapped>>

(* SIGTERM, noticed between two batches.                                   *)
Shutdown(c) ==
  /\ at[c] = "polling" /\ Fault
  /\ Stop(c, committed)
  /\ UNCHANGED table

Kill(c) ==
  /\ at[c] # "down" /\ Fault
  /\ CutOff(c, outbox[c], committed)
  /\ UNCHANGED <<kafkaVars, storeVars, overlapped>>

Step(c, from, to) ==
  /\ at[c] = from
  /\ at' = [at EXCEPT ![c] = to]

(* Mutant: a record that does not decode is logged and skipped.            *)
SendToDlq_Skip(c, from) ==
  /\ Step(c, from, "committing")
  /\ reading' = [reading EXCEPT ![c] = NoFields]
  /\ UNCHANGED <<kafkaVars, outbox, topic, done, position, table, dlq>>

(* _send_to_dlq: nobody waits for the record to be sent.                   *)
SendToDlq(c, from) ==
  /\ Step(c, from, "committing")
  /\ outbox' = [outbox EXCEPT ![c] = @ \cup {Current(c)}]
  /\ reading' = [reading EXCEPT ![c] = NoFields]
  /\ UNCHANGED <<kafkaVars, topic, done, position, table, dlq>>

(* A record does not decode, by itself or for want of the schema registry. *)
Reject(c) ==
  /\ at[c] = "handling" /\ flaw[Current(c)] = "malformed"
  /\ SendToDlq(c, "handling")
  /\ UNCHANGED <<profile, faults, pastVars>>

RegistryFails(c) ==
  /\ Fault
  /\ SendToDlq(c, "handling")
  /\ UNCHANGED <<profile, pastVars>>

(* The event model refuses the record: an exception nobody catches.        *)
Refuse(c) ==
  /\ at[c] = "handling" /\ flaw[Current(c)] = "invalid"
  /\ Stop(c, committed)
  /\ UNCHANGED <<table, faults>>

AfterInsert(e) ==
  IF e \in Ends THEN "committing"
  ELSE IF TopicOf[e] = "sessions" THEN "updating" ELSE "reading"

(* INSERT ... ON CONFLICT DO NOTHING, and commit.                          *)
Insert(c) ==
  /\ at[c] = "handling" /\ flaw[Current(c)] = "none"
  /\ Step(c, "handling", AfterInsert(Current(c)))
  /\ table' = table \cup {Current(c)}
  /\ UNCHANGED <<kafkaVars, reading, outbox, topic, done, position, profile, dlq, faults, pastVars>>

(* After an error the connection is unusable or in a failed transaction,   *)
(* so every retry fails, and the RetryError is not caught.                 *)
InsertFails(c) ==
  /\ at[c] = "handling" /\ flaw[Current(c)] = "none"
  /\ Fault
  /\ Stop(c, committed)
  /\ table' \in {table, table \cup {Current(c)}}

(* Mutant: no HGET, as if the profile had no such field yet.               *)
ReadProfile_Default(c) ==
  /\ Step(c, "reading", "updating")
  /\ UNCHANGED <<kafkaVars, reading, outbox, topic, done, position, storeVars, faults, pastVars>>

(* The HGET that precedes the pipeline.                                    *)
ReadProfile(c) ==
  /\ Step(c, "reading", "updating")
  /\ reading' = [reading EXCEPT ![c] = profile.fields]
  /\ UNCHANGED <<kafkaVars, outbox, topic, done, position, storeVars, faults, pastVars>>

NewFields(c) ==
  LET e == Current(c) IN
    [total |-> reading[c].total + 1, categories |-> reading[c].categories \cup {e}]

(* Mutant: the counter is read and written back like the total.            *)
Updated_WithoutIncrement(c) ==
  [count  |-> [profile.count EXCEPT !["purchases"] = reading[c].total + 1],
   fields |-> [profile.fields EXCEPT !.total = NewFields(c).total]]

(* What the pipeline of the event's handler sets.                          *)
Updated(c) ==
  LET t == TopicOf[Current(c)] IN
    [count  |-> [profile.count EXCEPT ![t] = @ + 1],
     fields |->
       [total |-> IF t = "purchases" THEN NewFields(c).total ELSE profile.fields.total,
        categories |-> IF t = "page_views" THEN NewFields(c).categories
                       ELSE profile.fields.categories]]

(* The pipeline is one MULTI ... EXEC.                                     *)
UpdateProfile(c) ==
  /\ Step(c, "updating", "committing")
  /\ profile' = Updated(c)
  /\ reading' = [reading EXCEPT ![c] = NoFields]
  /\ UNCHANGED <<kafkaVars, outbox, topic, done, position, table, dlq, faults, pastVars>>

RedisFails(c) ==
  /\ Fault
  /\ \/ SendToDlq(c, "reading") /\ profile' = profile
     \/ SendToDlq(c, "updating") /\ profile' \in {profile, Updated(c)}
  /\ uncounted' = uncounted \cup {Current(c)}
  /\ UNCHANGED <<overlapped, lost>>

(* The background thread of the dead-letter producer.                      *)
DeadLetterSent(c) ==
  /\ \E e \in outbox[c] :
       /\ outbox' = [outbox EXCEPT ![c] = @ \ {e}]
       /\ dlq' = dlq \cup {e}
  /\ UNCHANGED <<kafkaVars, at, reading, topic, done, position, table, profile, faults, pastVars>>

(* No fault of its own: what is in the outbox is there after one.          *)
DeadLetterFails(c) ==
  /\ \E e \in outbox[c] :
       /\ outbox' = [outbox EXCEPT ![c] = @ \ {e}]
       /\ lost' = lost \cup {e}
  /\ UNCHANGED <<kafkaVars, at, reading, topic, done, position, storeVars, faults, overlapped, uncounted>>

CommittedBy(c) == [t \in Topics |-> IF owner[t] = c THEN position[c][t] ELSE committed[t]]

Handled(c) == [done[c] EXCEPT ![topic[c]] = @ + 1]

(* The records of a topic are handled before those of another.             *)
NextTopics(c) ==
  LET rest == {t \in Topics : Handled(c)[t] < position[c][t]} IN
    IF topic[c] \in rest THEN {topic[c]} ELSE IF rest = {} THEN {"none"} ELSE rest

(* commit() without offsets: the positions of everything polled.           *)
Commit(c) ==
  /\ at[c] = "committing" /\ Member(c)
  /\ committed' = CommittedBy(c)
  /\ done' = [done EXCEPT ![c] = Handled(c)]
  /\ \E t \in NextTopics(c) :
       /\ topic' = [topic EXCEPT ![c] = t]
       /\ at' = [at EXCEPT ![c] = IF t = "none" THEN "polling" ELSE "handling"]
  /\ UNCHANGED <<log, flaw, owner, reading, outbox, position, storeVars, faults, pastVars>>

(* CommitFailedError: the group has another generation.                    *)
CommitRefused(c) ==
  /\ at[c] = "committing" /\ ~Member(c)
  /\ Stop(c, committed)
  /\ UNCHANGED <<table, faults>>

CommitFails(c) ==
  /\ at[c] = "committing" /\ Member(c)
  /\ Fault
  /\ Stop(c, committed) \/ Stop(c, CommittedBy(c))
  /\ UNCHANGED table

-----------------------------------------------------------------------------
Work(c) ==
  \/ Poll(c) \/ Reject(c) \/ Refuse(c) \/ Insert(c) \/ ReadProfile(c)
  \/ UpdateProfile(c) \/ Commit(c) \/ CommitRefused(c)

Failure(c) ==
  \/ Evict(c) \/ Kill(c) \/ RegistryFails(c) \/ InsertFails(c) \/ RedisFails(c)
  \/ DeadLetterFails(c) \/ CommitFails(c)

Next ==
  \/ \E e \in Events : Produce(e) \/ ProduceTwice(e) \/ ProduceFlawed(e)
  \/ \E c \in Consumers : Start(c) \/ Shutdown(c) \/ Work(c) \/ DeadLetterSent(c) \/ Failure(c)
  \/ \E c \in Consumers, t \in Topics : Assign(c, t)

Spec == Init /\ [][Next]_vars

(* A running consumer goes on, its producer sends, and the group assigns   *)
(* every topic. Nobody has to start a consumer, or another one.            *)
FairSpec ==
  /\ Spec
  /\ \A c \in Consumers : WF_vars(Work(c)) /\ WF_vars(DeadLetterSent(c))
  /\ \A t \in Topics : WF_vars(\E c \in Consumers : Assign(c, t))

-----------------------------------------------------------------------------
InHand(c) == Left(c) \cup outbox[c]

(* A record below the committed offset is stored, dead-lettered or in the  *)
(* hands of a running consumer, unless a consumer died with it in hand or  *)
(* the dead-letter topic refused it: although offsets are committed ahead  *)
(* of the work, rebalances and evictions lose nothing.                     *)
NothingUnaccounted ==
  \A t \in Topics : \A i \in 1 .. committed[t] :
    LET e == log[t][i] IN
      e \in table \cup dlq \cup lost \/ \E c \in Consumers : e \in InHand(c)

(* The counters of the profile never fall behind the rows, whatever is     *)
(* delivered twice and however consumers overlap, but for the events that  *)
(* are being counted, and those whose update failed or was cut off.        *)
BeingCounted == {Current(c) : c \in {d \in Consumers : at[d] \in {"reading", "updating"}}}
RowsAreCounted ==
  \A t \in Topics :
    Cardinality({e \in table \ (Ends \cup BeingCounted \cup uncounted) : TopicOf[e] = t})
      <= profile.count[t]

(* While no consumer works on partitions that were taken from it, the      *)
(* total spent is that of the purchases counted, and no category is there  *)
(* without a page view, through crashes, failures and redeliveries.        *)
ProfileAgrees ==
  ~overlapped =>
    /\ profile.fields.total = profile.count["purchases"]
    /\ Cardinality(profile.fields.categories) <= profile.count["page_views"]

(* The rows and the profile are what EventStore promises to their readers, *)
(* through crashes, failures, redeliveries and overlapping consumers.      *)
EventStore == INSTANCE EventStore WITH
  rows <- table, count <- profile.count, total <- profile.fields.total,
  categories <- profile.fields.categories, disturbed <- overlapped
KeepsStore == EventStore!StoreSpec

(* While a consumer is running, every event is stored, dead-lettered or    *)
(* lost with a consumer in the end, unless a record that the event models  *)
(* refuse has stopped the consumers.                                       *)
EventsAreConsumed ==
  \A e \in Events :
    ~Fresh(e) ~>
      \/ e \in table \cup dlq \cup lost
      \/ \A c \in Consumers : at[c] = "down"
      \/ \E x \in Events : flaw[x] = "invalid"

(* The committed offset of a topic never goes back, whoever commits it,    *)
(* although consumers overlap and commit more than they have done.         *)
OffsetsNeverFall == [][\A t \in Topics : committed[t] <= committed'[t]]_vars

(* The inductive invariant behind the safety properties. Offsets only      *)
(* rise, for a running consumer is at or past what is committed in its     *)
(* topics; what it has passed beyond that is accounted for or in its own   *)
(* hands. While no consumer works on after an eviction, each works on      *)
(* records of its own topics, and what it has read of the profile is true. *)
Accounted(e) == e \in table \cup dlq \cup lost
LogInv == \A t \in Topics : \A i \in 1 .. Len(log[t]) : TopicOf[log[t][i]] = t
ConsumerInv(c) ==
  /\ at[c] \in {"reading", "updating"} => Current(c) \in table \ Ends
  /\ at[c] = "committing" => Accounted(Current(c)) \/ Current(c) \in outbox[c]
  /\ \A t \in Topics :
       /\ at[c] # "down" /\ owner[t] = c => committed[t] <= position[c][t]
       /\ \A i \in 1 .. position[c][t] :
            i <= committed[t] \/ Accounted(log[t][i]) \/ log[t][i] \in InHand(c)
SoleInv(c) ==
  /\ \A t \in Topics : done[c][t] < position[c][t] => owner[t] = c
  /\ at[c] = "updating" =>
       /\ topic[c] = "purchases" => reading[c].total = profile.fields.total
       /\ topic[c] = "page_views" => reading[c].categories = profile.fields.categories

IngestionInv ==
  /\ IngestionTypeOK /\ LogInv
  /\ \A c \in Consumers : ConsumerInv(c)
  /\ NothingUnaccounted /\ RowsAreCounted
  /\ ~overlapped => \A c \in Consumers : SoleInv(c)
  /\ ProfileAgrees

(* Behind EventStore: whatever is in the profile, or was read of it, has   *)
(* been stored and counted, even after an overlap.                         *)
NoMoreThanStored(fields) ==
  fields.total <= profile.count["purchases"] /\ fields.categories \subseteq table
ProfileInv ==
  /\ NoMoreThanStored(profile.fields)
  /\ \A c \in Consumers : NoMoreThanStored(reading[c])

(* What the repository says. kafka_lag_sensor.py:4: a lag of zero is to    *)
(* "ensure behavioral events have been fully consumed".                    *)
Lag(t) == Len(log[t]) - committed[t]
NoLagMeansConsumed ==
  \A t \in Topics : Lag(t) = 0 => ToSet(log[t]) \subseteq table \cup dlq
=============================================================================
