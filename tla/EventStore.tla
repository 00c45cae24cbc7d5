------------------------------ MODULE EventStore ------------------------------
(***************************************************************************)
(* What the readers of behavioral_events and of the profile hash of a user *)
(* may rely on, however the events came there: feature engineering reads   *)
(* the rows, inference the profile.                                        *)
(*                                                                         *)
(* A row never changes and never goes. The profile counts an event whose   *)
(* row is there, maybe again, and at once: its counter, and the total or   *)
(* the categories that go with it. Once consumers have overlapped, a total *)
(* or a set of categories may be an old one carried on: updates are lost,  *)
(* and yet nothing is in the profile that was not stored and counted.      *)
(***************************************************************************)
EXTENDS Naturals

CONSTANTS
  Events,     \* event ids
  AllTopics,  \* the topics, one counter each
  TopicOf,    \* the topic of each event, one of AllTopics
  Ends        \* the events no profile counts

VARIABLES rows, count, total, categories, disturbed

storeVars == <<rows, count, total, categories, disturbed>>

StoreInit ==
  /\ rows = {} /\ categories = {}
  /\ count = [t \in AllTopics |-> 0] /\ total = 0
  /\ disturbed = FALSE

Store(e) ==
  /\ rows' = rows \cup {e}
  /\ UNCHANGED <<count, total, categories, disturbed>>

Totals == IF disturbed THEN 1 .. count["purchases"] + 1 ELSE {total + 1}
CategorySets(e) ==
  IF disturbed THEN {s \in SUBSET rows : e \in s} ELSE {categories \cup {e}}

Count(e) ==
  /\ e \in rows \ Ends
  /\ count' = [count EXCEPT ![TopicOf[e]] = @ + 1]
  /\ total' \in IF TopicOf[e] = "purchases" THEN Totals ELSE {total}
  /\ categories' \in IF TopicOf[e] = "page_views" THEN CategorySets(e) ELSE {categories}
  /\ UNCHANGED <<rows, disturbed>>

Overlap ==
  /\ disturbed' = TRUE
  /\ UNCHANGED <<rows, count, total, categories>>

StoreNext == (\E e \in Events : Store(e) \/ Count(e)) \/ Overlap
StoreSpec == StoreInit /\ [][StoreNext]_storeVars
=============================================================================
