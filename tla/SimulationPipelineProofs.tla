----------------------- MODULE SimulationPipelineProofs -----------------------
(***************************************************************************)
(* Proofs about InferenceCache, for any callers and prompts, and about     *)
(* SimulationPipeline, whose tasks and jobs make the calls, for any DAG    *)
(* runs, jobs and runs.                                                    *)
(***************************************************************************)
EXTENDS SimulationPipeline, TLAPS

-----------------------------------------------------------------------------
(* The cache.                                                              *)

(* The contents of a file are told apart.                                  *)
LEMMA Contents ==
  /\ Nothing(Absent) # Nothing(Empty) /\ Nothing(Absent) # Nothing(Garbled)
  /\ Nothing(Empty) # Nothing(Garbled)
  /\ Nothing(Absent)[1] # "whole" /\ Nothing(Empty)[1] # "whole" /\ Nothing(Garbled)[1] # "whole"
  /\ Nothing(Absent) \in Files /\ Nothing(Empty) \in Files /\ Nothing(Garbled) \in Files
  /\ Nothing(Empty)[2] = None /\ Nothing(Garbled)[2] = None
  /\ \A a : /\ Whole(a) # Nothing(Absent) /\ Whole(a) # Nothing(Empty)
            /\ Whole(a) # Nothing(Garbled)
            /\ Whole(a)[1] = "whole" /\ Whole(a)[2] = a
  /\ \A a \in Answers : Whole(a) \in Files
BY DEF Nothing, Whole, Absent, Empty, Garbled, Files

(* A file that holds a whole answer holds one of Answers.                  *)
LEMMA WholeFile ==
  ASSUME NEW f \in Files, f[1] = "whole"
  PROVE  f[2] \in Answers /\ f = Whole(f[2])
BY DEF Files, Whole, Absent, Empty, Garbled

(* No caller has asked at first, and no file exists.                       *)
LEMMA InvInit == CacheInit => CacheInv
<1> SUFFICES ASSUME CacheInit PROVE CacheInv
  OBVIOUS
<1> USE CacheAssumption DEF CacheInit
<1>1. CacheTypeOK
  BY Contents DEF CacheTypeOK, CallSteps, Resting
<1>2. \A c \in Callers : CallInv(c)
  BY DEF CallInv
<1>3. \A k \in Keys : file[k][1] # "whole" /\ file[k] = Nothing(Absent)
  BY Contents
<1>4. UnreadableForCause /\ PaidOnce
  BY <1>3, Contents DEF UnreadableForCause, PaidOnce
<1>5. QED
  BY <1>1, <1>2, <1>3, <1>4 DEF CacheInv

(* A step of a call that pays nothing and writes nothing, and that leads   *)
(* neither to a write nor to an answer, except for an answer that is good. *)
LEMMA InvQuiet ==
  ASSUME CacheInv, NEW c \in Callers, NEW s \in CallSteps \ {"opening"},
         cstep' = [cstep EXCEPT ![c] = s],
         UNCHANGED <<file, asked>>,
         got' \in [Callers -> Answers \cup {None}],
         \A d \in Callers \ {c} : got'[d] = got[d],
         broke' \in {broke, broke \cup {c}},
         cstep[c] = "writing" => c \in broke',
         cstep[c] = "opening" => c \in broke',
         s = "asking" => file[KeyOf[c]] = Nothing(Absent) /\ cstep[c] # "opening",
         s = "reading" => file[KeyOf[c]] # Nothing(Absent),
         s # "writing",
         s \in {"parsing", "answered"} => PaidFor(got'[c], KeyOf[c]),
         s = "answered" => got'[c].good
  PROVE  CacheInv'
<1> USE CacheAssumption DEF CacheInv
<1>1. CacheTypeOK'
  BY DEF CacheTypeOK
<1>2. \A d \in Callers : CallInv(d)'
  <2> SUFFICES ASSUME NEW d \in Callers PROVE CallInv(d)'
    OBVIOUS
  <2>1. CallInv(d) /\ KeyOf[d] \in Keys
    OBVIOUS
  <2>2. CASE d = c
    BY <2>1, <2>2 DEF CallInv, CacheTypeOK, PaidFor
  <2>3. CASE d # c
    BY <2>1, <2>3 DEF CallInv, CacheTypeOK, PaidFor
  <2>4. QED
    BY <2>2, <2>3
<1>3. (\A k \in Keys : file[k][1] = "whole" => PaidFor(file[k][2], k))'
  BY DEF PaidFor
<1>4. UnreadableForCause'
  BY DEF UnreadableForCause, CacheTypeOK
<1>5. PaidOnce'
  BY DEF PaidOnce
<1>6. QED
  BY <1>1, <1>2, <1>3, <1>4, <1>5

(* The model answers: a second answer to one who was interrupted.          *)
LEMMA InvAsk ==
  ASSUME CacheInv, NEW c \in Callers, Ask(c)
  PROVE  CacheInv'
<1> USE CacheAssumption DEF CacheInv
<1>1. PICK good \in BOOLEAN : got' = [got EXCEPT ![c] = [by |-> c, good |-> good]]
  BY DEF Ask
<1>2. /\ cstep[c] = "asking" /\ cstep' = [cstep EXCEPT ![c] = "opening"]
      /\ asked' = [asked EXCEPT ![c] = @ + 1]
      /\ UNCHANGED <<file, broke>>
  BY DEF Ask, CallGoes
<1>3. CacheTypeOK'
  BY <1>1, <1>2 DEF CacheTypeOK, CallSteps, Asking, Answers
<1>4. asked[c] > 0 => c \in broke
  BY <1>2 DEF CallInv
<1>5. \A a, k : PaidFor(a, k) => PaidFor(a, k)'
  BY <1>2 DEF PaidFor, CallersOf, CacheTypeOK
<1>6. file[KeyOf[c]][2].by = c /\ file[KeyOf[c]][1] = "whole" => c \in broke
  BY <1>4 DEF PaidFor
<1>7. \A d \in Callers : CallInv(d)'
  <2> SUFFICES ASSUME NEW d \in Callers PROVE CallInv(d)'
    OBVIOUS
  <2>1. CallInv(d) /\ KeyOf[d] \in Keys
    OBVIOUS
  <2>2. CASE d = c
    BY <2>1, <2>2, <1>1, <1>2, <1>4, <1>6 DEF CallInv, CacheTypeOK, PaidFor, CallersOf
  <2>3. CASE d # c
    BY <2>1, <2>3, <1>1, <1>2, <1>5 DEF CallInv, CacheTypeOK
  <2>4. QED
    BY <2>2, <2>3
<1>8. (\A k \in Keys : file[k][1] = "whole" => PaidFor(file[k][2], k))'
  BY <1>2, <1>5
<1>9. UnreadableForCause'
  BY <1>2 DEF UnreadableForCause, CacheTypeOK, CallersOf
<1>10. PaidOnce'
  BY <1>2, <1>4 DEF PaidOnce, CacheTypeOK
<1>11. QED
  BY <1>3, <1>7, <1>8, <1>9, <1>10

(* The file is truncated: it is empty, and its writer is at it.            *)
LEMMA InvOpen ==
  ASSUME CacheInv, NEW c \in Callers, Open(c)
  PROVE  CacheInv'
<1> USE CacheAssumption DEF CacheInv
<1> DEFINE k == KeyOf[c]
<1>1. /\ cstep[c] = "opening" /\ cstep' = [cstep EXCEPT ![c] = "writing"]
      /\ file' = [file EXCEPT ![k] = Nothing(Empty)]
      /\ UNCHANGED <<got, asked, broke>>
      /\ k \in Keys
  BY DEF Open, CallGoes
<1>2. CacheTypeOK'
  BY <1>1, Contents DEF CacheTypeOK, CallSteps, Asking
<1>3. file'[k] = Nothing(Empty)
  BY <1>1 DEF CacheTypeOK
<1>4. \A d \in Callers : CallInv(d)'
  <2> SUFFICES ASSUME NEW d \in Callers PROVE CallInv(d)'
    OBVIOUS
  <2>1. CallInv(d) /\ KeyOf[d] \in Keys
    OBVIOUS
  <2>2. CASE d = c
    BY <2>1, <2>2, <1>1, <1>3, Contents DEF CallInv, CacheTypeOK, PaidFor
  <2>3. CASE d # c /\ KeyOf[d] = k
    BY <2>1, <2>3, <1>1, <1>3, Contents DEF CallInv, CacheTypeOK, PaidFor
  <2>4. CASE d # c /\ KeyOf[d] # k
    BY <2>1, <2>4, <1>1 DEF CallInv, CacheTypeOK, PaidFor
  <2>5. QED
    BY <2>2, <2>3, <2>4
<1>5. (\A j \in Keys : file[j][1] = "whole" => PaidFor(file[j][2], j))'
  BY <1>1, <1>3, Contents DEF PaidFor, CacheTypeOK
<1>6. UnreadableForCause'
  <2> SUFFICES ASSUME NEW j \in Keys
               PROVE  /\ file'[j] = Nothing(Empty) =>
                           \E d \in CallersOf(j) : cstep'[d] = "writing" \/ d \in broke
                      /\ file'[j] = Nothing(Garbled) =>
                           \/ \E d \in CallersOf(j) : d \in broke
                           \/ \E d, e \in CallersOf(j) :
                                d # e /\ asked[d] > 0 /\ asked[e] > 0
    BY <1>1 DEF UnreadableForCause
  <2>1. CASE j = k
    BY <2>1, <1>1, <1>3, Contents DEF CallersOf, CacheTypeOK
  <2>2. CASE j # k
    BY <2>2, <1>1 DEF UnreadableForCause, CallersOf, CacheTypeOK
  <2>3. QED
    BY <2>1, <2>2
<1>7. PaidOnce'
  BY <1>1 DEF PaidOnce
<1>8. QED
  BY <1>2, <1>4, <1>5, <1>6, <1>7

(* The file is written, whole or over what another caller wrote; or it is  *)
(* written in part by a caller that is interrupted.                        *)
LEMMA InvWritten ==
  ASSUME CacheInv, NEW c \in Callers, NEW s \in {"parsing", "failed"}, NEW f,
         cstep[c] = "writing", cstep' = [cstep EXCEPT ![c] = s],
         file' = [file EXCEPT ![KeyOf[c]] = f],
         UNCHANGED <<got, asked>>,
         broke' = IF s = "failed" THEN broke \cup {c} ELSE broke,
         f \in {Whole(got[c]), Nothing(Garbled)},
         f = Nothing(Garbled) /\ s = "parsing" => file[KeyOf[c]] # Nothing(Empty)
  PROVE  CacheInv'
<1> USE CacheAssumption DEF CacheInv
<1> DEFINE k == KeyOf[c]
<1>1. k \in Keys /\ got[c].by = c /\ PaidFor(got[c], k) /\ file[k] # Nothing(Absent)
  BY DEF CallInv
<1>2. got[c] \in Answers
  <2>1. CASE got[c] = None
    BY <2>1, <1>1 DEF None, Answers
  <2>2. QED
    BY <2>1 DEF CacheTypeOK
<1>3. f \in Files /\ f # Nothing(Absent) /\ f # Nothing(Empty)
      /\ (f[1] = "whole" => f[2] = got[c])
  BY <1>2, Contents
<1>4. CacheTypeOK'
  BY <1>3 DEF CacheTypeOK, CallSteps, Resting
<1>5. file'[k] = f /\ \A j \in Keys \ {k} : file'[j] = file[j]
  BY <1>1 DEF CacheTypeOK
<1>6. \A d \in Callers : CallInv(d)'
  <2> SUFFICES ASSUME NEW d \in Callers PROVE CallInv(d)'
    OBVIOUS
  <2>1. CallInv(d) /\ KeyOf[d] \in Keys
    OBVIOUS
  <2>2. CASE d = c
    BY <2>1, <2>2, <1>1, <1>3, <1>5 DEF CallInv, CacheTypeOK, PaidFor
  <2>3. CASE d # c /\ KeyOf[d] = k
    BY <2>1, <2>3, <1>1, <1>3, <1>5 DEF CallInv, CacheTypeOK, PaidFor
  <2>4. CASE d # c /\ KeyOf[d] # k
    BY <2>1, <2>4, <1>5 DEF CallInv, CacheTypeOK, PaidFor
  <2>5. QED
    BY <2>2, <2>3, <2>4
<1>7. (\A j \in Keys : file[j][1] = "whole" => PaidFor(file[j][2], j))'
  BY <1>1, <1>3, <1>5 DEF PaidFor
<1>8. UnreadableForCause'
  <2> DEFINE Cause(j) ==
               \/ \E d \in CallersOf(j) : d \in broke'
               \/ \E d, e \in CallersOf(j) : d # e /\ asked[d] > 0 /\ asked[e] > 0
  <2>1. broke \subseteq broke' /\ c \in CallersOf(k)
    BY DEF CallersOf
  <2>2. file[k] = Nothing(Garbled) => Cause(k)
    BY <2>1, <1>1 DEF UnreadableForCause
  <2>3. ASSUME f = Nothing(Garbled) PROVE Cause(k)
    <3>1. CASE s = "failed"
      BY <3>1, <2>1
    <3>2. CASE s = "parsing" /\ file[k] # Nothing(Garbled)
      <4>1. file[k][1] = "whole"
        BY <1>1, <2>3, <3>2 DEF CacheTypeOK, Files, Nothing, Absent, Empty, Garbled
      <4>2. PaidFor(file[k][2], k)
        BY <4>1, <1>1
      <4>3. asked[c] > 0 /\ (c \notin broke => file[k][2].by # c)
        BY <4>1, <1>1 DEF CallInv, PaidFor
      <4>4. QED
        BY <4>2, <4>3, <2>1 DEF PaidFor
    <3>3. CASE s = "parsing" /\ file[k] = Nothing(Garbled)
      BY <3>3, <2>2
    <3>4. QED
      BY <3>1, <3>2, <3>3
  <2> SUFFICES ASSUME NEW j \in Keys
               PROVE  /\ file'[j] = Nothing(Empty) =>
                           \E d \in CallersOf(j) : cstep'[d] = "writing" \/ d \in broke'
                      /\ file'[j] = Nothing(Garbled) => Cause(j)
    BY DEF UnreadableForCause
  <2>4. CASE j = k
    BY <2>4, <2>3, <1>3, <1>5
  <2>5. CASE j # k
    <3>1. c \notin CallersOf(j) /\ file'[j] = file[j]
      BY <2>5, <1>5 DEF CallersOf
    <3>2. file[j] = Nothing(Empty) =>
            \E d \in CallersOf(j) : cstep'[d] = "writing" \/ d \in broke'
      BY <3>1, <2>1 DEF UnreadableForCause, CallersOf, CacheTypeOK
    <3>3. file[j] = Nothing(Garbled) => Cause(j)
      BY <2>1 DEF UnreadableForCause
    <3>4. QED
      BY <3>1, <3>2, <3>3
  <2>6. QED
    BY <2>4, <2>5
<1>9. PaidOnce'
  BY DEF PaidOnce
<1>10. QED
  BY <1>4, <1>6, <1>7, <1>8, <1>9

(* Every step keeps the invariant.                                         *)
LEMMA InvNext == CacheInv /\ [CacheNext]_cacheVars => CacheInv'
<1> SUFFICES ASSUME CacheInv, [CacheNext]_cacheVars PROVE CacheInv'
  OBVIOUS
<1> USE CacheAssumption
<1>1. ASSUME NEW c \in Callers, Begin(c) PROVE CacheInv'
  <2>1. /\ cstep[c] \in Resting /\ cstep' = [cstep EXCEPT ![c] = "looking"]
        /\ got' = [got EXCEPT ![c] = None] /\ UNCHANGED <<file, asked, broke>>
    BY <1>1 DEF Begin, CallGoes
  <2>2. QED
    BY <2>1, InvQuiet DEF CacheInv, CacheTypeOK, CallSteps, Resting
<1>2. ASSUME NEW c \in Callers, Look(c) PROVE CacheInv'
  <2> DEFINE s == IF file[KeyOf[c]] = Nothing(Absent) THEN "asking" ELSE "reading"
  <2>1. /\ cstep[c] = "looking" /\ cstep' = [cstep EXCEPT ![c] = s]
        /\ UNCHANGED <<file, got, asked, broke>>
    BY <1>2 DEF Look, CallGoes
  <2>2. /\ s \in CallSteps \ {"opening", "writing", "parsing", "answered"}
        /\ s = "asking" => file[KeyOf[c]] = Nothing(Absent)
        /\ s = "reading" => file[KeyOf[c]] # Nothing(Absent)
    BY DEF CallSteps, Asking
  <2> HIDE DEF s
  <2>3. QED
    BY <2>1, <2>2, InvQuiet DEF CacheInv, CacheTypeOK
<1>3. ASSUME NEW c \in Callers, Write(c) PROVE CacheInv'
  <2>1. /\ cstep[c] = "writing" /\ cstep' = [cstep EXCEPT ![c] = "parsing"]
        /\ UNCHANGED <<got, asked, broke>>
    BY <1>3 DEF Write, CallGoes
  <2>2. PICK f \in {Whole(got[c]), Nothing(Garbled)} :
          /\ file' = [file EXCEPT ![KeyOf[c]] = f]
          /\ f = Nothing(Garbled) => file[KeyOf[c]] # Nothing(Empty)
    <3>1. CASE file' = [file EXCEPT ![KeyOf[c]] = Whole(got[c])]
      BY <3>1, Contents
    <3>2. CASE /\ file[KeyOf[c]] # Nothing(Empty)
               /\ file' = [file EXCEPT ![KeyOf[c]] = Nothing(Garbled)]
      BY <3>2
    <3>3. QED
      BY <1>3, <3>1, <3>2 DEF Write
  <2>3. QED
    BY <2>1, <2>2, InvWritten
<1>4. ASSUME NEW c \in Callers, Read(c) PROVE CacheInv'
  <2>1. cstep[c] = "reading" /\ UNCHANGED <<file, asked, broke>>
    BY <1>4 DEF Read, CallGoes
  <2>2. CASE file[KeyOf[c]][1] = "whole"
    <3> DEFINE a == file[KeyOf[c]][2]
    <3>1. cstep' = [cstep EXCEPT ![c] = "parsing"] /\ got' = [got EXCEPT ![c] = a]
      BY <1>4, <2>2 DEF Read, CallGoes
    <3>2. a \in Answers /\ PaidFor(a, KeyOf[c])
      BY <2>2, WholeFile DEF CacheInv, CacheTypeOK
    <3> HIDE DEF a
    <3>3. QED
      BY <2>1, <3>1, <3>2, InvQuiet DEF CacheInv, CacheTypeOK, CallSteps
  <2>3. CASE file[KeyOf[c]][1] # "whole"
    <3>1. cstep' = [cstep EXCEPT ![c] = "failed"] /\ UNCHANGED got
      BY <1>4, <2>3 DEF Read, CallGoes
    <3>2. QED
      BY <2>1, <3>1, InvQuiet DEF CacheInv, CacheTypeOK, CallSteps, Resting
  <2>4. QED
    BY <2>2, <2>3
<1>5. ASSUME NEW c \in Callers, Parse(c) PROVE CacheInv'
  <2> DEFINE s == IF got[c].good THEN "answered" ELSE "failed"
  <2>1. /\ cstep[c] = "parsing" /\ cstep' = [cstep EXCEPT ![c] = s]
        /\ UNCHANGED <<file, got, asked, broke>>
    BY <1>5 DEF Parse, CallGoes
  <2>2. /\ s \in CallSteps \ {"opening", "writing", "asking", "reading", "parsing"}
        /\ s = "answered" => got[c].good
        /\ PaidFor(got[c], KeyOf[c])
    BY <2>1 DEF CallSteps, Resting, CacheInv, CallInv
  <2> HIDE DEF s
  <2>3. QED
    BY <2>1, <2>2, InvQuiet DEF CacheInv, CacheTypeOK
<1>6. ASSUME NEW c \in Callers, Break(c) PROVE CacheInv'
  <2>1. /\ cstep' = [cstep EXCEPT ![c] = "failed"]
        /\ broke' = IF cstep[c] \in {"opening", "writing"} THEN broke \cup {c} ELSE broke
        /\ UNCHANGED <<got, asked>>
    BY <1>6 DEF Break, CallGoes
  <2>2. CASE UNCHANGED file
    BY <2>1, <2>2, InvQuiet DEF CacheInv, CacheTypeOK, CallSteps, Resting
  <2>3. CASE /\ cstep[c] = "writing"
             /\ file' = [file EXCEPT ![KeyOf[c]] = Nothing(Garbled)]
    BY <2>1, <2>3, InvWritten
  <2>4. QED
    BY <1>6, <2>2, <2>3 DEF Break
<1>7. CASE UNCHANGED cacheVars
  BY <1>7 DEF cacheVars, CacheInv, CacheTypeOK, CallInv, PaidFor, UnreadableForCause, PaidOnce
<1>8. QED
  BY <1>1, <1>2, <1>3, <1>4, <1>5, <1>6, <1>7, InvAsk, InvOpen DEF CacheNext, CallStep

(* The inductive invariant.                                                *)
THEOREM CacheInvariant == CacheSpec => []CacheInv
BY InvInit, InvNext, PTL DEF CacheSpec

(* A file nobody can read has its cause.                                   *)
THEOREM UnreadableFiles == CacheSpec => []UnreadableForCause
<1>1. CacheInv => UnreadableForCause
  BY DEF CacheInv
<1>2. QED
  BY <1>1, CacheInvariant, PTL

(* Nobody pays twice without an interruption; who gets an answer gets a    *)
(* good one, paid for with the same prompt.                                *)
THEOREM PaidAnswers == CacheSpec => [](PaidOnce /\ AnsweredTruly)
<1>1. CacheInv => PaidOnce /\ AnsweredTruly
  BY DEF CacheInv, CallInv, AnsweredTruly
<1>2. QED
  BY <1>1, CacheInvariant, PTL

(* A file nobody is about to write keeps its content for ever.             *)
THEOREM CacheSettles == CacheSpec => SettledForGood
<1>1. ASSUME CacheInv, CacheNext, NEW k \in Keys, Settled(k)
      PROVE  Settled(k)' /\ file'[k] = file[k]
  <2> USE CacheAssumption DEF CacheInv
  <2>1. PICK c \in Callers : Begin(c) \/ CallStep(c) \/ Break(c)
    BY <1>1 DEF CacheNext
  <2>2. PICK s : cstep' = [cstep EXCEPT ![c] = s]
    <3>1. \A from, to : CallGoes(c, from, to) => \E s : cstep' = [cstep EXCEPT ![c] = s]
      BY DEF CallGoes
    <3>2. \E from, to : CallGoes(c, from, to)
      BY <2>1 DEF CallStep, Begin, Look, Ask, Open, Write, Read, Parse, Break
    <3>3. QED
      BY <3>1, <3>2
  <2>3. CASE KeyOf[c] # k
    <3>1. UNCHANGED file \/ \E f : file' = [file EXCEPT ![KeyOf[c]] = f]
      BY <2>1 DEF CallStep, Begin, Look, Ask, Open, Write, Read, Parse, Break
    <3>2. file'[k] = file[k]
      BY <1>1, <2>3, <3>1 DEF CacheTypeOK
    <3>3. \A d \in CallersOf(k) : cstep'[d] = cstep[d]
      BY <1>1, <2>2, <2>3 DEF CallersOf, CacheTypeOK
    <3>4. QED
      BY <1>1, <3>2, <3>3 DEF Settled, CallersOf
  <2>4. CASE KeyOf[c] = k
    <3>1. cstep[c] \notin Asking /\ file[k] # Nothing(Absent)
      BY <1>1, <2>4 DEF Settled, CallersOf
    <3>2. Begin(c) \/ Look(c) \/ Read(c) \/ Parse(c) \/ Break(c)
      BY <2>1, <3>1 DEF CallStep, Ask, Open, Write, CallGoes, Asking
    <3>3. file' = file
      BY <3>1, <3>2 DEF Begin, Look, Read, Parse, Break, Asking
    <3>4. cstep'[c] = s
      BY <1>1, <2>2 DEF CacheTypeOK
    <3>5. s \notin Asking
      <4>1. \A from, to : CallGoes(c, from, to) => s = to
        BY <1>1, <3>4 DEF CallGoes, CacheTypeOK
      <4>2. CASE Begin(c) \/ Break(c)
        BY <4>1, <4>2 DEF Begin, Break, Asking
      <4>3. CASE Read(c)
        BY <4>1, <4>3 DEF Read, Asking
      <4>4. CASE Parse(c)
        BY <4>1, <4>4 DEF Parse, Asking
      <4>5. CASE Look(c)
        BY <4>1, <4>5, <2>4, <3>1 DEF Look, Asking
      <4>6. QED
        BY <3>2, <4>2, <4>3, <4>4, <4>5
    <3>6. \A d \in CallersOf(k) : cstep'[d] \in {cstep[d], s}
      BY <1>1, <2>2 DEF CallersOf, CacheTypeOK
    <3>7. QED
      BY <1>1, <3>1, <3>3, <3>5, <3>6 DEF Settled, CallersOf
  <2>5. QED
    BY <2>3, <2>4
<1>2. CacheInv /\ [CacheNext]_cacheVars
        => [\A k \in Keys : Settled(k) => Settled(k)' /\ file'[k] = file[k]]_cacheVars
  BY <1>1
<1>3. QED
  BY <1>2, CacheInvariant, PTL DEF CacheSpec, SettledForGood

-----------------------------------------------------------------------------
(* The pipeline. What is given to it is expanded wherever it occurs.       *)
USE DEF given

(* A step of the pipeline is a step of one caller of the cache, or leaves  *)
(* the cache alone.                                                        *)
LEMMA StepsOfCalls ==
  ASSUME Next
  PROVE  UNCHANGED cacheVars \/ CacheNext
<1> USE PipelineAssumption DEF CacheNext
<1>1. ASSUME NEW p \in Pipelines, PipelineStep(p)
      PROVE  UNCHANGED cacheVars \/ CacheNext
  BY <1>1 DEF PipelineStep, InitRun, HandOn, WaitForKafkaDrain, FetchSegment,
     RunFeatureEngineering, StimulusRefused, BeginInference, EndInference, InferenceFails,
     ScoreAndPersist, TaskDies
<1>2. ASSUME NEW j \in Jobs, JobStep(j)
      PROVE  UNCHANGED cacheVars \/ CacheNext
  BY <1>2 DEF JobStep, JobStarts, JobDropped, JobWrites, JobEnds, JobDies
<1>3. ASSUME NEW c \in Callers, CallGoesOn(c) \/ CallBreaks(c)
      PROVE  UNCHANGED cacheVars \/ CacheNext
  BY <1>3 DEF CallGoesOn, CallBreaks
<1>4. CASE DeleteSegment
  BY <1>4 DEF DeleteSegment
<1>5. QED
  BY <1>1, <1>2, <1>3, <1>4 DEF Next

(* The pipeline and the worker use the cache as InferenceCache says.       *)
THEOREM PipelineUsesCache == Spec => CacheSpec
<1>1. Init => CacheInit
  BY DEF Init
<1>2. [Next]_vars => [CacheNext]_cacheVars
  BY StepsOfCalls DEF vars
<1>3. QED
  BY <1>1, <1>2, PTL DEF Spec, CacheSpec

(* What is proved of every use of the cache holds of this one.             *)
THEOREM PipelineCache ==
  Spec => /\ []CacheInv
          /\ [](UnreadableForCause /\ PaidOnce /\ AnsweredTruly)
          /\ SettledForGood
BY PipelineUsesCache, CacheInvariant, UnreadableFiles, PaidAnswers, CacheSettles, PTL

-----------------------------------------------------------------------------
(* Types.                                                                  *)

(* A step of a call changes the position of its caller only.               *)
LEMMA OthersStay ==
  ASSUME CacheTypeOK, NEW c \in Callers, Begin(c) \/ CallStep(c) \/ Break(c),
         NEW d \in Callers, d # c
  PROVE  cstep'[d] = cstep[d]
<1>1. PICK s : cstep' = [cstep EXCEPT ![c] = s]
  BY DEF CallStep, Begin, Look, Ask, Open, Write, Read, Parse, Break, CallGoes
<1>2. QED
  BY <1>1 DEF CacheTypeOK

(* Advance and TaskFails move one DAG run.                                 *)
LEMMA TaskMoves ==
  ASSUME PipelineTypeOK, NEW p \in Pipelines, task[p] \in Tasks,
         Advance(p) \/ TaskFails(p)
  PROVE  /\ task' \in [Pipelines -> Tasks \cup Ends]
         /\ \A q \in Pipelines \ {p} : task'[q] = task[q]
         /\ tries' \in [Callers -> Nat]
         /\ \A q \in Pipelines : tries'[q] <= Retries
         /\ \A j \in Jobs : tries'[j] <= MaxTries
<1> USE PipelineAssumption DEF PipelineTypeOK
<1>1. CASE Advance(p)
  <2>1. After[task[p]] \in Tasks \cup Ends
    BY DEF After, Tasks, Ends
  <2>2. task' = [task EXCEPT ![p] = After[task[p]]] /\ tries' = [tries EXCEPT ![p] = 0]
    BY <1>1 DEF Advance
  <2>3. QED
    BY <2>1, <2>2
<1>2. CASE TaskFails(p) /\ tries[p] < Retries
  BY <1>2 DEF TaskFails
<1>3. CASE TaskFails(p) /\ ~(tries[p] < Retries)
  BY <1>3 DEF TaskFails, Ends
<1>4. QED
  BY <1>1, <1>2, <1>3

(* What a step of a DAG run may do: hand its task on or fail it, store its *)
(* answer, begin a call.                                                   *)
Effect(p) ==
  /\ UNCHANGED <<given, segment, erased, jpc>>
  /\ budget' \in {budget, budget - 1}
  /\ budget' # budget => budget > 0
  /\ \/ UNCHANGED <<task, tries>>
     \/ task[p] \in Tasks /\ (Advance(p) \/ TaskFails(p))
  /\ \/ UNCHANGED <<row, writer, wrote>>
     \/ task[p] = "persist" /\ ~skip[p] /\ CanUpsert /\ Upsert(p)
  /\ \/ UNCHANGED skip
     \/ /\ task[p] = "init"
        /\ skip' = [skip EXCEPT ![p] = row[RunOf[p]].status = "completed"]
  /\ \/ UNCHANGED cacheVars /\ (cstep[p] \in Resting \/ UNCHANGED <<task, skip>>)
     \/ Begin(p) /\ task[p] = "infer" /\ ~skip[p] /\ UNCHANGED skip
        /\ task'[p] = "infer"

(* Every step of a DAG run has such an effect.                             *)
LEMMA Effects ==
  ASSUME PipelineTypeOK, NEW p \in Pipelines, PipelineStep(p)
  PROVE  Effect(p)
<1> USE DEF Effect, pipelineVars, dbVars, Tasks
<1>1. CASE InitRun(p)
  <2>1. cstep[p] \in Resting
    BY <1>1 DEF InitRun, PipelineTypeOK
  <2>2. QED
    BY <1>1, <2>1 DEF InitRun
<1>2. CASE HandOn(p)
  <2>1. cstep[p] \in Resting
    BY <1>2 DEF HandOn, PipelineTypeOK
  <2>2. QED
    BY <1>2, <2>1 DEF HandOn
<1>3. CASE WaitForKafkaDrain(p) \/ FetchSegment(p) \/ RunFeatureEngineering(p)
  <2>1. cstep[p] \in Resting
    BY <1>3 DEF WaitForKafkaDrain, FetchSegment, RunFeatureEngineering, PipelineTypeOK
  <2>2. QED
    BY <1>3, <2>1 DEF WaitForKafkaDrain, FetchSegment, RunFeatureEngineering
<1>4. CASE StimulusRefused(p) \/ BeginInference(p)
  BY <1>4 DEF StimulusRefused, BeginInference, Resting
<1>5. CASE EndInference(p)
  BY <1>5 DEF EndInference, Resting
<1>6. CASE InferenceFails(p)
  <2>1. cstep[p] \in Resting
    BY <1>6 DEF InferenceFails, Resting
  <2>2. CASE task'[p] = "infer"
    BY <1>6, <2>2 DEF InferenceFails, Fault
  <2>3. CASE task'[p] # "infer"
    BY <1>6, <2>1, <2>3 DEF InferenceFails, Fault
  <2>4. QED
    BY <2>2, <2>3
<1>7. CASE ScoreAndPersist(p)
  <2>1. cstep[p] \in Resting
    BY <1>7 DEF ScoreAndPersist, PipelineTypeOK
  <2>2. QED
    BY <1>7, <2>1 DEF ScoreAndPersist
<1>8. CASE TaskDies(p)
  <2>1. cstep[p] \in Resting
    BY <1>8 DEF TaskDies, PipelineTypeOK, Resting
  <2>2. QED
    BY <1>8, <2>1 DEF TaskDies, Fault
<1>9. QED
  BY <1>1, <1>2, <1>3, <1>4, <1>5, <1>6, <1>7, <1>8 DEF PipelineStep

(* A step of one DAG run keeps the types.                                  *)
LEMMA PipelineTypes ==
  ASSUME PipelineTypeOK, CacheTypeOK', NEW p \in Pipelines, Effect(p)
  PROVE  PipelineTypeOK'
<1> USE PipelineAssumption DEF PipelineTypeOK
<1>1. /\ UNCHANGED <<given, segment, erased, jpc>>
      /\ budget' \in 0 .. MaxFaults
      /\ skip' \in [Pipelines -> BOOLEAN]
      /\ \A q \in Pipelines \ {p} : skip'[q] = skip[q]
  <2>1. budget' \in 0 .. MaxFaults
    BY DEF Effect
  <2>2. CASE UNCHANGED skip
    BY <2>1, <2>2 DEF Effect
  <2>3. CASE skip' = [skip EXCEPT ![p] = row[RunOf[p]].status = "completed"]
    <3> DEFINE b == row[RunOf[p]].status = "completed"
    <3>1. b \in BOOLEAN /\ skip' = [skip EXCEPT ![p] = b]
      BY <2>3
    <3> HIDE DEF b
    <3>2. skip' \in [Pipelines -> BOOLEAN] /\ \A q \in Pipelines \ {p} : skip'[q] = skip[q]
      BY <3>1
    <3>3. QED
      BY <2>1, <3>2 DEF Effect
  <2>4. QED
    BY <2>2, <2>3 DEF Effect
<1>2. /\ task' \in [Pipelines -> Tasks \cup Ends]
      /\ \A q \in Pipelines \ {p} : task'[q] = task[q]
      /\ tries' \in [Callers -> Nat]
      /\ \A q \in Pipelines : tries'[q] <= Retries
      /\ \A j \in Jobs : tries'[j] <= MaxTries
  <2>1. CASE UNCHANGED <<task, tries>>
    BY <2>1
  <2>2. CASE task[p] \in Tasks /\ (Advance(p) \/ TaskFails(p))
    BY <2>2, TaskMoves
  <2>3. QED
    BY <2>1, <2>2 DEF Effect
<1>3. /\ row' \in [Runs -> [status : Statuses, answer : Answers \cup {None}] \cup {NoRow}]
      /\ writer' \in [Runs -> Callers \cup {"api"}] /\ wrote' \subseteq Callers
  <2>1. CASE UNCHANGED <<row, writer, wrote>>
    BY <2>1
  <2>2. CASE Upsert(p)
    <3> DEFINE new == [status |-> "completed", answer |-> got[p]]
    <3>1. got[p] \in Answers \cup {None}
      BY DEF CacheTypeOK
    <3>2. new \in [status : Statuses, answer : Answers \cup {None}]
      BY <3>1 DEF Statuses
    <3>3. /\ row' = [row EXCEPT ![RunOf[p]] = new] /\ writer' = [writer EXCEPT ![RunOf[p]] = p]
          /\ wrote' = wrote \cup {p}
      BY <2>2 DEF Upsert, WriteRow
    <3> HIDE DEF new
    <3>4. QED
      BY <3>2, <3>3
  <2>3. QED
    BY <2>1, <2>2 DEF Effect
<1>4. \A q \in Pipelines : task'[q] # "infer" \/ skip'[q] => cstep'[q] \in Resting
  <2> SUFFICES ASSUME NEW q \in Pipelines, task'[q] # "infer" \/ skip'[q]
               PROVE  cstep'[q] \in Resting
    OBVIOUS
  <2>1. CASE q # p /\ UNCHANGED cacheVars
    BY <2>1, <1>1, <1>2 DEF cacheVars
  <2>2. CASE q # p /\ Begin(p)
    <3>1. cstep'[q] = cstep[q]
      BY <2>2, OthersStay
    <3>2. QED
      BY <2>2, <3>1, <1>1, <1>2
  <2>3. CASE q = p
    BY <2>3 DEF Effect, cacheVars
  <2>4. QED
    BY <2>1, <2>2, <2>3 DEF Effect
<1>5. QED
  BY <1>1, <1>2, <1>3, <1>4

(* What a step of a job may do: write the answer of its call, or another   *)
(* status, to a row that exists; begin a call, or break it off.            *)
JobEffect(j) ==
  /\ UNCHANGED <<task, skip, given, segment, erased>>
  /\ budget' \in {budget, budget - 1}
  /\ budget' # budget => budget > 0
  /\ \E s \in {"queued", "infer", "saved", "done", "failed", "dropped"} :
       jpc' = [jpc EXCEPT ![j] = s]
  /\ \/ UNCHANGED tries
     \/ tries[j] < MaxTries /\ tries' = [tries EXCEPT ![j] = @ + 1]
  /\ \/ UNCHANGED <<row, writer, wrote>>
     \/ /\ row[RunOf[j]] # NoRow
        /\ \/ /\ cstep[j] = "answered"
              /\ WriteRow(RunOf[j], [status |-> "completed", answer |-> got[j]], j)
           \/ \E s \in {"running", "failed"} : WriteRow(RunOf[j], WithStatus(j, s), j)
  /\ UNCHANGED cacheVars \/ Begin(j) \/ Break(j)

(* Every step of a job has such an effect.                                 *)
LEMMA JobEffects ==
  ASSUME NEW j \in Jobs, JobStep(j)
  PROVE  JobEffect(j)
<1> USE DEF JobEffect, pipelineVars, dbVars
<1>1. CASE JobStarts(j)
  BY <1>1 DEF JobStarts, UpdateRow
<1>2. CASE JobDropped(j)
  BY <1>2 DEF JobDropped
<1>3. CASE JobWrites(j)
  BY <1>3 DEF JobWrites, UpdateRow
<1>4. CASE JobEnds(j)
  BY <1>4 DEF JobEnds
<1>5. CASE JobDies(j)
  BY <1>5 DEF JobDies, Fault
<1>6. QED
  BY <1>1, <1>2, <1>3, <1>4, <1>5 DEF JobStep

(* A step of a job keeps the types.                                        *)
LEMMA JobTypes ==
  ASSUME PipelineTypeOK, CacheTypeOK', NEW j \in Jobs, JobEffect(j)
  PROVE  PipelineTypeOK'
<1> USE PipelineAssumption DEF PipelineTypeOK
<1>1. budget' \in 0 .. MaxFaults
  BY DEF JobEffect
<1>2. jpc' \in [Jobs -> {"queued", "infer", "saved", "done", "failed", "dropped"}]
  BY DEF JobEffect
<1>3. /\ tries' \in [Callers -> Nat]
      /\ \A p \in Pipelines : tries'[p] <= Retries
      /\ \A i \in Jobs : tries'[i] <= MaxTries
  <2>1. CASE UNCHANGED tries
    BY <2>1
  <2>2. CASE tries[j] < MaxTries /\ tries' = [tries EXCEPT ![j] = @ + 1]
    BY <2>2
  <2>3. QED
    BY <2>1, <2>2 DEF JobEffect
<1>4. /\ row' \in [Runs -> [status : Statuses, answer : Answers \cup {None}] \cup {NoRow}]
      /\ writer' \in [Runs -> Callers \cup {"api"}] /\ wrote' \subseteq Callers
  <2>1. CASE UNCHANGED <<row, writer, wrote>>
    BY <2>1
  <2>2. ASSUME row[RunOf[j]] # NoRow, NEW new,
               new \in {[status |-> "completed", answer |-> got[j]],
                        WithStatus(j, "running"), WithStatus(j, "failed")},
               WriteRow(RunOf[j], new, j)
        PROVE  /\ row' \in [Runs -> [status : Statuses, answer : Answers \cup {None}]
                                     \cup {NoRow}]
               /\ writer' \in [Runs -> Callers \cup {"api"}] /\ wrote' \subseteq Callers
    <3>1. got[j] \in Answers \cup {None} /\ row[RunOf[j]].answer \in Answers \cup {None}
      BY <2>2 DEF CacheTypeOK
    <3>2. new \in [status : Statuses, answer : Answers \cup {None}]
      BY <2>2, <3>1 DEF WithStatus, Statuses
    <3>3. /\ row' = [row EXCEPT ![RunOf[j]] = new] /\ writer' = [writer EXCEPT ![RunOf[j]] = j]
          /\ wrote' = wrote \cup {j}
      BY <2>2 DEF WriteRow
    <3>4. QED
      BY <3>2, <3>3
  <2>3. QED
    BY <2>1, <2>2 DEF JobEffect
<1>5. \A p \in Pipelines : cstep'[p] = cstep[p]
  <2>1. CASE UNCHANGED cacheVars
    BY <2>1 DEF cacheVars
  <2>2. CASE Begin(j) \/ Break(j)
    BY <2>2, OthersStay
  <2>3. QED
    BY <2>1, <2>2 DEF JobEffect
<1>6. /\ UNCHANGED <<task, skip, given, segment, erased>>
  BY DEF JobEffect
<1>7. QED
  BY <1>1, <1>2, <1>3, <1>4, <1>5, <1>6

(* A step of a call, and the deletion of the segment, keep the types.      *)
LEMMA OtherTypes ==
  ASSUME PipelineTypeOK, CacheTypeOK',
         DeleteSegment \/ \E c \in Callers : CallGoesOn(c) \/ CallBreaks(c)
  PROVE  PipelineTypeOK'
<1> USE PipelineAssumption DEF PipelineTypeOK, pipelineVars, dbVars
<1>1. CASE DeleteSegment
  BY <1>1 DEF DeleteSegment, cacheVars, NoRow
<1>2. ASSUME NEW c \in Callers, CallGoesOn(c) \/ CallBreaks(c)
      PROVE  PipelineTypeOK'
  <2>1. /\ UNCHANGED <<pipelineVars, dbVars, jpc, tries>>
        /\ budget' \in {budget, budget - 1} /\ (budget' # budget => budget > 0)
        /\ CallStep(c) \/ Break(c)
    BY <1>2 DEF CallGoesOn, CallBreaks, Fault
  <2>2. budget' \in 0 .. MaxFaults
    BY <2>1
  <2>3. cstep[c] \notin Resting
    BY <2>1 DEF CallStep, Look, Ask, Open, Write, Read, Parse, Break, CallGoes, Resting
  <2>4. \A p \in Pipelines : p # c => cstep'[p] = cstep[p]
    BY <2>1, OthersStay
  <2>5. \A p \in Pipelines : task[p] # "infer" \/ skip[p] => cstep'[p] \in Resting
    BY <2>3, <2>4
  <2>6. QED
    BY <2>1, <2>2, <2>5
<1>3. QED
  BY <1>1, <1>2

(* Every variable keeps its type.                                          *)
THEOREM PipelineTypesHold == Spec => []PipelineTypeOK
<1>1. Init => PipelineTypeOK
  <2> SUFFICES ASSUME Init PROVE PipelineTypeOK
    OBVIOUS
  <2>1. CacheTypeOK
    BY InvInit DEF Init, CacheInv
  <2>2. QED
    BY <2>1, PipelineAssumption DEF Init, PipelineTypeOK, CacheInit, Statuses, NoRow, Tasks,
       Resting
<1>2. PipelineTypeOK /\ CacheInv' /\ [Next]_vars => PipelineTypeOK'
  <2> SUFFICES ASSUME PipelineTypeOK, CacheInv', [Next]_vars PROVE PipelineTypeOK'
    OBVIOUS
  <2>1. CacheTypeOK'
    BY DEF CacheInv
  <2>2. CASE UNCHANGED vars
    BY <2>1, <2>2 DEF vars, PipelineTypeOK, cacheVars, pipelineVars, dbVars
  <2>3. CASE Next
    BY <2>1, <2>3, Effects, PipelineTypes, JobEffects, JobTypes, OtherTypes DEF Next
  <2>4. QED
    BY <2>2, <2>3
<1>3. Spec => []CacheInv
  BY PipelineCache, PTL
<1>4. QED
  BY <1>1, <1>2, <1>3, PTL DEF Spec

-----------------------------------------------------------------------------
(* What the runs hold.                                                     *)

(* Who has paid has paid for ever.                                         *)
LEMMA PaidForEver ==
  ASSUME CacheTypeOK, UNCHANGED cacheVars \/ CacheNext, NEW a, NEW k, PaidFor(a, k)
  PROVE  PaidFor(a, k)'
<1>1. UNCHANGED asked \/ \E c \in Callers : asked' = [asked EXCEPT ![c] = @ + 1]
  BY DEF CacheNext, CallStep, Begin, Look, Ask, Open, Write, Read, Parse, Break, cacheVars
<1>2. QED
  BY <1>1 DEF PaidFor, CallersOf, CacheTypeOK

(* A row is written, by a DAG run that may store or by a job: the answer   *)
(* in hand, or another status of a row that exists.                        *)
LEMMA InvWritesRow ==
  ASSUME PipelineTypeOK, CacheInv, CacheInv', PipelineInv, Next,
         NEW c \in Callers, NEW new,
         WriteRow(RunOf[c], new, c), UNCHANGED <<segment, erased, given>>,
         c \in Pipelines => CanUpsert,
         c \in Jobs => row[RunOf[c]] # NoRow,
         \/ cstep[c] = "answered" /\ new = [status |-> "completed", answer |-> got[c]]
         \/ c \in Jobs /\ \E s \in {"running", "failed"} : new = WithStatus(c, s)
  PROVE  /\ RowsHaveSegment' /\ StoredAnswerIsTrue'
         /\ \A p \in Pipelines : SettledRun(p) /\ skip'[p] = skip[p] => SettledRun(p)'
         /\ \A r \in Runs : row'[r].status = "completed" => orgIdNullable \/ writer'[r] \in Jobs
         /\ c \in Pipelines => row'[RunOf[c]].status = "completed" /\ orgIdNullable
<1> USE PipelineAssumption DEF PipelineTypeOK, PipelineInv
<1> DEFINE r == RunOf[c]
<1>1. /\ row' = [row EXCEPT ![r] = new] /\ writer' = [writer EXCEPT ![r] = c]
      /\ r \in Runs
  BY DEF WriteRow
<1>2. /\ row'[r] = new /\ \A q \in Runs \ {r} : row'[q] = row[q]
      /\ writer'[r] = c /\ \A q \in Runs \ {r} : writer'[q] = writer[q]
  BY <1>1
<1>3. \A a, k : PaidFor(a, k) => PaidFor(a, k)'
  BY StepsOfCalls, PaidForEver
<1>4. RowsHaveSegment'
  BY <1>1, <1>2 DEF RowsHaveSegment, CanUpsert
<1>5. /\ new.status = "completed" => new.answer # None
      /\ new.answer # None =>
           new.answer.good /\ \E d \in Callers : RunOf[d] = r /\ PaidFor(new.answer, KeyOf[d])
  <2>1. CASE cstep[c] = "answered" /\ new = [status |-> "completed", answer |-> got[c]]
    BY <2>1 DEF CacheInv, CallInv, None
  <2>2. ASSUME NEW s \in {"running", "failed"}, new = WithStatus(c, s)
        PROVE  /\ new.status = "completed" => new.answer # None
               /\ new.answer # None =>
                    /\ new.answer.good
                    /\ \E d \in Callers : RunOf[d] = r /\ PaidFor(new.answer, KeyOf[d])
    BY <2>2, <1>1 DEF WithStatus, StoredAnswerIsTrue
  <2>3. QED
    BY <2>1, <2>2
<1>6. StoredAnswerIsTrue'
  BY <1>2, <1>3, <1>5 DEF StoredAnswerIsTrue
<1>7. c \in Pipelines => new.status = "completed" /\ orgIdNullable /\ c \notin Jobs
  BY DEF CanUpsert
<1>8. \A p \in Pipelines : SettledRun(p) /\ skip'[p] = skip[p] => SettledRun(p)'
  BY <1>2, <1>7 DEF SettledRun, CanInfer
<1>9. QED
  BY <1>2, <1>4, <1>6, <1>7, <1>8

(* No row changes.                                                         *)
LEMMA InvKeepsRows ==
  ASSUME PipelineTypeOK, PipelineInv, UNCHANGED cacheVars \/ CacheNext,
         UNCHANGED <<row, writer, segment, erased, given>>
  PROVE  /\ RowsHaveSegment' /\ StoredAnswerIsTrue'
         /\ \A p \in Pipelines : SettledRun(p) /\ skip'[p] = skip[p] => SettledRun(p)'
         /\ \A r \in Runs : row'[r].status = "completed" => orgIdNullable \/ writer'[r] \in Jobs
<1>1. \A a, k : PaidFor(a, k) => PaidFor(a, k)'
  BY PaidForEver DEF PipelineTypeOK
<1>2. StoredAnswerIsTrue'
  BY <1>1 DEF PipelineInv, StoredAnswerIsTrue
<1>3. QED
  BY <1>2 DEF PipelineInv, RowsHaveSegment, SettledRun, CanInfer

(* Where a step takes a DAG run: it may store only with its answer in      *)
(* hand, it is done when it has stored or skips, it skips when it has      *)
(* found its run completed, and it comes to ask past the tasks before.     *)
LEMMA TaskGoes ==
  ASSUME PipelineTypeOK, PipelineInv, NEW p \in Pipelines, PipelineStep(p)
  PROVE  /\ task'[p] = "persist" /\ ~skip'[p] => cstep'[p] = "answered"
         /\ task'[p] = "done" \/ skip'[p] =>
              \/ skip[p] /\ skip'[p]
              \/ row[RunOf[p]].status = "completed" /\ skip'[p] /\ UNCHANGED dbVars
              \/ CanUpsert /\ Upsert(p) /\ CanInfer(p)
         /\ task'[p] = "infer" /\ ~skip'[p] => userCount
         /\ cstep'[p] # "idle" => CanInfer(p)
<1> USE DEF PipelineTypeOK, pipelineVars, cacheVars
<1>1. Advance(p) => task'[p] = After[task[p]]
  BY DEF Advance
<1>2. TaskFails(p) => task'[p] \in {task[p], "failed"}
  BY DEF TaskFails
<1>3. cstep[p] # "idle" => CanInfer(p)
  BY DEF PipelineInv, AskedInOrder
<1>4. CASE InitRun(p)
  <2>1. task'[p] = "drain" /\ UNCHANGED dbVars /\ cstep'[p] = cstep[p]
    BY <1>1, <1>4 DEF InitRun, After
  <2>2. skip'[p] = (row[RunOf[p]].status = "completed")
    BY <1>4 DEF InitRun
  <2>3. QED
    BY <1>3, <2>1, <2>2
<1>5. CASE HandOn(p)
  BY <1>3, <1>5 DEF HandOn
<1>6. CASE WaitForKafkaDrain(p) \/ FetchSegment(p) \/ RunFeatureEngineering(p)
  <2>1. task'[p] \in {"fetch", "features", "failed"} \/ (task'[p] = "infer" /\ userCount)
    BY <1>1, <1>2, <1>6 DEF WaitForKafkaDrain, FetchSegment, RunFeatureEngineering, After
  <2>2. ~skip'[p] /\ cstep'[p] = cstep[p]
    BY <1>6 DEF WaitForKafkaDrain, FetchSegment, RunFeatureEngineering
  <2>3. QED
    BY <1>3, <2>1, <2>2
<1>7. CASE StimulusRefused(p)
  <2>1. task'[p] \in {"infer", "failed"} /\ ~skip'[p] /\ cstep'[p] = cstep[p]
    BY <1>2, <1>7 DEF StimulusRefused
  <2>2. userCount
    BY <1>7 DEF StimulusRefused, PipelineInv, AskedInOrder
  <2>3. QED
    BY <1>3, <2>1, <2>2
<1>8. CASE BeginInference(p)
  <2>1. userCount /\ p \notin invalid /\ task'[p] = "infer" /\ ~skip'[p]
    BY <1>8 DEF BeginInference, PipelineInv, AskedInOrder
  <2>2. QED
    BY <2>1 DEF CanInfer
<1>9. CASE EndInference(p)
  <2>1. task'[p] = "persist" /\ ~skip'[p] /\ cstep'[p] = "answered" /\ cstep[p] = "answered"
    BY <1>1, <1>9 DEF EndInference, After
  <2>2. QED
    BY <1>3, <2>1
<1>10. CASE InferenceFails(p)
  <2>1. task'[p] \in {"infer", "failed"} /\ ~skip'[p] /\ cstep[p] # "idle"
    BY <1>2, <1>10 DEF InferenceFails
  <2>2. QED
    BY <1>3, <2>1 DEF CanInfer
<1>11. CASE ScoreAndPersist(p)
  <2>1. cstep'[p] = "answered" /\ cstep[p] = "answered" /\ ~skip'[p] /\ task[p] = "persist"
    BY <1>11 DEF ScoreAndPersist, PipelineInv, HandedOn
  <2>2. CASE CanUpsert
    <3>1. task'[p] = "done" /\ Upsert(p)
      BY <1>1, <1>11, <2>2 DEF ScoreAndPersist, After
    <3>2. QED
      BY <1>3, <2>1, <2>2, <3>1
  <2>3. CASE ~CanUpsert
    <3>1. task'[p] \in {"persist", "failed"}
      BY <1>2, <1>11, <2>3 DEF ScoreAndPersist
    <3>2. QED
      BY <1>3, <2>1, <3>1
  <2>4. QED
    BY <2>2, <2>3
<1>12. CASE TaskDies(p)
  <2>1. task'[p] \in {task[p], "failed"} /\ task[p] \in Tasks /\ skip'[p] = skip[p]
        /\ cstep'[p] = cstep[p]
    BY <1>2, <1>12 DEF TaskDies
  <2>2. QED
    BY <1>3, <2>1 DEF Tasks, PipelineInv, HandedOn, AskedInOrder
<1>13. QED
  BY <1>4, <1>5, <1>6, <1>7, <1>8, <1>9, <1>10, <1>11, <1>12 DEF PipelineStep

(* A step of a DAG run. It is done when it has stored its answer, or skips *)
(* when it has found its run completed.                                    *)
LEMMA InvPipeline ==
  ASSUME PipelineTypeOK, PipelineTypeOK', CacheInv, CacheInv', PipelineInv, Next,
         NEW p \in Pipelines, PipelineStep(p)
  PROVE  PipelineInv'
<1> USE PipelineAssumption
<1>1. Effect(p)
  BY Effects
<1>2. UNCHANGED cacheVars \/ CacheNext
  BY StepsOfCalls
<1>3. \A q \in Pipelines \ {p} : task'[q] = task[q] /\ skip'[q] = skip[q]
  <2>1. \A q \in Pipelines \ {p} : skip'[q] = skip[q]
    BY <1>1 DEF Effect, PipelineTypeOK
  <2>2. \A q \in Pipelines \ {p} : task'[q] = task[q]
    BY <1>1, TaskMoves DEF Effect
  <2>3. QED
    BY <2>1, <2>2
<1>4. /\ RowsHaveSegment' /\ StoredAnswerIsTrue'
      /\ \A q \in Pipelines : SettledRun(q) /\ skip'[q] = skip[q] => SettledRun(q)'
      /\ \A r \in Runs : row'[r].status = "completed" => orgIdNullable \/ writer'[r] \in Jobs
  <2>1. UNCHANGED <<segment, erased, given>>
    BY <1>1 DEF Effect
  <2>2. CASE UNCHANGED <<row, writer, wrote>>
    BY <2>1, <2>2, <1>2, InvKeepsRows
  <2>3. CASE task[p] = "persist" /\ ~skip[p] /\ CanUpsert /\ Upsert(p)
    <3>1. cstep[p] = "answered"
      BY <2>3 DEF PipelineInv, HandedOn
    <3>2. QED
      BY <2>1, <2>3, <3>1, InvWritesRow DEF Upsert
  <2>4. QED
    BY <1>1, <2>2, <2>3 DEF Effect
<1>5. CanUpsert /\ Upsert(p) => row'[RunOf[p]].status = "completed" /\ orgIdNullable
  BY DEF CanUpsert, Upsert, WriteRow, PipelineTypeOK
<1>6. HandedOn'
  <2> SUFFICES ASSUME NEW q \in Pipelines, task'[q] = "persist", ~skip'[q]
               PROVE  cstep'[q] = "answered"
    BY DEF HandedOn
  <2>1. CASE q # p
    <3>1. cstep'[q] = cstep[q]
      BY <2>1, <1>1, OthersStay DEF Effect, cacheVars, PipelineTypeOK
    <3>2. QED
      BY <2>1, <3>1, <1>3 DEF PipelineInv, HandedOn
  <2>2. CASE q = p
    BY <2>2, TaskGoes
  <2>3. QED
    BY <2>1, <2>2
<1>7. UNCHANGED <<orgIdNullable, userCount, invalid>>
  BY <1>1 DEF Effect
<1>8. AskedInOrder'
  <2> SUFFICES ASSUME NEW q \in Pipelines
               PROVE  /\ task'[q] = "infer" /\ ~skip'[q] => userCount
                      /\ cstep'[q] # "idle" => CanInfer(q)
    BY <1>7 DEF AskedInOrder, CanInfer
  <2>1. CASE q # p
    <3>1. cstep'[q] = cstep[q]
      BY <2>1, <1>1, OthersStay DEF Effect, cacheVars, PipelineTypeOK
    <3>2. QED
      BY <2>1, <3>1, <1>3 DEF PipelineInv, AskedInOrder
  <2>2. CASE q = p
    BY <2>2, TaskGoes
  <2>3. QED
    BY <2>1, <2>2
<1>9. \A q \in Pipelines : task'[q] = "done" \/ skip'[q] => SettledRun(q)'
  <2> SUFFICES ASSUME NEW q \in Pipelines, task'[q] = "done" \/ skip'[q]
               PROVE  SettledRun(q)'
    OBVIOUS
  <2>1. CASE q # p
    BY <2>1, <1>3, <1>4 DEF PipelineInv
  <2>2. CASE q = p /\ skip[p] /\ skip'[p]
    <3>1. SettledRun(p) /\ skip'[p] = skip[p]
      BY <2>2 DEF PipelineInv, PipelineTypeOK
    <3>2. QED
      BY <2>2, <3>1, <1>4
  <2>3. CASE /\ q = p /\ row[RunOf[p]].status = "completed" /\ skip'[p]
             /\ UNCHANGED dbVars
    BY <2>3 DEF SettledRun, PipelineInv, dbVars, PipelineTypeOK
  <2>4. CASE q = p /\ CanUpsert /\ Upsert(p) /\ CanInfer(p)
    BY <2>4, <1>5, <1>7 DEF SettledRun, CanInfer
  <2>5. QED
    BY <2>1, <2>2, <2>3, <2>4, TaskGoes
<1>10. QED
  BY <1>4, <1>6, <1>7, <1>8, <1>9 DEF PipelineInv

(* A step of a job: only rows change.                                      *)
LEMMA InvJob ==
  ASSUME PipelineTypeOK, CacheInv, CacheInv', PipelineInv, Next,
         NEW j \in Jobs, JobStep(j)
  PROVE  PipelineInv'
<1> USE PipelineAssumption
<1>1. JobEffect(j)
  BY JobEffects
<1>2. UNCHANGED cacheVars \/ CacheNext
  BY StepsOfCalls
<1>3. UNCHANGED <<task, skip, segment, erased, given>>
  BY <1>1 DEF JobEffect
<1>4. \A p \in Pipelines : cstep'[p] = cstep[p]
  BY <1>1, OthersStay DEF JobEffect, cacheVars, PipelineTypeOK
<1>5. /\ RowsHaveSegment' /\ StoredAnswerIsTrue'
      /\ \A q \in Pipelines : SettledRun(q) /\ skip'[q] = skip[q] => SettledRun(q)'
      /\ \A r \in Runs : row'[r].status = "completed" => orgIdNullable \/ writer'[r] \in Jobs
  <2>1. CASE UNCHANGED <<row, writer, wrote>>
    BY <2>1, <1>2, <1>3, InvKeepsRows
  <2>2. ASSUME row[RunOf[j]] # NoRow, cstep[j] = "answered",
               WriteRow(RunOf[j], [status |-> "completed", answer |-> got[j]], j)
        PROVE  /\ RowsHaveSegment' /\ StoredAnswerIsTrue'
               /\ \A q \in Pipelines : SettledRun(q) /\ skip'[q] = skip[q] => SettledRun(q)'
               /\ \A r \in Runs : row'[r].status = "completed" =>
                    orgIdNullable \/ writer'[r] \in Jobs
    BY <2>2, <1>3, InvWritesRow
  <2>3. ASSUME row[RunOf[j]] # NoRow, NEW s \in {"running", "failed"},
               WriteRow(RunOf[j], WithStatus(j, s), j)
        PROVE  /\ RowsHaveSegment' /\ StoredAnswerIsTrue'
               /\ \A q \in Pipelines : SettledRun(q) /\ skip'[q] = skip[q] => SettledRun(q)'
               /\ \A r \in Runs : row'[r].status = "completed" =>
                    orgIdNullable \/ writer'[r] \in Jobs
    BY <2>3, <1>3, InvWritesRow
  <2>4. QED
    BY <1>1, <2>1, <2>2, <2>3 DEF JobEffect
<1>6. HandedOn' /\ AskedInOrder'
  BY <1>3, <1>4 DEF PipelineInv, HandedOn, AskedInOrder, CanInfer
<1>7. QED
  BY <1>3, <1>5, <1>6 DEF PipelineInv

(* A step of a call, and the deletion of the segment.                      *)
LEMMA InvOther ==
  ASSUME PipelineTypeOK, PipelineInv, Next,
         DeleteSegment \/ \E c \in Callers : CallGoesOn(c) \/ CallBreaks(c)
  PROVE  PipelineInv'
<1> USE PipelineAssumption
<1>1. CASE DeleteSegment
  <2>1. UNCHANGED <<cacheVars, pipelineVars, writer, given>>
        /\ row' = [r \in Runs |-> NoRow] /\ segment' = FALSE
        /\ erased' = {r \in Runs : row[r] # NoRow} /\ segment
    BY <1>1 DEF DeleteSegment
  <2>2. \A p \in Pipelines : SettledRun(p) => SettledRun(p)'
    <3> SUFFICES ASSUME NEW p \in Pipelines, SettledRun(p) PROVE SettledRun(p)'
      OBVIOUS
    <3>1. RunOf[p] \in Runs /\ erased = {}
      BY <2>1 DEF PipelineInv, RowsHaveSegment
    <3>2. row[RunOf[p]].status = "completed" => RunOf[p] \in erased'
      BY <2>1, <3>1 DEF NoRow
    <3>3. QED
      BY <2>1, <3>1, <3>2 DEF SettledRun, CanInfer, pipelineVars
  <2>3. RowsHaveSegment' /\ StoredAnswerIsTrue' /\ HandedOn' /\ AskedInOrder'
    BY <2>1 DEF RowsHaveSegment, StoredAnswerIsTrue, HandedOn, AskedInOrder, CanInfer, NoRow,
       PipelineInv, pipelineVars, cacheVars
  <2>4. QED
    BY <2>1, <2>2, <2>3 DEF PipelineInv, pipelineVars, NoRow
<1>2. ASSUME NEW c \in Callers, CallGoesOn(c) \/ CallBreaks(c)
      PROVE  PipelineInv'
  <2>1. UNCHANGED <<pipelineVars, dbVars>> /\ (CallStep(c) \/ Break(c))
    BY <1>2 DEF CallGoesOn, CallBreaks
  <2>2. cstep[c] \notin Resting
    BY <2>1 DEF CallStep, Look, Ask, Open, Write, Read, Parse, Break, CallGoes, Resting
  <2>3. HandedOn'
    <3> SUFFICES ASSUME NEW p \in Pipelines, task[p] = "persist", ~skip[p]
                 PROVE  cstep'[p] = "answered"
      BY <2>1 DEF HandedOn, pipelineVars
    <3>1. cstep[p] = "answered"
      BY DEF PipelineInv, HandedOn
    <3>2. p # c
      BY <3>1, <2>2 DEF Resting
    <3>3. QED
      BY <2>1, <3>1, <3>2, OthersStay DEF PipelineTypeOK
  <2>4. /\ RowsHaveSegment' /\ StoredAnswerIsTrue'
        /\ \A p \in Pipelines : SettledRun(p) /\ skip'[p] = skip[p] => SettledRun(p)'
        /\ \A r \in Runs : row'[r].status = "completed" => orgIdNullable \/ writer'[r] \in Jobs
    BY <2>1, StepsOfCalls, InvKeepsRows DEF dbVars
  <2>5. AskedInOrder'
    <3>1. ASSUME NEW p \in Pipelines, cstep'[p] # "idle"
          PROVE  cstep[p] # "idle"
      BY <2>1, <2>2, <3>1, OthersStay DEF PipelineTypeOK, Resting
    <3>2. QED
      BY <2>1, <3>1 DEF PipelineInv, AskedInOrder, CanInfer, pipelineVars, dbVars
  <2>6. QED
    BY <2>1, <2>3, <2>4, <2>5 DEF PipelineInv, pipelineVars, dbVars
<1>3. QED
  BY <1>1, <1>2

(* The inductive invariant.                                                *)
THEOREM PipelineInvariant == Spec => []PipelineInv
<1>1. Init => PipelineInv
  BY PipelineAssumption
     DEF Init, CacheInit, PipelineInv, HandedOn, AskedInOrder, RowsHaveSegment,
         StoredAnswerIsTrue, NoRow
<1>2. /\ PipelineTypeOK /\ PipelineTypeOK' /\ CacheInv /\ CacheInv' /\ PipelineInv
      /\ [Next]_vars
      => PipelineInv'
  <2> SUFFICES ASSUME PipelineTypeOK, PipelineTypeOK', CacheInv, CacheInv', PipelineInv,
                      [Next]_vars
               PROVE  PipelineInv'
    OBVIOUS
  <2>1. CASE UNCHANGED vars
    BY <2>1 DEF vars, PipelineInv, HandedOn, AskedInOrder, RowsHaveSegment,
       StoredAnswerIsTrue, SettledRun, CanInfer, PaidFor, cacheVars, pipelineVars, dbVars
  <2>2. CASE Next
    BY <2>2, InvPipeline, InvJob, InvOther DEF Next
  <2>3. QED
    BY <2>1, <2>2
<1>3. Spec => []CacheInv
  BY PipelineCache, PTL
<1>4. QED
  BY <1>1, <1>2, <1>3, PipelineTypesHold, PTL DEF Spec

(* A stored answer was paid for with the prompt of one who writes the run. *)
THEOREM StoredAnswers == Spec => []StoredAnswerIsTrue
<1>1. PipelineInv => StoredAnswerIsTrue
  BY DEF PipelineInv
<1>2. QED
  BY <1>1, PipelineInvariant, PTL

(* A DAG run that is done has its run stored.                              *)
THEOREM DoneRuns == Spec => []DoneMeansStored
<1>1. PipelineInv => DoneMeansStored
  BY DEF PipelineInv, DoneMeansStored
<1>2. QED
  BY <1>1, PipelineInvariant, PTL

(* A run that was deleted stays so.                                        *)
THEOREM ErasedRuns == Spec => []ErasedForGood
<1>1. PipelineInv /\ PipelineTypeOK => ErasedForGood
  BY DEF PipelineInv, PipelineTypeOK, RowsHaveSegment, ErasedForGood
<1>2. QED
  BY <1>1, PipelineInvariant, PipelineTypesHold, PTL

-----------------------------------------------------------------------------
(* The lifecycle of a run.                                                 *)

(* A step of a call changes what its caller has in hand only.              *)
LEMMA OthersKeep ==
  ASSUME CacheTypeOK, NEW c \in Callers, Begin(c) \/ CallStep(c) \/ Break(c),
         NEW d \in Callers, d # c
  PROVE  got'[d] = got[d]
<1>1. UNCHANGED got \/ \E a : got' = [got EXCEPT ![c] = a]
  BY DEF CallStep, Begin, Look, Ask, Open, Write, Read, Parse, Break
<1>2. QED
  BY <1>1 DEF CacheTypeOK

(* A DAG run that has stored its answer is at the end, with that answer in *)
(* hand.                                                                   *)
LEMMA StoredKept ==
  ASSUME PipelineTypeOK, WriterInv, Next, NEW p \in Pipelines, p \in wrote
  PROVE  got'[p] = got[p] /\ task'[p] \in {"persist"} \cup Ends
<1> USE PipelineAssumption DEF PipelineTypeOK
<1>1. task[p] \in {"persist"} \cup Ends /\ cstep[p] \in Resting
  BY DEF WriterInv, StoredAtEnd, Ends
<1>2. CASE PipelineStep(p)
  <2>1. Effect(p)
    BY <1>2, Effects
  <2>2. UNCHANGED cacheVars
    BY <1>1, <2>1 DEF Effect, Ends
  <2>3. CASE UNCHANGED <<task, tries>>
    BY <1>1, <2>2, <2>3 DEF cacheVars
  <2>4. CASE task[p] \in Tasks /\ Advance(p)
    BY <1>1, <2>2, <2>4 DEF Advance, After, Tasks, Ends, cacheVars
  <2>5. CASE task[p] \in Tasks /\ TaskFails(p)
    BY <1>1, <2>2, <2>5 DEF TaskFails, Ends, cacheVars
  <2>6. QED
    BY <2>1, <2>3, <2>4, <2>5 DEF Effect
<1>3. ASSUME NEW q \in Pipelines \ {p}, PipelineStep(q)
      PROVE  got'[p] = got[p] /\ task'[p] = task[p]
  <2>1. Effect(q)
    BY <1>3, Effects
  <2>2. task'[p] = task[p]
    BY <2>1, TaskMoves DEF Effect
  <2>3. got'[p] = got[p]
    BY <2>1, OthersKeep DEF Effect, cacheVars
  <2>4. QED
    BY <2>2, <2>3
<1>4. ASSUME NEW j \in Jobs, JobStep(j)
      PROVE  got'[p] = got[p] /\ task'[p] = task[p]
  <2>1. JobEffect(j)
    BY <1>4, JobEffects
  <2>2. QED
    BY <2>1, OthersKeep DEF JobEffect, cacheVars
<1>5. ASSUME NEW c \in Callers, CallGoesOn(c) \/ CallBreaks(c)
      PROVE  got'[p] = got[p] /\ task'[p] = task[p]
  <2>1. UNCHANGED pipelineVars /\ (CallStep(c) \/ Break(c))
    BY <1>5 DEF CallGoesOn, CallBreaks
  <2>2. cstep[c] \notin Resting
    BY <2>1 DEF CallStep, Look, Ask, Open, Write, Read, Parse, Break, CallGoes, Resting
  <2>3. QED
    BY <1>1, <2>1, <2>2, OthersKeep DEF pipelineVars
<1>6. CASE DeleteSegment
  BY <1>1, <1>6 DEF DeleteSegment, cacheVars, pipelineVars
<1>7. QED
  BY <1>1, <1>2, <1>3, <1>4, <1>5, <1>6 DEF Next

(* No step of anybody but a job changes how often it was executed.         *)
LEMMA ExecutionsKept ==
  ASSUME PipelineTypeOK, NEW p \in Pipelines, PipelineStep(p), NEW j \in Jobs
  PROVE  tries'[j] = tries[j]
<1>1. UNCHANGED tries \/ \E n : tries' = [tries EXCEPT ![p] = n]
  BY Effects DEF Effect, Advance, TaskFails
<1>2. QED
  BY <1>1, PipelineAssumption DEF PipelineTypeOK

(* Nobody writes a row.                                                    *)
LEMMA WriterKept ==
  ASSUME PipelineTypeOK, WriterInv, Next, UNCHANGED <<row, wrote, segment>>,
         \A j \in Jobs : tries'[j] = tries[j],
         \A j \in Jobs : jpc'[j] = "infer" => jpc[j] = "infer"
  PROVE  WriterInv'
<1> USE PipelineAssumption DEF PipelineTypeOK
<1>1. StoredAtEnd'
  BY StoredKept DEF StoredAtEnd
<1>2. ASSUME segment, NEW c \in wrote, LeftBy(c) PROVE LeftBy(c)'
  <2>1. CASE c \in Pipelines
    BY <1>2, <2>1, StoredKept DEF LeftBy
  <2>2. CASE c \in Jobs
    BY <1>2, <2>2 DEF LeftBy
  <2>3. QED
    BY <2>1, <2>2
<1>3. \A r : Contended(r) => Contended(r)'
  BY DEF Contended
<1>4. QED
  BY <1>1, <1>2, <1>3 DEF WriterInv, JobsWrote, WrittenBySome, LeftAsWritten

(* A caller writes the row of its run.                                     *)
LEMMA WriterWrites ==
  ASSUME PipelineTypeOK, WriterInv, Next, segment, UNCHANGED segment,
         NEW w \in Callers, NEW new, WriteRow(RunOf[w], new, w),
         new # NoRow, new.status \notin {"absent", "pending"},
         \A j \in Jobs \ {w} : tries'[j] = tries[j] /\ jpc'[j] = jpc[j],
         w \in Jobs => tries'[w] > 0,
         w \in Pipelines => task'[w] \in {"persist"} \cup Ends,
         IF w \in Pipelines
         THEN new = [status |-> "completed", answer |-> got'[w]]
         ELSE jpc'[w] = "infer" /\ tries'[w] = 1 => new.status = "running"
  PROVE  WriterInv'
<1> USE PipelineAssumption DEF PipelineTypeOK
<1> DEFINE run == RunOf[w]
<1>1. /\ row'[run] = new /\ \A q \in Runs \ {run} : row'[q] = row[q]
      /\ wrote' = wrote \cup {w} /\ run \in Runs
  BY DEF WriteRow
<1>2. StoredAtEnd'
  BY <1>1, StoredKept DEF StoredAtEnd
<1>3. JobsWrote'
  <2> SUFFICES ASSUME NEW j \in Jobs
               PROVE  /\ row'[RunOf[j]] # NoRow /\ (j \in wrote' <=> tries'[j] > 0)
                      /\ jpc'[j] = "infer" => tries'[j] > 0
    BY DEF JobsWrote
  <2>1. /\ row[RunOf[j]] # NoRow /\ (j \in wrote <=> tries[j] > 0)
        /\ jpc[j] = "infer" => tries[j] > 0
    BY DEF WriterInv, JobsWrote
  <2>2. row'[RunOf[j]] # NoRow
    BY <1>1, <2>1
  <2>3. CASE j = w
    <3>1. tries'[j] > 0 /\ j \in wrote'
      BY <1>1, <2>3
    <3>2. QED
      BY <2>2, <3>1
  <2>4. CASE j # w
    BY <1>1, <2>1, <2>2, <2>4
  <2>5. QED
    BY <2>3, <2>4
<1>4. WrittenBySome'
  BY <1>1 DEF WriterInv, WrittenBySome
<1>5. ASSUME NEW c \in wrote' PROVE Contended(RunOf[c])' \/ LeftBy(c)'
  <2>1. CASE c = w
    BY <1>1, <2>1 DEF LeftBy
  <2>2. CASE c # w /\ RunOf[c] = run
    BY <1>1, <2>2 DEF Contended
  <2>3. CASE c # w /\ RunOf[c] # run
    <3>1. c \in wrote /\ c \in Callers /\ row'[RunOf[c]] = row[RunOf[c]]
      BY <1>1, <2>3
    <3>2. Contended(RunOf[c]) => Contended(RunOf[c])'
      BY <1>1 DEF Contended
    <3>3. CASE LeftBy(c) /\ c \in Pipelines
      BY <3>1, <3>3, StoredKept DEF LeftBy
    <3>4. CASE LeftBy(c) /\ c \in Jobs
      BY <3>1, <3>4, <2>3 DEF LeftBy
    <3>5. QED
      BY <3>1, <3>2, <3>3, <3>4 DEF WriterInv, LeftAsWritten
  <2>4. QED
    BY <2>1, <2>2, <2>3
<1>6. LeftAsWritten'
  BY <1>5 DEF LeftAsWritten
<1>7. QED
  BY <1>2, <1>3, <1>4, <1>6 DEF WriterInv

(* Every step keeps it.                                                    *)
LEMMA WriterStep ==
  ASSUME PipelineTypeOK, CacheInv, PipelineInv, WriterInv, Next
  PROVE  WriterInv'
<1> USE PipelineAssumption
<1>1. ASSUME NEW p \in Pipelines, PipelineStep(p) PROVE WriterInv'
  <2>1. Effect(p) /\ UNCHANGED <<segment, jpc>> /\ \A j \in Jobs : tries'[j] = tries[j]
    BY <1>1, Effects, ExecutionsKept DEF Effect
  <2>2. CASE UNCHANGED <<row, writer, wrote>>
    BY <2>1, <2>2, WriterKept
  <2>3. CASE task[p] = "persist" /\ ~skip[p] /\ CanUpsert /\ Upsert(p)
    <3> DEFINE new == [status |-> "completed", answer |-> got[p]]
    <3>1. got'[p] = got[p]
      BY <2>1, <2>3 DEF Effect, cacheVars
    <3>2. task'[p] \in {"persist"} \cup Ends
      <4>1. CASE UNCHANGED <<task, tries>>
        BY <2>3, <4>1
      <4>2. CASE Advance(p)
        BY <2>3, <4>2 DEF Advance, After, Ends, PipelineTypeOK
      <4>3. CASE TaskFails(p)
        BY <2>3, <4>3 DEF TaskFails, Ends, PipelineTypeOK
      <4>4. QED
        BY <2>1, <4>1, <4>2, <4>3 DEF Effect
    <3>3. WriteRow(RunOf[p], new, p) /\ segment
      BY <2>3 DEF Upsert, CanUpsert
    <3>4. new # NoRow /\ new.status = "completed"
      BY DEF NoRow
    <3>5. new = [status |-> "completed", answer |-> got'[p]]
      BY <3>1
    <3>6. p \in Callers /\ p \notin Jobs
      OBVIOUS
    <3> HIDE DEF new
    <3>7. QED
      BY <2>1, <3>2, <3>3, <3>4, <3>5, <3>6, WriterWrites
  <2>4. QED
    BY <2>1, <2>2, <2>3 DEF Effect
<1>2. ASSUME NEW j \in Jobs, JobStep(j) PROVE WriterInv'
  <2> USE DEF PipelineTypeOK
  <2> DEFINE r == RunOf[j]
  <2>0. JobEffect(j)
    BY <1>2, JobEffects
  <2>1. /\ UNCHANGED segment /\ r \in Runs /\ j \in Callers /\ j \notin Pipelines
        /\ \A i \in Jobs \ {j} : tries'[i] = tries[i] /\ jpc'[i] = jpc[i]
    <3>1. \E s : jpc' = [jpc EXCEPT ![j] = s]
      BY <2>0 DEF JobEffect
    <3>2. UNCHANGED tries \/ tries' = [tries EXCEPT ![j] = @ + 1]
      BY <2>0 DEF JobEffect
    <3>3. UNCHANGED segment
      BY <2>0 DEF JobEffect
    <3>4. QED
      BY <3>1, <3>2, <3>3
  <2>2. ~segment => row[r] = NoRow
    BY <2>1 DEF PipelineInv, RowsHaveSegment
  <2>3. segment => row[r] # NoRow
    BY DEF WriterInv, JobsWrote
  <2>4. CASE JobStarts(j) /\ segment
    <3> DEFINE new == WithStatus(j, "running")
    <3>1. WriteRow(r, new, j) /\ tries'[j] > 0
      BY <2>1, <2>3, <2>4 DEF JobStarts, UpdateRow
    <3>2. new # NoRow /\ new.status = "running"
      BY DEF NoRow, WithStatus
    <3> HIDE DEF new
    <3>3. QED
      BY <2>1, <2>4, <3>1, <3>2, WriterWrites
  <2>5. CASE JobStarts(j) /\ ~segment
    <3>1. \A p \in Pipelines : p \in wrote => task'[p] \in {"persist"} \cup Ends
      BY StoredKept
    <3>2. UNCHANGED wrote
      BY <2>2, <2>5 DEF JobStarts, UpdateRow
    <3>3. QED
      BY <2>1, <2>5, <3>1, <3>2 DEF WriterInv, StoredAtEnd
  <2>6. CASE JobWrites(j) /\ segment
    <3>1. PICK new : /\ new # NoRow /\ new.status \in {"completed", "failed"}
                     /\ WriteRow(r, new, j)
      <4>1. CASE UpdateRow(j, [status |-> "completed", answer |-> got[j]])
        BY <2>3, <2>6, <4>1 DEF UpdateRow, NoRow
      <4>2. CASE UpdateRow(j, WithStatus(j, "failed"))
        BY <2>3, <2>6, <4>2 DEF UpdateRow, WithStatus, NoRow
      <4>3. QED
        BY <2>6, <4>1, <4>2 DEF JobWrites
    <3>2. jpc'[j] # "infer"
      BY <2>6 DEF JobWrites
    <3>3. tries'[j] > 0
      <4>1. tries[j] > 0
        BY <2>6 DEF JobWrites, WriterInv, JobsWrote
      <4>2. QED
        BY <2>6, <4>1 DEF JobWrites
    <3>4. QED
      BY <2>1, <2>6, <3>1, <3>2, <3>3, WriterWrites
  <2>7. CASE JobWrites(j) /\ ~segment
    <3>1. UNCHANGED <<row, wrote, tries>> /\ jpc'[j] # "infer"
      BY <2>2, <2>7 DEF JobWrites, UpdateRow
    <3>2. QED
      BY <2>1, <3>1, WriterKept
  <2>8. CASE JobDropped(j) \/ JobEnds(j) \/ JobDies(j)
    <3>1. UNCHANGED <<row, wrote, tries>> /\ jpc'[j] # "infer"
      BY <2>8 DEF JobDropped, JobEnds, JobDies, dbVars
    <3>2. QED
      BY <2>1, <3>1, WriterKept
  <2>9. QED
    BY <1>2, <2>4, <2>5, <2>6, <2>7, <2>8 DEF JobStep
<1>3. ASSUME NEW c \in Callers, CallGoesOn(c) \/ CallBreaks(c) PROVE WriterInv'
  <2>1. UNCHANGED <<dbVars, jpc, tries>>
    BY <1>3 DEF CallGoesOn, CallBreaks
  <2>2. QED
    BY <2>1, WriterKept DEF dbVars
<1>4. CASE DeleteSegment
  <2>1. \A p \in Pipelines : p \in wrote => task'[p] \in {"persist"} \cup Ends
    BY StoredKept
  <2>2. QED
    BY <1>4, <2>1 DEF DeleteSegment, WriterInv, StoredAtEnd
<1>5. QED
  BY <1>1, <1>2, <1>3, <1>4 DEF Next

(* The inductive invariant behind the lifecycle.                           *)
THEOREM WriterInvariant == Spec => []WriterInv
<1>1. Init => WriterInv
  BY PipelineAssumption
     DEF Init, WriterInv, StoredAtEnd, JobsWrote, WrittenBySome, LeftAsWritten, Ordered, NoRow
<1>2. PipelineTypeOK /\ CacheInv /\ PipelineInv /\ WriterInv /\ [Next]_vars => WriterInv'
  <2> SUFFICES ASSUME PipelineTypeOK, CacheInv, PipelineInv, WriterInv, [Next]_vars
               PROVE  WriterInv'
    OBVIOUS
  <2>1. CASE UNCHANGED vars
    BY <2>1 DEF vars, cacheVars, pipelineVars, dbVars, WriterInv, StoredAtEnd, JobsWrote,
       WrittenBySome, LeftAsWritten, LeftBy, Contended
  <2>2. CASE Next
    BY <2>2, WriterStep
  <2>3. QED
    BY <2>1, <2>2
<1>3. Spec => []CacheInv
  BY PipelineCache, PTL
<1>4. QED
  BY <1>1, <1>2, <1>3, PipelineTypesHold, PipelineInvariant, PTL DEF Spec

(* Only the one who writes, or whose job is executed, can disturb a run,   *)
(* and only its own.                                                       *)
LEMMA DisturbedGrows ==
  ASSUME PipelineTypeOK, NEW w \in Callers, wrote' \in {wrote, wrote \cup {w}},
         \A j \in Jobs \ {w} : tries'[j] = tries[j],
         w \in Jobs => tries'[w] \in {tries[w], tries[w] + 1}
  PROVE  disturbedRuns' \in {disturbedRuns, disturbedRuns \cup {RunOf[w]}}
<1> USE PipelineAssumption DEF PipelineTypeOK
<1>1. \A j \in Jobs : tries[j] > 1 => tries'[j] > 1
  OBVIOUS
<1>2. \A r \in Runs : r \in disturbedRuns => r \in disturbedRuns'
  BY <1>1 DEF disturbedRuns, Contended
<1>3. \A r \in Runs \ {RunOf[w]} : r \in disturbedRuns' => r \in disturbedRuns
  BY DEF disturbedRuns, Contended
<1>4. disturbedRuns \subseteq Runs /\ disturbedRuns' \subseteq Runs
  BY DEF disturbedRuns
<1>5. RunOf[w] \in Runs
  OBVIOUS
<1> HIDE DEF PipelineTypeOK
<1>6. QED
  BY <1>2, <1>3, <1>4, <1>5

(* While the segment exists, readers see the rows as they are.             *)
LEMMA RowsShown ==
  ASSUME PipelineInv, segment
  PROVE  shownStatus = [r \in Runs |-> row[r].status]
BY DEF PipelineInv, RowsHaveSegment, shownStatus

(* A write of a row, as its readers see it.                                *)
LEMMA WriteShown ==
  ASSUME PipelineTypeOK, PipelineInv, segment, UNCHANGED <<segment, erased>>,
         NEW w \in Callers, NEW new, WriteRow(RunOf[w], new, w),
         disturbedRuns' \in {disturbedRuns, disturbedRuns \cup {RunOf[w]}}
  PROVE  /\ Lifecycle!Put(RunOf[w], new.status, new.answer)
         /\ shownStatus[RunOf[w]] = row[RunOf[w]].status
         /\ shownAnswer[RunOf[w]] = row[RunOf[w]].answer
<1> USE PipelineAssumption
<1> DEFINE run == RunOf[w]
<1>1. row' = [row EXCEPT ![run] = new] /\ run \in Runs
  BY DEF WriteRow
<1>2. shownStatus = [r \in Runs |-> row[r].status]
  BY RowsShown
<1>3. shownStatus' = [r \in Runs |-> row'[r].status]
  BY DEF shownStatus, PipelineInv, RowsHaveSegment
<1>4. shownStatus' = [shownStatus EXCEPT ![run] = new.status]
  BY <1>1, <1>2, <1>3 DEF PipelineTypeOK
<1>5. shownAnswer' = [shownAnswer EXCEPT ![run] = new.answer]
  BY <1>1 DEF PipelineTypeOK, shownAnswer
<1>6. QED
  BY <1>1, <1>2, <1>4, <1>5 DEF Lifecycle!Put, shownAnswer

(* Nothing readers see changes, though a run may be disturbed.             *)
LEMMA NothingShown ==
  ASSUME UNCHANGED <<row, erased>>, NEW w \in Callers, RunOf[w] \in Runs,
         disturbedRuns' \in {disturbedRuns, disturbedRuns \cup {RunOf[w]}}
  PROVE  [Lifecycle!RunNext]_(Lifecycle!runVars)
<1>1. UNCHANGED <<shownStatus, shownAnswer>>
  BY DEF shownStatus, shownAnswer
<1>2. CASE UNCHANGED disturbedRuns
  BY <1>1, <1>2 DEF Lifecycle!runVars
<1>3. CASE disturbedRuns' = disturbedRuns \cup {RunOf[w]}
  BY <1>1, <1>3 DEF Lifecycle!RunNext, Lifecycle!Disturb
<1>4. QED
  BY <1>2, <1>3

(* A DAG run stores its answer: the run appears with it, or settles, or    *)
(* the same answer is stored again, or the run is disturbed.               *)
LEMMA UpsertShown ==
  ASSUME PipelineTypeOK, CacheInv, PipelineInv, WriterInv,
         NEW p \in Pipelines, cstep[p] = "answered", CanUpsert, Upsert(p),
         UNCHANGED <<segment, erased>>, \A j \in Jobs : tries'[j] = tries[j]
  PROVE  [Lifecycle!RunNext]_(Lifecycle!runVars)
<1> USE PipelineAssumption
<1> DEFINE run == RunOf[p]
           new == [status |-> "completed", answer |-> got[p]]
<1>1. /\ segment /\ WriteRow(run, new, p) /\ wrote' = wrote \cup {p}
      /\ p \in Callers /\ p \notin Jobs /\ run \in Runs
  BY DEF CanUpsert, Upsert, WriteRow
<1>2. disturbedRuns' \in {disturbedRuns, disturbedRuns \cup {run}}
  BY <1>1, DisturbedGrows
<1>3. got[p] \in Answers
  BY <1>1 DEF CacheInv, CallInv, CacheTypeOK, None
<1>4. new.status = "completed" /\ new.answer = got[p]
  OBVIOUS
<1>5. /\ Lifecycle!Put(run, "completed", got[p])
      /\ shownStatus[run] = row[run].status /\ shownAnswer[run] = row[run].answer
  BY <1>1, <1>2, <1>4, WriteShown
<1>6. row[run].status \in {"absent"} \cup Statuses
  BY <1>1 DEF PipelineTypeOK, NoRow
<1>7. CASE row[run].status = "absent"
  BY <1>1, <1>3, <1>5, <1>7 DEF Lifecycle!RunNext, Lifecycle!SubmitAnswered
<1>8. CASE row[run].status \in {"pending", "running"}
  BY <1>1, <1>3, <1>5, <1>8 DEF Lifecycle!RunNext, Lifecycle!Settle
<1>9. CASE row[run].status \in {"completed", "failed"}
  <2>1. PICK c \in wrote : RunOf[c] = run
    BY <1>1, <1>9 DEF WriterInv, WrittenBySome
  <2>2. CASE run \in disturbedRuns'
    BY <1>1, <1>3, <1>5, <1>9, <2>2
       DEF Lifecycle!RunNext, Lifecycle!Redo, Lifecycle!Exposed
  <2>3. CASE run \notin disturbedRuns'
    <3>1. ~Contended(run)' /\ ~Contended(run)
      BY <1>1, <2>3 DEF disturbedRuns, Contended
    <3>2. c = p
      BY <1>1, <2>1, <3>1 DEF Contended
    <3>3. row[run] = new /\ wrote' = wrote
      BY <1>1, <2>1, <3>1, <3>2 DEF WriterInv, LeftAsWritten, LeftBy
    <3>4. row' = row
      BY <1>1, <3>3 DEF WriteRow, PipelineTypeOK
    <3>5. QED
      BY <1>1, <1>2, <3>4, NothingShown
  <2>4. QED
    BY <2>2, <2>3
<1>10. QED
  BY <1>6, <1>7, <1>8, <1>9 DEF Statuses

(* A job writes its row: the run begins or settles as requested, or it has *)
(* been written by somebody else, or its job is executed again.            *)
LEMMA JobShown ==
  ASSUME PipelineTypeOK, CacheInv, PipelineInv, WriterInv,
         NEW j \in Jobs, JobStarts(j) \/ JobWrites(j)
  PROVE  [Lifecycle!RunNext]_(Lifecycle!runVars)
<1> USE PipelineAssumption
<1> DEFINE run == RunOf[j]
<1>1. /\ UNCHANGED <<segment, erased>> /\ j \in Callers /\ j \notin Pipelines /\ run \in Runs
      /\ \A i \in Jobs \ {j} : tries'[i] = tries[i]
      /\ tries'[j] = IF JobStarts(j) THEN tries[j] + 1 ELSE tries[j]
  <2>1. CASE JobStarts(j)
    BY <2>1 DEF JobStarts, PipelineTypeOK
  <2>2. CASE JobWrites(j) /\ ~JobStarts(j)
    BY <2>2 DEF JobWrites, PipelineTypeOK
  <2>3. QED
    BY <2>1, <2>2
<1>2. wrote' \in {wrote, wrote \cup {j}}
  BY DEF JobStarts, JobWrites, UpdateRow, WriteRow
<1>3. disturbedRuns' \in {disturbedRuns, disturbedRuns \cup {run}}
  BY <1>1, <1>2, DisturbedGrows
<1>4. CASE row[run] = NoRow
  BY <1>1, <1>3, <1>4, NothingShown DEF JobStarts, JobWrites, UpdateRow
<1>5. CASE row[run] # NoRow
  <2> USE DEF Lifecycle!RunNext
  <2>1. segment
    BY <1>1, <1>5 DEF PipelineInv, RowsHaveSegment
  <2>2. /\ shownStatus[run] = row[run].status /\ shownAnswer[run] = row[run].answer
        /\ \A new : WriteRow(run, new, j) => Lifecycle!Put(run, new.status, new.answer)
    <3>1. /\ shownStatus = [r \in Runs |-> row[r].status]
          /\ shownAnswer = [r \in Runs |-> row[r].answer]
      BY <2>1, RowsShown DEF shownAnswer
    <3>2. QED
      BY <1>1, <1>3, <2>1, <3>1, WriteShown
  <2>3. row[run].status \in Statuses
    BY <1>1, <1>5 DEF PipelineTypeOK
  <2>4. row[run].status # "pending" => \E c \in wrote : RunOf[c] = run
    BY <1>1, <2>1, <2>3 DEF WriterInv, WrittenBySome, Statuses
  <2>5. CASE JobStarts(j)
    <3>0. WriteRow(run, WithStatus(j, "running"), j)
      BY <1>5, <2>5 DEF JobStarts, UpdateRow
    <3>1. Lifecycle!Put(run, "running", shownAnswer[run]) /\ wrote' = wrote \cup {j}
      <4>1. Lifecycle!Put(run, "running", shownAnswer[run])
        BY <2>2, <3>0 DEF WithStatus
      <4>2. QED
        BY <3>0, <4>1 DEF WriteRow
    <3>2. CASE row[run].status = "pending"
      BY <1>1, <2>2, <3>1, <3>2 DEF Lifecycle!Begin
    <3>3. CASE row[run].status # "pending"
      <4>1. PICK c \in wrote : RunOf[c] = run
        BY <2>4, <3>3
      <4>2. CASE c = j
        <5>1. tries[j] > 0 /\ tries[j] \in Nat
          BY <1>1, <2>1, <4>2 DEF WriterInv, JobsWrote, PipelineTypeOK
        <5>2. tries'[j] > 1
          BY <1>1, <2>5, <5>1
        <5>3. run \in disturbedRuns'
          BY <1>1, <5>2 DEF disturbedRuns
        <5>4. QED
          BY <1>1, <2>2, <2>3, <3>1, <5>3
             DEF Lifecycle!Redo, Lifecycle!Exposed, Statuses
      <4>3. CASE c # j
        <5>1. run \in disturbedRuns'
          BY <1>1, <3>1, <4>1, <4>3 DEF disturbedRuns, Contended
        <5>2. QED
          BY <1>1, <2>2, <2>3, <3>1, <5>1
             DEF Lifecycle!Redo, Lifecycle!Exposed, Statuses
      <4>4. QED
        BY <4>2, <4>3
    <3>4. QED
      BY <3>2, <3>3
  <2>6. CASE JobWrites(j)
    <3>1. /\ wrote' = wrote \cup {j} /\ jpc[j] = "infer" /\ tries'[j] = tries[j]
          /\ \/ Lifecycle!Put(run, "failed", shownAnswer[run])
             \/ got[j] \in Answers /\ Lifecycle!Put(run, "completed", got[j])
      <4>1. cstep[j] = "answered" => got[j] \in Answers
        BY <1>1 DEF CacheInv, CallInv, CacheTypeOK, None
      <4>2. tries' = tries /\ jpc[j] = "infer"
        BY <2>6 DEF JobWrites
      <4>3. CASE WriteRow(run, [status |-> "completed", answer |-> got[j]], j)
                 /\ cstep[j] = "answered"
        <5>1. Lifecycle!Put(run, "completed", got[j])
          BY <2>2, <4>3
        <5>2. QED
          BY <4>1, <4>2, <4>3, <5>1 DEF WriteRow
      <4>4. CASE WriteRow(run, WithStatus(j, "failed"), j)
        <5>1. Lifecycle!Put(run, "failed", shownAnswer[run])
          BY <2>2, <4>4 DEF WithStatus
        <5>2. QED
          BY <4>2, <4>4, <5>1 DEF WriteRow
      <4>5. QED
        BY <1>5, <2>6, <4>3, <4>4 DEF JobWrites, UpdateRow
    <3>2. CASE row[run].status \in {"pending", "running"}
      BY <1>1, <2>2, <3>1, <3>2 DEF Lifecycle!Settle
    <3>3. CASE row[run].status \notin {"pending", "running"}
      <4>1. j \in wrote /\ tries[j] > 0 /\ tries[j] \in Nat
        BY <1>1, <2>1, <3>1 DEF WriterInv, JobsWrote, PipelineTypeOK
      <4>2. Contended(run) \/ tries[j] # 1
        BY <1>1, <2>1, <3>1, <3>3, <4>1 DEF WriterInv, LeftAsWritten, LeftBy
      <4>3. Contended(run) => Contended(run)'
        BY <3>1 DEF Contended
      <4>4. tries[j] # 1 => tries'[j] > 1
        BY <3>1, <4>1
      <4>5. run \in disturbedRuns'
        BY <1>1, <4>2, <4>3, <4>4 DEF disturbedRuns
      <4>6. QED
        BY <1>1, <2>2, <2>3, <3>1, <4>5
           DEF Lifecycle!Redo, Lifecycle!Exposed, Statuses
    <3>4. QED
      BY <3>2, <3>3
  <2>7. QED
    BY <2>5, <2>6
<1>6. QED
  BY <1>4, <1>5

(* The deletion of the segment erases every run that has a row.            *)
LEMMA DeletionShown ==
  ASSUME PipelineTypeOK, PipelineInv, DeleteSegment
  PROVE  [Lifecycle!RunNext]_(Lifecycle!runVars)
<1>1. /\ segment /\ row' = [r \in Runs |-> NoRow] /\ erased' = {r \in Runs : row[r] # NoRow}
      /\ UNCHANGED <<tries, wrote>>
  BY DEF DeleteSegment
<1>2. shownStatus = [r \in Runs |-> row[r].status]
  BY <1>1, RowsShown
<1>3. \A r \in Runs : Lifecycle!Exposed(r) <=> row[r] # NoRow
  BY <1>2 DEF Lifecycle!Exposed, PipelineTypeOK, NoRow, Statuses
<1>4. shownStatus' = [r \in Runs |-> IF row[r] # NoRow THEN "erased" ELSE "absent"]
  BY <1>1 DEF shownStatus, NoRow
<1>5. shownStatus' =
        [r \in Runs |-> IF r \in Runs /\ Lifecycle!Exposed(r) THEN "erased" ELSE shownStatus[r]]
  BY <1>2, <1>3, <1>4 DEF NoRow
<1>6. shownAnswer' = [r \in Runs |-> IF r \in Runs THEN None ELSE shownAnswer[r]]
  BY <1>1 DEF shownAnswer, NoRow
<1>7. UNCHANGED disturbedRuns
  BY <1>1 DEF disturbedRuns, Contended
<1>8. Lifecycle!EraseRuns(Runs)
  BY <1>5, <1>6, <1>7 DEF Lifecycle!EraseRuns
<1>9. QED
  BY <1>8 DEF Lifecycle!RunNext

(* Every step is a step of the lifecycle of one run, of all that are       *)
(* deleted, or of none.                                                    *)
LEMMA LifecycleStep ==
  ASSUME PipelineTypeOK, CacheInv, PipelineInv, WriterInv, Next
  PROVE  [Lifecycle!RunNext]_(Lifecycle!runVars)
<1> USE PipelineAssumption
<1>1. ASSUME UNCHANGED <<row, erased, wrote>>, \A j \in Jobs : tries'[j] = tries[j]
      PROVE  UNCHANGED Lifecycle!runVars
  BY <1>1 DEF Lifecycle!runVars, shownStatus, shownAnswer, disturbedRuns, Contended
<1>2. ASSUME NEW p \in Pipelines, PipelineStep(p)
      PROVE  [Lifecycle!RunNext]_(Lifecycle!runVars)
  <2>1. /\ Effect(p) /\ UNCHANGED <<segment, erased>>
        /\ \A j \in Jobs : tries'[j] = tries[j]
    BY <1>2, Effects, ExecutionsKept DEF Effect
  <2>2. CASE UNCHANGED <<row, writer, wrote>>
    BY <1>1, <2>1, <2>2
  <2>3. CASE task[p] = "persist" /\ ~skip[p] /\ CanUpsert /\ Upsert(p)
    BY <2>1, <2>3, UpsertShown DEF PipelineInv, HandedOn
  <2>4. QED
    BY <2>1, <2>2, <2>3 DEF Effect
<1>3. ASSUME NEW j \in Jobs, JobStep(j)
      PROVE  [Lifecycle!RunNext]_(Lifecycle!runVars)
  <2>1. CASE JobStarts(j) \/ JobWrites(j)
    BY <2>1, JobShown
  <2>2. CASE JobDropped(j) \/ JobEnds(j) \/ JobDies(j)
    BY <1>1, <2>2 DEF JobDropped, JobEnds, JobDies, dbVars
  <2>3. QED
    BY <1>3, <2>1, <2>2 DEF JobStep
<1>4. ASSUME NEW c \in Callers, CallGoesOn(c) \/ CallBreaks(c)
      PROVE  [Lifecycle!RunNext]_(Lifecycle!runVars)
  BY <1>1, <1>4 DEF CallGoesOn, CallBreaks, dbVars
<1>5. QED
  BY <1>2, <1>3, <1>4, DeletionShown DEF Next

(* DAG runs and jobs together keep the lifecycle of a run.                 *)
THEOREM PipelineLifecycle == Spec => RunsKeepLifecycle
<1>1. Init => Lifecycle!RunInit
  <2> SUFFICES ASSUME Init PROVE Lifecycle!RunInit
    OBVIOUS
  <2>1. shownStatus \in [Runs -> {"absent", "pending"}]
    BY DEF Init, shownStatus, NoRow
  <2>2. shownAnswer = [r \in Runs |-> None]
    BY DEF Init, shownAnswer, NoRow
  <2>3. disturbedRuns = {}
    BY PipelineAssumption DEF Init, disturbedRuns, Contended
  <2>4. QED
    BY <2>1, <2>2, <2>3 DEF Lifecycle!RunInit
<1>2. /\ PipelineTypeOK /\ CacheInv /\ PipelineInv /\ WriterInv /\ [Next]_vars
      => [Lifecycle!RunNext]_(Lifecycle!runVars)
  <2>1. UNCHANGED vars => UNCHANGED Lifecycle!runVars
    BY DEF vars, dbVars, Lifecycle!runVars, shownStatus, shownAnswer, disturbedRuns, Contended
  <2>2. QED
    BY <2>1, LifecycleStep
<1>3. Spec => []CacheInv
  BY PipelineCache, PTL
<1>4. QED
  BY <1>1, <1>2, <1>3, PipelineTypesHold, PipelineInvariant, WriterInvariant, PTL
     DEF Spec, RunsKeepLifecycle, Lifecycle!RunSpec

-----------------------------------------------------------------------------
(* Why a DAG run fails.                                                    *)

(* While nothing is interrupted, a call nobody else asks beside finds in   *)
(* its file what it wrote, or an answer that is bad.                       *)
LEMMA CallAloneStep ==
  ASSUME CacheInv, CacheInv', broke = {}, \A c \in Callers : CallAlone(c),
         UNCHANGED cacheVars \/ \E d \in Callers : Begin(d) \/ CallStep(d)
  PROVE  broke' = {} /\ \A c \in Callers : CallAlone(c)'
<1> USE CacheAssumption
<1>1. CASE UNCHANGED cacheVars
  BY <1>1 DEF cacheVars, CallAlone, OthersAsked, BadAnswerCached
<1>2. ASSUME NEW d \in Callers, Begin(d) \/ CallStep(d), NEW c \in Callers
      PROVE  broke' = {} /\ CallAlone(c)'
  <2> DEFINE k == KeyOf[c]
  <2>1. broke' = {} /\ k \in Keys
    BY <1>2 DEF CallStep, Begin, Look, Ask, Open, Write, Read, Parse
  <2>2. /\ cstep \in [Callers -> CallSteps] /\ file \in [Keys -> Files]
        /\ got \in [Callers -> Answers \cup {None}] /\ asked \in [Callers -> Nat]
    BY DEF CacheInv, CacheTypeOK
  <2>3. OthersAsked(c) => OthersAsked(c)'
    <3>1. \A e \in Callers : asked[e] > 0 => asked'[e] > 0
      BY <1>2, <2>2 DEF CallStep, Begin, Look, Ask, Open, Write, Read, Parse
    <3>2. QED
      BY <3>1 DEF OthersAsked, CallersOf
  <2>4. CASE OthersAsked(c)'
    BY <2>1, <2>4 DEF CallAlone
  <2>5. CASE d # c /\ ~OthersAsked(c)'
    <3>1. cstep'[c] = cstep[c] /\ got'[c] = got[c]
      BY <1>2, <2>2, <2>5 DEF CallStep, Begin, Look, Ask, Open, Write, Read, Parse, CallGoes
    <3>2. file'[k] = file[k]
      <4>1. CASE KeyOf[d] # k
        BY <1>2, <2>2, <4>1 DEF CallStep, Begin, Look, Ask, Open, Write, Read, Parse
      <4>2. CASE KeyOf[d] = k
        <5>1. asked[d] = 0
          BY <2>2, <2>3, <2>5, <4>2 DEF OthersAsked, CallersOf
        <5>2. cstep[d] \notin {"opening", "writing"}
          BY <1>2, <5>1 DEF CacheInv, CallInv, PaidFor
        <5>3. UNCHANGED file
          BY <1>2, <5>2 DEF CallStep, Begin, Look, Ask, Open, Write, Read, Parse, CallGoes
        <5>4. QED
          BY <5>3
      <4>3. QED
        BY <4>1, <4>2
    <3>3. CallAlone(c)
      OBVIOUS
    <3>4. QED
      BY <2>1, <2>3, <2>5, <3>1, <3>2, <3>3 DEF CallAlone, BadAnswerCached
  <2>6. CASE d = c /\ ~OthersAsked(c)'
    <3> USE <2>2 DEF CallGoes
    <3>0. ~OthersAsked(c) /\ CallAlone(c)
      BY <2>3, <2>6
    <3>1. CASE Begin(c)
      BY <2>1, <3>1 DEF Begin, CallAlone
    <3>2. CASE Look(c)
      BY <2>1, <3>2 DEF Look, CallAlone
    <3>3. CASE Ask(c)
      BY <2>1, <3>3 DEF Ask, CallAlone
    <3>4. CASE Open(c)
      BY <2>1, <3>4 DEF Open, CallAlone
    <3>5. CASE Write(c)
      <4>1. file[k] = Nothing(Empty)
        BY <3>0, <3>5 DEF Write, CallAlone
      <4>2. cstep'[c] = "parsing" /\ file'[k] = Whole(got'[c])
        BY <2>1, <3>5, <4>1 DEF Write
      <4>3. QED
        BY <2>1, <4>2 DEF CallAlone
    <3>6. CASE Read(c)
      <4>1. file[k][1] = "whole"
        <5>1. file[k] # Nothing(Absent)
          BY <3>6 DEF Read, CacheInv, CallInv
        <5>2. file[k] # Nothing(Empty)
          <6>1. SUFFICES ASSUME file[k] = Nothing(Empty) PROVE FALSE
            OBVIOUS
          <6>2. PICK e \in CallersOf(k) : cstep[e] = "writing"
            BY <2>1, <6>1 DEF CacheInv, UnreadableForCause
          <6>3. e # c /\ e \in Callers
            BY <3>6, <6>2 DEF Read, CallersOf
          <6>4. asked[e] > 0
            BY <6>2, <6>3 DEF CacheInv, CallInv, PaidFor
          <6>5. QED
            BY <3>0, <6>2, <6>3, <6>4 DEF OthersAsked
        <5>3. file[k] # Nothing(Garbled)
          <6>1. SUFFICES ASSUME file[k] = Nothing(Garbled) PROVE FALSE
            OBVIOUS
          <6>2. PICK e, f \in CallersOf(k) : e # f /\ asked[e] > 0 /\ asked[f] > 0
            BY <2>1, <6>1 DEF CacheInv, UnreadableForCause
          <6>3. QED
            BY <3>0, <6>2 DEF OthersAsked
        <5>4. file[k] \in Files
          BY <2>1
        <5>5. QED
          BY <5>1, <5>2, <5>3, <5>4 DEF Files, Nothing
      <4>2. file[k] = Whole(file[k][2])
        <5>1. file[k] \in Files
          BY <2>1
        <5>2. QED
          BY <4>1, <5>1 DEF Files, Whole
      <4>3. cstep'[c] = "parsing" /\ got'[c] = file[k][2] /\ file' = file
        BY <3>6, <4>1 DEF Read
      <4>4. QED
        BY <2>1, <4>2, <4>3 DEF CallAlone
    <3>7. CASE Parse(c)
      <4>1. file[k] = Whole(got[c]) /\ file' = file
        BY <3>0, <3>7 DEF Parse, CallAlone
      <4>2. got[c] \in Answers
        <5>1. file[k] \in Files
          BY <2>1
        <5>2. QED
          BY <4>1, <5>1 DEF Files, Whole, Absent, Empty, Garbled
      <4>3. cstep'[c] = "answered" \/ (cstep'[c] = "failed" /\ ~got[c].good)
        BY <3>7 DEF Parse
      <4>4. QED
        BY <2>1, <4>1, <4>2, <4>3 DEF CallAlone, BadAnswerCached
    <3>8. QED
      BY <1>2, <2>6, <3>1, <3>2, <3>3, <3>4, <3>5, <3>6, <3>7 DEF CallStep
  <2>7. QED
    BY <2>4, <2>5, <2>6
<1>3. (\E d \in Callers : Begin(d) \/ CallStep(d)) => broke' = {}
  BY DEF CallStep, Begin, Look, Ask, Open, Write, Read, Parse
<1>4. QED
  BY <1>1, <1>2, <1>3

(* A DAG run that a step fails without an interruption did not come to     *)
(* ask, had its inference fail, or could not store its answer.             *)
LEMMA TaskFailsForCause ==
  ASSUME PipelineTypeOK, PipelineInv, NEW p \in Pipelines, PipelineStep(p),
         budget' = budget, task'[p] = "failed", segment'
  PROVE  \/ ~CanInfer(p)' \/ cstep'[p] = "failed"
         \/ cstep'[p] = "answered" /\ ~orgIdNullable'
<1> USE DEF PipelineTypeOK, pipelineVars, cacheVars, dbVars
<1>1. Advance(p) => task'[p] = After[task[p]]
  BY DEF Advance
<1>2. ~Fault
  BY PipelineAssumption DEF Fault
<1>3. CASE InitRun(p)
  BY <1>1, <1>3 DEF InitRun, After
<1>4. CASE HandOn(p)
  <2>1. task'[p] \in {"fetch", "features", "infer", "persist", "done"}
    BY <1>1, <1>4 DEF HandOn, After, Tasks
  <2>2. QED
    BY <2>1
<1>5. CASE WaitForKafkaDrain(p)
  BY <1>1, <1>5 DEF WaitForKafkaDrain, After
<1>6. CASE FetchSegment(p)
  <2>1. segment /\ task[p] = "fetch"
    BY <1>6 DEF FetchSegment
  <2>2. task'[p] = "features"
    BY <1>1, <1>6, <2>1 DEF FetchSegment, After
  <2>3. QED
    BY <2>2
<1>7. CASE RunFeatureEngineering(p)
  <2>1. CASE userCount
    BY <1>1, <1>7, <2>1 DEF RunFeatureEngineering, After
  <2>2. CASE ~userCount
    BY <1>7, <2>2 DEF RunFeatureEngineering, CanInfer
  <2>3. QED
    BY <2>1, <2>2
<1>8. CASE StimulusRefused(p) \/ BeginInference(p)
  BY <1>8 DEF StimulusRefused, BeginInference, CanInfer
<1>9. CASE EndInference(p)
  BY <1>1, <1>9 DEF EndInference, After
<1>10. CASE InferenceFails(p)
  BY <1>2, <1>10 DEF InferenceFails
<1>11. CASE ScoreAndPersist(p)
  <2>1. cstep'[p] = "answered" /\ segment
    BY <1>11 DEF ScoreAndPersist, PipelineInv, HandedOn
  <2>2. ~CanUpsert
    <3>1. CanUpsert => task'[p] = "done"
      BY <1>1, <1>11 DEF ScoreAndPersist, After
    <3>2. QED
      BY <3>1
  <2>3. QED
    BY <1>11, <2>1, <2>2 DEF ScoreAndPersist, CanUpsert
<1>12. CASE TaskDies(p)
  BY <1>2, <1>12 DEF TaskDies
<1>13. QED
  BY <1>3, <1>4, <1>5, <1>6, <1>7, <1>8, <1>9, <1>10, <1>11, <1>12 DEF PipelineStep

(* A step that interrupts nothing neither breaks a call off.               *)
LEMMA NothingBroken ==
  ASSUME PipelineTypeOK, Next, budget' = budget
  PROVE  UNCHANGED cacheVars \/ \E d \in Callers : Begin(d) \/ CallStep(d)
<1> USE PipelineAssumption
<1>1. ~Fault
  BY DEF PipelineTypeOK, Fault
<1>2. ASSUME NEW p \in Pipelines, PipelineStep(p)
      PROVE  UNCHANGED cacheVars \/ \E d \in Callers : Begin(d) \/ CallStep(d)
  BY <1>2, Effects DEF Effect
<1>3. ASSUME NEW j \in Jobs, JobStep(j)
      PROVE  UNCHANGED cacheVars \/ \E d \in Callers : Begin(d) \/ CallStep(d)
  BY <1>1, <1>3 DEF JobStep, JobStarts, JobDropped, JobWrites, JobEnds, JobDies
<1>4. ASSUME NEW c \in Callers, CallGoesOn(c) \/ CallBreaks(c)
      PROVE  UNCHANGED cacheVars \/ \E d \in Callers : Begin(d) \/ CallStep(d)
  BY <1>1, <1>4 DEF CallGoesOn, CallBreaks
<1>5. CASE DeleteSegment
  BY <1>5 DEF DeleteSegment
<1>6. QED
  BY <1>2, <1>3, <1>4, <1>5 DEF Next

LEMMA UndisturbedStep ==
  ASSUME PipelineTypeOK, PipelineTypeOK', CacheInv, CacheInv', PipelineInv, UndisturbedInv,
         [Next]_vars
  PROVE  UndisturbedInv'
<1> USE PipelineAssumption
<1>1. CASE UNCHANGED vars
  BY <1>1 DEF vars, UndisturbedInv, CallAlone, OthersAsked, BadAnswerCached, CanInfer,
     cacheVars, pipelineVars, dbVars
<1>2. CASE Next /\ budget' = MaxFaults
  <2>1. budget = MaxFaults
    <3>1. UNCHANGED budget \/ Fault
      BY <1>2 DEF Next, PipelineStep, JobStep, InitRun, HandOn, WaitForKafkaDrain, FetchSegment,
         RunFeatureEngineering, StimulusRefused, BeginInference, EndInference,
         InferenceFails, ScoreAndPersist, TaskDies, JobStarts, JobDropped, JobWrites, JobEnds,
         JobDies, CallGoesOn, CallBreaks, DeleteSegment
    <3>2. QED
      BY <1>2, <3>1 DEF Fault, PipelineTypeOK
  <2>2. UNCHANGED cacheVars \/ \E d \in Callers : Begin(d) \/ CallStep(d)
    BY <1>2, <2>1, NothingBroken
  <2>3. broke' = {} /\ \A c \in Callers : CallAlone(c)'
    BY <2>1, <2>2, CallAloneStep DEF UndisturbedInv
  <2>4. ASSUME NEW p \in Pipelines, task'[p] = "failed", segment'
        PROVE  \/ ~CanInfer(p)' \/ cstep'[p] = "failed"
               \/ cstep'[p] = "answered" /\ ~orgIdNullable'
    <3>1. CASE PipelineStep(p)
      BY <1>2, <2>1, <2>4, <3>1, TaskFailsForCause
    <3>2. CASE /\ task[p] = "failed" /\ segment /\ UNCHANGED given
               /\ cstep'[p] = cstep[p]
      BY <2>1, <3>2 DEF UndisturbedInv, CanInfer
    <3>3. ASSUME NEW q \in Pipelines, q # p, PipelineStep(q)
          PROVE  /\ task[p] = "failed" /\ segment /\ UNCHANGED given
                 /\ cstep'[p] = cstep[p]
      <4>1. Effect(q)
        BY <3>3, Effects
      <4>2. task'[p] = task[p]
        BY <3>3, <4>1, TaskMoves DEF Effect
      <4>3. cstep'[p] = cstep[p]
        BY <3>3, <4>1, OthersStay DEF Effect, cacheVars, CacheInv
      <4>4. QED
        BY <2>4, <4>1, <4>2, <4>3 DEF Effect
    <3>4. ASSUME NEW j \in Jobs, JobStep(j)
          PROVE  /\ task[p] = "failed" /\ segment /\ UNCHANGED given
                 /\ cstep'[p] = cstep[p]
      <4>1. JobEffect(j)
        BY <3>4, JobEffects
      <4>2. cstep'[p] = cstep[p]
        BY <4>1, OthersStay DEF JobEffect, cacheVars, CacheInv
      <4>3. QED
        BY <2>4, <4>1, <4>2 DEF JobEffect
    <3>5. ASSUME NEW c \in Callers, CallGoesOn(c) \/ CallBreaks(c)
          PROVE  /\ task[p] = "failed" /\ segment /\ UNCHANGED given
                 /\ cstep'[p] = cstep[p]
      <4>1. UNCHANGED <<pipelineVars, dbVars>> /\ (CallStep(c) \/ Break(c))
        BY <3>5 DEF CallGoesOn, CallBreaks
      <4>2. task[p] = "failed" /\ segment /\ UNCHANGED given
        BY <2>4, <4>1 DEF pipelineVars, dbVars
      <4>3. cstep[p] \in Resting
        BY <4>2 DEF PipelineTypeOK
      <4>4. cstep[c] \notin Resting
        BY <4>1 DEF CallStep, Look, Ask, Open, Write, Read, Parse, Break, CallGoes, Resting
      <4>5. QED
        BY <4>1, <4>2, <4>3, <4>4, OthersStay DEF CacheInv
    <3>6. ~DeleteSegment
      BY <2>4 DEF DeleteSegment
    <3>7. QED
      BY <1>2, <3>1, <3>2, <3>3, <3>4, <3>5, <3>6 DEF Next
  <2>5. QED
    BY <2>3, <2>4 DEF UndisturbedInv
<1>3. QED
  BY <1>1, <1>2 DEF UndisturbedInv

(* A DAG run that nothing interrupts fails because it never came to ask,   *)
(* for the schema, or for what the cache holds.                            *)
THEOREM PipelineFailures == Spec => []FailsForCause
<1>1. Init => UndisturbedInv
  BY PipelineAssumption DEF Init, CacheInit, UndisturbedInv, CallAlone
<1>2. /\ PipelineTypeOK /\ PipelineTypeOK' /\ CacheInv /\ CacheInv' /\ PipelineInv
      /\ UndisturbedInv /\ [Next]_vars
      => UndisturbedInv'
  BY UndisturbedStep
<1>3. PipelineInv /\ UndisturbedInv => FailsForCause
  BY PipelineAssumption
     DEF PipelineInv, AskedInOrder, UndisturbedInv, FailsForCause, CallAlone
<1>4. Spec => []CacheInv
  BY PipelineCache, PTL
<1>5. QED
  BY <1>1, <1>2, <1>3, <1>4, PipelineTypesHold, PipelineInvariant, PTL DEF Spec
=============================================================================
