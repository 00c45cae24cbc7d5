----------------------------- MODULE InferenceCache -----------------------------
(***************************************************************************)
(* Asking the persona: PersonaInferenceService.generate and the disk cache *)
(* of CachedClaudeClient.complete, one file per prompt and shared by every *)
(* process that has the same cache directory.                              *)
(*                                                                         *)
(* A call looks whether the file of its prompt exists. If so it reads it;  *)
(* if not it asks the model, opens the file for writing, which empties it, *)
(* and writes the answer. Then it parses what it has, the file or the      *)
(* answer. Nothing locks the file, nothing replaces it atomically, and     *)
(* nothing removes it.                                                     *)
(***************************************************************************)
EXTENDS Naturals, FiniteSets

CONSTANTS
  Callers,  \* whoever calls generate: each has one call at a time
  Keys,     \* prompts, with model and temperature: the sha256 of _make_key
  KeyOf     \* the prompt each caller asks

ASSUME CacheAssumption == KeyOf \in [Callers -> Keys] /\ "nobody" \notin Callers

VARIABLES
  file,    \* {cache_dir}/{key}.json
  cstep,   \* how far the call of each caller is
  got,     \* the answer it has in hand
  (* history *)
  asked,   \* answers each caller had from the model: tokens paid
  broke    \* callers that were interrupted between answer and file

cacheVars == <<file, cstep, got, asked, broke>>

-----------------------------------------------------------------------------
(* An answer: who asked for it, and whether _parse_response accepts it.    *)
Answers == [by : Callers, good : BOOLEAN]
None == [by |-> "nobody", good |-> FALSE]

(* A file that exists is a whole answer, or json.loads refuses it: it is   *)
(* empty, or garbled: half an answer, or a short one over a longer one.    *)
Absent == "absent"
Empty == "empty"
Garbled == "garbled"
Files == {Absent, Empty, Garbled} \X {None} \cup {"whole"} \X Answers
Whole(a) == <<"whole", a>>
Nothing(what) == <<what, None>>

Resting == {"idle", "answered", "failed"}
Asking == {"asking", "opening", "writing"}
CallSteps == Resting \cup Asking \cup {"looking", "reading", "parsing"}

(* Types of the files and of what each call has in hand.                   *)
CacheTypeOK ==
  /\ file \in [Keys -> Files]
  /\ cstep \in [Callers -> CallSteps]
  /\ got \in [Callers -> Answers \cup {None}]
  /\ asked \in [Callers -> Nat]
  /\ broke \subseteq Callers

CacheInit ==
  /\ file = [k \in Keys |-> Nothing(Absent)]
  /\ cstep = [c \in Callers |-> "idle"]
  /\ got = [c \in Callers |-> None]
  /\ asked = [c \in Callers |-> 0]
  /\ broke = {}

-----------------------------------------------------------------------------
CallGoes(c, from, to) ==
  /\ cstep[c] \in from
  /\ cstep' = [cstep EXCEPT ![c] = to]

Begin(c) ==
  /\ CallGoes(c, Resting, "looking")
  /\ got' = [got EXCEPT ![c] = None]
  /\ UNCHANGED <<file, asked, broke>>

(* Mutant: a miss reserves the file before the model is asked.             *)
LookAndReserve(c) ==
  /\ CallGoes(c, {"looking"},
              IF file[KeyOf[c]] = Nothing(Absent) THEN "asking" ELSE "reading")
  /\ file' = IF file[KeyOf[c]] = Nothing(Absent)
             THEN [file EXCEPT ![KeyOf[c]] = Nothing(Empty)] ELSE file
  /\ UNCHANGED <<got, asked, broke>>

(* cache_path.exists()                                                     *)
Look(c) ==
  /\ CallGoes(c, {"looking"},
              IF file[KeyOf[c]] = Nothing(Absent) THEN "asking" ELSE "reading")
  /\ UNCHANGED <<file, got, asked, broke>>

(* The model answers, after up to three attempts, something the parser may *)
(* refuse.                                                                 *)
Ask(c) ==
  /\ CallGoes(c, {"asking"}, "opening")
  /\ \E good \in BOOLEAN : got' = [got EXCEPT ![c] = [by |-> c, good |-> good]]
  /\ asked' = [asked EXCEPT ![c] = @ + 1]
  /\ UNCHANGED <<file, broke>>

(* Mutant: an answer the parser would refuse is not cached.                *)
OpenIfGood(c) ==
  /\ CallGoes(c, {"opening"}, IF got[c].good THEN "writing" ELSE "parsing")
  /\ file' = IF got[c].good THEN [file EXCEPT ![KeyOf[c]] = Nothing(Empty)] ELSE file
  /\ UNCHANGED <<got, asked, broke>>

(* write_text: open(..., "w") truncates the file or creates it.            *)
Open(c) ==
  /\ CallGoes(c, {"opening"}, "writing")
  /\ file' = [file EXCEPT ![KeyOf[c]] = Nothing(Empty)]
  /\ UNCHANGED <<got, asked, broke>>

(* The text is written at the start of the file. Another call that opened  *)
(* the file as well may have written meanwhile: a longer text shows below. *)
Write(c) ==
  /\ CallGoes(c, {"writing"}, "parsing")
  /\ \/ file' = [file EXCEPT ![KeyOf[c]] = Whole(got[c])]
     \/ /\ file[KeyOf[c]] # Nothing(Empty)
        /\ file' = [file EXCEPT ![KeyOf[c]] = Nothing(Garbled)]
  /\ UNCHANGED <<got, asked, broke>>

(* Mutant: a file that cannot be read is a miss.                           *)
ReadOrAsk(c) ==
  /\ UNCHANGED <<file, asked, broke>>
  /\ IF file[KeyOf[c]][1] = "whole"
     THEN /\ CallGoes(c, {"reading"}, "parsing")
          /\ got' = [got EXCEPT ![c] = file[KeyOf[c]][2]]
     ELSE CallGoes(c, {"reading"}, "asking") /\ UNCHANGED got

(* json.loads(cache_path.read_text())                                      *)
Read(c) ==
  /\ UNCHANGED <<file, asked, broke>>
  /\ IF file[KeyOf[c]][1] = "whole"
     THEN /\ CallGoes(c, {"reading"}, "parsing")
          /\ got' = [got EXCEPT ![c] = file[KeyOf[c]][2]]
     ELSE CallGoes(c, {"reading"}, "failed") /\ UNCHANGED got

(* Mutant: the caller gets the text unparsed.                              *)
ParseNot(c) ==
  /\ CallGoes(c, {"parsing"}, "answered")
  /\ UNCHANGED <<file, got, asked, broke>>

(* _parse_response, after the answer is in the cache.                      *)
Parse(c) ==
  /\ CallGoes(c, {"parsing"}, IF got[c].good THEN "answered" ELSE "failed")
  /\ UNCHANGED <<file, got, asked, broke>>

(* The call fails: the model's API gives up, the disk fails, or the        *)
(* process dies. What is being written may be written in part.             *)
Break(c) ==
  /\ CallGoes(c, CallSteps \ Resting, "failed")
  /\ \/ UNCHANGED file
     \/ /\ cstep[c] = "writing"
        /\ file' = [file EXCEPT ![KeyOf[c]] = Nothing(Garbled)]
  /\ broke' = IF cstep[c] \in {"opening", "writing"} THEN broke \cup {c} ELSE broke
  /\ UNCHANGED <<got, asked>>

CallStep(c) == Look(c) \/ Ask(c) \/ Open(c) \/ Write(c) \/ Read(c) \/ Parse(c)
CacheNext == \E c \in Callers : Begin(c) \/ CallStep(c) \/ Break(c)
CacheSpec == CacheInit /\ [][CacheNext]_cacheVars

-----------------------------------------------------------------------------
CallersOf(k) == {c \in Callers : KeyOf[c] = k}
Settled(k) ==
  /\ file[k] # Nothing(Absent)
  /\ \A c \in CallersOf(k) : cstep[c] \notin Asking

(* A file that exists while nobody is about to write it keeps its content  *)
(* for ever, good or bad: every later call is served from it without       *)
(* paying, and no retry ever repairs one that is bad.                      *)
SettledForGood ==
  [][\A k \in Keys : Settled(k) => Settled(k)' /\ file'[k] = file[k]]_cacheVars

(* A file nobody can read has a cause. An empty one is being written at    *)
(* this moment or is what an interrupted write left; a garbled one is that *)
(* too, or two callers that both missed wrote it at once.                  *)
UnreadableForCause ==
  \A k \in Keys :
    /\ file[k] = Nothing(Empty) =>
         \E c \in CallersOf(k) : cstep[c] = "writing" \/ c \in broke
    /\ file[k] = Nothing(Garbled) =>
         \/ \E c \in CallersOf(k) : c \in broke
         \/ \E c, d \in CallersOf(k) : c # d /\ asked[c] > 0 /\ asked[d] > 0

(* A caller pays for a prompt a second time only if it was interrupted     *)
(* before its answer was safe. A retry after an answer that the parser     *)
(* refused costs nothing, and gets the same answer again.                  *)
PaidOnce == \A c \in Callers : asked[c] > 1 => c \in broke

(* An answer handed to a caller is one the parser accepts, and somebody    *)
(* paid for it with the same prompt.                                       *)
PaidFor(a, k) == a.by \in CallersOf(k) /\ asked[a.by] > 0
AnsweredTruly ==
  \A c \in Callers : cstep[c] = "answered" => got[c].good /\ PaidFor(got[c], KeyOf[c])

(* The inductive invariant. What a call did follows from its step: who     *)
(* paid, was not interrupted and is past the opening has made the file, so *)
(* it finds it when it looks again; an own answer is in the file of a      *)
(* caller about to write only after an interruption.                       *)
CallInv(c) ==
  /\ cstep[c] \in {"opening", "writing"} => got[c].by = c
  /\ cstep[c] \in {"opening", "writing", "parsing", "answered"} => PaidFor(got[c], KeyOf[c])
  /\ cstep[c] \in {"writing", "reading"} => file[KeyOf[c]] # Nothing(Absent)
  /\ cstep[c] = "answered" => got[c].good
  /\ asked[c] > 0 /\ c \notin broke =>
       /\ cstep[c] # "asking"
       /\ cstep[c] # "opening" => file[KeyOf[c]] # Nothing(Absent)
       /\ cstep[c] \in {"opening", "writing"} /\ file[KeyOf[c]][1] = "whole" =>
            file[KeyOf[c]][2].by # c
CacheInv ==
  /\ CacheTypeOK
  /\ \A c \in Callers : CallInv(c)
  /\ \A k \in Keys : file[k][1] = "whole" => PaidFor(file[k][2], k)
  /\ UnreadableForCause /\ PaidOnce
=============================================================================
