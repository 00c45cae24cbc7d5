--------------------------- MODULE RunReadersProofs ---------------------------
(***************************************************************************)
(* What every GET and every card may rely on, for all sets of runs,        *)
(* answers, requests and cards: a response is the run as it was at some    *)
(* moment since the GET began, and a report is right. The invariant is     *)
(* ReadersInv; a step of the runs, of a GET and of a card are treated each *)
(* by a lemma of its own.                                                  *)
(***************************************************************************)
EXTENDS RunReaders, TLAPS

Gots  == Responses \cup {Nothing, NotFound}
GetRecords ==
  [at : {"idle", "reading", "filling", "answered"}, run : Runs \cup {"none"}, got : Gots]
ViewRecords ==
  [socket : {"none", "open", "closing", "closed"},
   run : Runs \cup {"none"},
   entity : Responses \cup {Nothing},
   shown : UiTerminal \cup {"pending", "running"},
   reported : UiTerminal \cup {"no"}]

-----------------------------------------------------------------------------
(* A response is one of the typed responses, or the 404.                   *)
LEMMA CurrentTyped ==
  ASSUME RunsTyped, NEW r \in Runs
  PROVE  /\ Current(r) \in Responses \cup {NotFound}
         /\ Exposed(r) => Current(r) = Response(r) /\ Response(r) \in Responses
  BY DEF RunsTyped, Current, Response, Responses, Exposed, RunStatuses, RunTerminal

(* No response has an org_id, so no entry of the cache is ever taken.      *)
LEMMA NeverMine ==
  ASSUME NEW entry \in Responses \cup {Nothing}
  PROVE  ~IsMine(entry)
  <1>1. DOMAIN entry = {"status", "answer"}
    BY DEF Responses, Nothing
  <1> QED  BY <1>1 DEF IsMine

(* A write of one run, as Put makes it, or its deletion: what a run that   *)
(* stays undisturbed ended as, it ended as.                                *)
LEMMA RunsGoOn ==
  ASSUME RunsTyped, RunNext
  PROVE  /\ RunsTyped'
         /\ disturbed \subseteq disturbed'
         /\ \A r \in Runs : \A st \in RunTerminal :
              r \notin disturbed' /\ status[r] \in {st, "erased"} => status'[r] \in {st, "erased"}
  <1> USE DEF RunsTyped, RunStatuses, RunTerminal
  <1>1. ASSUME NEW r \in Runs,
               Submit(r) \/ SubmitAnswered(r) \/ Begin(r) \/ Settle(r) \/ Redo(r)
        PROVE  /\ \E st \in RunStatuses, a \in Answers \cup {NoAnswer} : Put(r, st, a)
               /\ status[r] \in {"completed", "failed", "erased"} => r \in disturbed'
    <2>1. CASE Submit(r)  BY <2>1 DEF Submit
    <2>2. CASE SubmitAnswered(r)  BY <2>2 DEF SubmitAnswered
    <2>3. CASE Begin(r)  BY <2>3 DEF Begin
    <2>4. CASE Settle(r)  BY <2>4 DEF Settle
    <2>5. CASE Redo(r)  BY <2>5 DEF Redo
    <2> QED  BY <1>1, <2>1, <2>2, <2>3, <2>4, <2>5
  <1>2. ASSUME NEW r \in Runs, NEW st \in RunStatuses, NEW a \in Answers \cup {NoAnswer}, Put(r, st, a),
               status[r] \in {"completed", "failed", "erased"} => r \in disturbed'
        PROVE  /\ RunsTyped'
               /\ disturbed \subseteq disturbed'
               /\ \A q \in Runs : q = r \/ status'[q] = status[q]
               /\ r \in disturbed' \/ status[r] \notin {"completed", "failed", "erased"}
    BY <1>2 DEF Put
  <1>3. ASSUME NEW r \in Runs, Disturb(r)
        PROVE  RunsTyped' /\ disturbed \subseteq disturbed' /\ status' = status
    BY <1>3 DEF Disturb
  <1>4. ASSUME NEW gone \in SUBSET Runs, EraseRuns(gone)
        PROVE  /\ RunsTyped' /\ disturbed' = disturbed
               /\ \A q \in Runs : status'[q] \in {status[q], "erased"}
    BY <1>4 DEF EraseRuns, Exposed
  <1>5. CASE \E r \in Runs : Submit(r) \/ SubmitAnswered(r) \/ Begin(r) \/ Settle(r) \/ Redo(r)
    <2>1. PICK r \in Runs : Submit(r) \/ SubmitAnswered(r) \/ Begin(r) \/ Settle(r) \/ Redo(r)
      BY <1>5
    <2>2. PICK st \in RunStatuses, a \in Answers \cup {NoAnswer} : Put(r, st, a)
      BY <2>1, <1>1
    <2>3. status[r] \in {"completed", "failed", "erased"} => r \in disturbed'
      BY <2>1, <1>1
    <2> QED  BY <2>2, <2>3, <1>2
  <1>6. CASE \E r \in Runs : Disturb(r)
    BY <1>6, <1>3
  <1>7. CASE \E gone \in SUBSET Runs : EraseRuns(gone)
    BY <1>7, <1>4
  <1> QED  BY <1>5, <1>6, <1>7 DEF RunNext

-----------------------------------------------------------------------------
(* The initial states.                                                     *)
LEMMA ReadersStart == ASSUME ReadersInit PROVE ReadersInv
  <1> USE DEF ReadersInit, RunInit
  <1>1. RunsTyped
    BY DEF RunsTyped, RunStatuses
  <1>2. ReadersTypeOK
    BY ReadersAssumption DEF ReadersTypeOK, NoGet, NoView, NewView, UiTerminal, RunTerminal
  <1>3. ASSUME NEW g \in Gets PROVE GetInv(g)
    BY DEF GetInv, NoGet
  <1>4. ASSUME NEW v \in Views PROVE ViewInv(v)
    BY DEF ViewInv, EndedAs, NoView, NewView, Nothing, RunTerminal
  <1> QED  BY <1>1, <1>2, <1>3, <1>4 DEF ReadersInv

(* A step of the runs.                                                     *)
LEMMA RunStepKeeps ==
  ASSUME ReadersInv, RunStep
  PROVE  ReadersInv'
  <1> USE DEF ReadersInv, RunStep
  <1>1. RunsTyped' /\ disturbed \subseteq disturbed'
    BY RunsGoOn
  <1>2. ASSUME NEW r \in Runs PROVE Current(r)' \in Responses \cup {NotFound}
    BY <1>1 DEF RunsTyped, RunStatuses, RunTerminal, Current, Response, Responses, Exposed
  <1>3. seen' \in [Gets -> SUBSET (Responses \cup {NotFound})]
    BY <1>2 DEF ReadersTypeOK, GetInv
  <1>4. ReadersTypeOK'
    BY <1>3 DEF ReadersTypeOK
  <1>5. ASSUME NEW g \in Gets PROVE GetInv(g)'
    BY DEF GetInv, ReadersTypeOK, Current, Response, Exposed
  <1>6. ASSUME NEW v \in Views PROVE ViewInv(v)'
    <2>1. ASSUME NEW st, EndedAs(view[v].run, st), view[v].run \in Runs
          PROVE  EndedAs(view[v].run, st)'
      BY <2>1, RunsGoOn DEF EndedAs, RunTerminal
    <2>2. CASE view[v].socket = "none"
      BY <2>2 DEF ViewInv, EndedAs, NoView, NewView, Nothing, RunTerminal
    <2>3. CASE view[v].socket # "none"
      BY <2>3, <2>1 DEF ViewInv
    <2> QED  BY <2>2, <2>3
  <1> QED  BY <1>1, <1>4, <1>5, <1>6

(* A step of a GET: what the others have in hand stays fresh.              *)
LEMMA GetKeeps ==
  ASSUME ReadersInv, NEW g \in Gets, NEW new \in GetRecords,
         NEW history \in SUBSET (Responses \cup {NotFound}),
         get' = [get EXCEPT ![g] = new], seen' = [seen EXCEPT ![g] = history],
         cache' \in [Runs -> Responses \cup {Nothing}], faults' \in 0 .. MaxFaults,
         UNCHANGED <<runVars, view>>,
         new.at # "idle" => new.run \in Runs,
         new.at \in {"reading", "filling"} => Current(new.run) \in history,
         new.at \in {"filling", "answered"} => new.got \in history,
         new.at = "filling" => new.got \in Responses
  PROVE  ReadersInv'
  <1>1. ReadersTypeOK' /\ RunsTyped'
    BY DEF ReadersInv, ReadersTypeOK, RunsTyped, GetRecords, Gots, runVars
  <1>2. ASSUME NEW h \in Gets PROVE GetInv(h)'
    <2>1. GetInv(h)  BY DEF ReadersInv
    <2>2. \A r : Current(r)' = Current(r)
      BY DEF Current, Response, Exposed, runVars
    <2>3. CASE h = g
      BY <2>2, <2>3 DEF GetInv, ReadersInv, ReadersTypeOK
    <2>4. CASE h # g
      BY <2>1, <2>2, <2>4 DEF GetInv, ReadersInv, ReadersTypeOK
    <2> QED  BY <2>3, <2>4
  <1>3. ASSUME NEW v \in Views PROVE ViewInv(v)'
    BY DEF ReadersInv, ViewInv, EndedAs, runVars
  <1> QED  BY <1>1, <1>2, <1>3 DEF ReadersInv

(* Every step of a GET is of that kind.                                    *)
LEMMA GetStepKeeps ==
  ASSUME ReadersInv, NEW g \in Gets, Get(g)
  PROVE  ReadersInv'
  <1> DEFINE new == get'[g]
  <1>0. get \in [Gets -> GetRecords] /\ GetInv(g)
    BY DEF ReadersInv, ReadersTypeOK, GetRecords, Gots
  <1>1. ASSUME NEW r \in Runs, NEW entry \in Responses \cup {Nothing},
               ReadCache(g, r, entry), faults' \in 0 .. MaxFaults
        PROVE  ReadersInv'
    <2>1. ~IsMine(entry)  BY NeverMine
    <2>2. get' = [get EXCEPT ![g] = [at |-> "reading", run |-> r, got |-> Nothing]]
      BY <1>1, <2>1 DEF ReadCache
    <2>3. Current(r) \in Responses \cup {NotFound}
      BY CurrentTyped DEF ReadersInv
    <2>4. [at |-> "reading", run |-> r, got |-> Nothing] \in GetRecords
      BY DEF GetRecords, Gots
    <2>5. cache' \in [Runs -> Responses \cup {Nothing}] /\ UNCHANGED <<runVars, view>>
      BY <1>1 DEF ReadCache, ReadersInv, ReadersTypeOK
    <2>6. seen' = [seen EXCEPT ![g] = {Current(r)}]
      BY <1>1 DEF ReadCache
    <2> QED  BY <1>1, <2>2, <2>3, <2>4, <2>5, <2>6, GetKeeps
  <1>2. ASSUME NEW r \in Runs, GetBegin(g, r) \/ GetBeginFails(g, r) PROVE ReadersInv'
    <2>1. cache[r] \in Responses \cup {Nothing} /\ faults \in 0 .. MaxFaults
      BY DEF ReadersInv, ReadersTypeOK
    <2>2. faults' \in 0 .. MaxFaults
      BY <1>2, <2>1, ReadersAssumption DEF GetBegin, GetBeginFails, Fault
    <2> QED  BY <1>1, <1>2, <2>1, <2>2 DEF GetBegin, GetBeginFails
  <1>3. CASE GetRead(g)
    <2> DEFINE at == IF Exposed(get[g].run) THEN "filling" ELSE "answered"
               now == Current(get[g].run)
    <2>1. get[g].run \in Runs /\ now \in seen[g]
      BY <1>0, <1>3 DEF GetRead, GetInv
    <2>2. get' = [get EXCEPT ![g] = [at |-> at, run |-> get[g].run, got |-> now]]
      BY <1>0, <1>3 DEF GetRead, GetRecords
    <2>3. now \in Responses \cup {NotFound} /\ (at = "filling" => now \in Responses)
      BY <2>1, CurrentTyped DEF ReadersInv
    <2>4. [at |-> at, run |-> get[g].run, got |-> now] \in GetRecords
      BY <2>1, <2>3 DEF GetRecords, Gots
    <2>5. /\ cache' \in [Runs -> Responses \cup {Nothing}] /\ UNCHANGED <<runVars, view>>
          /\ faults' \in 0 .. MaxFaults
          /\ seen' = [seen EXCEPT ![g] = seen[g]] /\ seen[g] \in SUBSET (Responses \cup {NotFound})
      BY <1>3 DEF GetRead, ReadersInv, ReadersTypeOK
    <2> HIDE DEF at, now
    <2>6. [at |-> at, run |-> get[g].run, got |-> now].at \in {"filling", "answered"}
      BY DEF at
    <2> QED  BY <2>1, <2>2, <2>3, <2>4, <2>5, <2>6, GetKeeps DEF now
  <1>4. CASE GetFill(g) \/ GetFillFails(g)
    <2>1. get[g].run \in Runs /\ get[g].got \in seen[g] /\ get[g].got \in Responses
      BY <1>0, <1>4 DEF GetFill, GetFillFails, GetInv
    <2>2. get' = [get EXCEPT ![g] = [at |-> "answered", run |-> get[g].run, got |-> get[g].got]]
      BY <1>0, <1>4 DEF GetFill, GetFillFails, GetRecords
    <2>3. [at |-> "answered", run |-> get[g].run, got |-> get[g].got] \in GetRecords
      BY <2>1 DEF GetRecords, Gots
    <2>4. cache' \in [Runs -> Responses \cup {Nothing}]
      BY <1>4, <2>1 DEF GetFill, GetFillFails, ReadersInv, ReadersTypeOK
    <2>5. faults' \in 0 .. MaxFaults
      BY <1>4, ReadersAssumption DEF GetFill, GetFillFails, Fault, ReadersInv, ReadersTypeOK
    <2>6. /\ UNCHANGED <<runVars, view>>
          /\ seen' = [seen EXCEPT ![g] = seen[g]] /\ seen[g] \in SUBSET (Responses \cup {NotFound})
      BY <1>4 DEF GetFill, GetFillFails, ReadersInv, ReadersTypeOK
    <2> QED  BY <2>1, <2>2, <2>3, <2>4, <2>5, <2>6, GetKeeps
  <1>5. CASE GetReturn(g)
    <2>1. NoGet \in GetRecords /\ NoGet.at = "idle"
      BY DEF NoGet, GetRecords, Gots
    <2>2. /\ get' = [get EXCEPT ![g] = NoGet] /\ seen' = [seen EXCEPT ![g] = {}]
          /\ UNCHANGED <<runVars, cache, view, faults>>
      BY <1>5 DEF GetReturn
    <2>3. cache \in [Runs -> Responses \cup {Nothing}] /\ faults \in 0 .. MaxFaults
      BY DEF ReadersInv, ReadersTypeOK
    <2> QED  BY <2>1, <2>2, <2>3, GetKeeps
  <1> QED  BY <1>2, <1>3, <1>4, <1>5 DEF Get

(* The time to live of an entry.                                           *)
LEMMA ExpiryKeeps ==
  ASSUME ReadersInv, NEW r \in Runs, CacheExpires(r)
  PROVE  ReadersInv'
  <1>1. ReadersTypeOK' /\ RunsTyped'
    BY DEF CacheExpires, ReadersInv, ReadersTypeOK, RunsTyped, runVars
  <1>2. ASSUME NEW g \in Gets PROVE GetInv(g)'
    BY DEF CacheExpires, ReadersInv, GetInv, Current, Response, Exposed, runVars
  <1>3. ASSUME NEW v \in Views PROVE ViewInv(v)'
    BY DEF CacheExpires, ReadersInv, ViewInv, EndedAs, runVars
  <1> QED  BY <1>1, <1>2, <1>3 DEF ReadersInv

-----------------------------------------------------------------------------
(* A step of a card.                                                       *)
LEMMA ViewKeeps ==
  ASSUME ReadersInv, NEW v \in Views, NEW new \in ViewRecords,
         view' = [view EXCEPT ![v] = new], faults' \in 0 .. MaxFaults,
         UNCHANGED <<runVars, cache, get, seen>>,
         new.socket = "none" => new = NoView,
         new.socket # "none" => new.run \in Runs,
         EndedAs(new.run, new.entity.status),
         EndedAs(new.run, new.shown),
         EndedAs(new.run, new.reported)
  PROVE  ReadersInv'
  <1>1. ReadersTypeOK' /\ RunsTyped'
    BY DEF ReadersInv, ReadersTypeOK, RunsTyped, ViewRecords, runVars
  <1>2. ASSUME NEW g \in Gets PROVE GetInv(g)'
    BY DEF ReadersInv, GetInv, Current, Response, Exposed, runVars
  <1>3. ASSUME NEW w \in Views PROVE ViewInv(w)'
    <2>1. ViewInv(w)  BY DEF ReadersInv
    <2>2. \A r, st : EndedAs(r, st)' <=> EndedAs(r, st)
      BY DEF EndedAs, runVars
    <2>3. CASE w = v
      BY <2>2, <2>3 DEF ViewInv, ReadersInv, ReadersTypeOK
    <2>4. CASE w # v
      BY <2>1, <2>2, <2>4 DEF ViewInv, ReadersInv, ReadersTypeOK
    <2> QED  BY <2>3, <2>4
  <1> QED  BY <1>1, <1>2, <1>3 DEF ReadersInv

(* Every step of a card is of that kind: what it shows it has loaded from  *)
(* the row, or it is no ending at all.                                     *)
LEMMA ViewStepKeeps ==
  ASSUME ReadersInv, NEW v \in Views, View(v)
  PROVE  ReadersInv'
  <1> DEFINE c == view[v]
  <1>0. view \in [Views -> ViewRecords] /\ ViewInv(v) /\ c \in ViewRecords
    BY DEF ReadersInv, ReadersTypeOK, ViewRecords
  <1>f. faults \in 0 .. MaxFaults /\ (Fault => faults' \in 0 .. MaxFaults)
    BY ReadersAssumption DEF ReadersInv, ReadersTypeOK, Fault
  <1>t. ViewRecords = [socket : {"none", "open", "closing", "closed"}, run : Runs \cup {"none"},
                       entity : Responses \cup {Nothing},
                       shown : {"completed", "failed", "error", "pending", "running"},
                       reported : {"completed", "failed", "error", "no"}]
    BY DEF ViewRecords, UiTerminal, RunTerminal
  <1> DEFINE changed(socket, entity, shown, reported) ==
        [socket |-> socket, run |-> c.run, entity |-> entity, shown |-> shown, reported |-> reported]
  <1>1. ASSUME NEW r \in Runs, ViewOpen(v, r) PROVE ReadersInv'
    <2> DEFINE new == [socket |-> "open", run |-> r, entity |-> Nothing, shown |-> "pending", reported |-> "no"]
    <2>1. view' = [view EXCEPT ![v] = new]
      BY <1>1 DEF ViewOpen, NewView
    <2>2. new \in ViewRecords
      BY <1>t DEF Nothing
    <2>3. EndedAs(r, new.entity.status) /\ EndedAs(r, new.shown) /\ EndedAs(r, new.reported)
      BY DEF EndedAs, RunTerminal, Nothing
    <2>4. UNCHANGED <<runVars, cache, get, seen>> /\ faults' \in 0 .. MaxFaults
      BY <1>1, <1>f DEF ViewOpen
    <2> QED  BY <2>1, <2>2, <2>3, <2>4, ViewKeeps
  <1>2. ASSUME NEW socket \in {"open", "closing", "closed"}, c.socket # "none",
               NEW entity \in Responses \cup {Nothing}, EndedAs(c.run, entity.status),
               NEW shown \in {"completed", "failed", "error", "pending", "running"},
               EndedAs(c.run, shown),
               view' = [view EXCEPT ![v] = changed(socket, entity, shown, c.reported)],
               faults' \in 0 .. MaxFaults, UNCHANGED <<runVars, cache, get, seen>>
        PROVE  ReadersInv'
    <2> DEFINE new == changed(socket, entity, shown, c.reported)
    <2>1. new \in ViewRecords
      BY <1>0, <1>t, <1>2
    <2>2. new.socket # "none" /\ new.run \in Runs
      BY <1>0, <1>2 DEF ViewInv
    <2>3. EndedAs(new.run, new.entity.status) /\ EndedAs(new.run, new.shown)
          /\ EndedAs(new.run, new.reported)
      BY <1>0, <1>2 DEF ViewInv
    <2> QED  BY <1>2, <2>1, <2>2, <2>3, ViewKeeps
  <1>3. EndedAs(c.run, "pending") /\ EndedAs(c.run, "error")
    BY DEF EndedAs, RunTerminal
  <1>4. c.entity \in Responses \cup {Nothing} /\ EndedAs(c.run, c.entity.status)
        /\ c.shown \in {"completed", "failed", "error", "pending", "running"} /\ EndedAs(c.run, c.shown)
        /\ c.reported \in {"completed", "failed", "error", "no"} /\ EndedAs(c.run, c.reported)
    BY <1>0, <1>t DEF ViewInv
  <1>5. CASE ViewPoll(v)
    <2> DEFINE entity == Polled(v)
               socket == IF Ends(Polled(v).status) THEN "closing" ELSE "open"
    <2>0. UNCHANGED <<runVars, cache, get, seen>> /\ faults' \in 0 .. MaxFaults /\ c.socket = "open"
      BY <1>5, <1>f DEF ViewPoll
    <2>1. CASE Exposed(c.run)
      <3>1. c.run \in Runs  BY <2>0, <1>0 DEF ViewInv
      <3>2. entity \in Responses
        BY <3>1, <2>1, <1>4, CurrentTyped DEF Polled, ReadersInv
      <3>3. entity.status \in {"completed", "failed", "pending", "running"}
        BY <3>2 DEF Responses, RunStatuses, RunTerminal
      <3>4. EndedAs(c.run, entity.status)
        BY <1>4 DEF Polled, EndedAs, Response
      <3>5. view' = [view EXCEPT ![v] = changed(socket, entity, entity.status, c.reported)]
        BY <1>0, <1>t, <1>5, <2>1 DEF ViewPoll
      <3> HIDE DEF entity, changed, c
      <3> QED  BY <1>2, <2>0, <3>2, <3>3, <3>4, <3>5
    <2>2. CASE ~Exposed(c.run)
      <3>1. view' = [view EXCEPT ![v] = changed("closing", c.entity, "pending", c.reported)]
        BY <1>0, <1>t, <1>5, <2>2 DEF ViewPoll, WithoutStatus
      <3> HIDE DEF changed, c
      <3> QED  BY <1>2, <1>3, <1>4, <2>0, <3>1
    <2> QED  BY <2>1, <2>2
  <1>6. CASE ViewPollFails(v)
    <2>1. view' = [view EXCEPT ![v] = changed("closing", c.entity, "pending", c.reported)]
      BY <1>0, <1>t, <1>6 DEF ViewPollFails, WithoutStatus
    <2>2. UNCHANGED <<runVars, cache, get, seen>> /\ faults' \in 0 .. MaxFaults /\ c.socket # "none"
      BY <1>6, <1>f DEF ViewPollFails
    <2> HIDE DEF changed, c
    <2> QED  BY <1>2, <1>3, <1>4, <2>1, <2>2
  <1>7. CASE ViewClosed(v)
    <2>1. view' = [view EXCEPT ![v] = changed("closed", c.entity, c.shown, c.reported)]
      <3>1. [c EXCEPT !.socket = "closed"] = changed("closed", c.entity, c.shown, c.reported)
        BY <1>0, <1>t
      <3>2. view' = [view EXCEPT ![v] = [c EXCEPT !.socket = "closed"]]
        BY <1>0, <1>7 DEF ViewClosed
      <3> QED  BY <3>1, <3>2
    <2>2. UNCHANGED <<runVars, cache, get, seen>> /\ faults' \in 0 .. MaxFaults /\ c.socket # "none"
      BY <1>7, <1>f DEF ViewClosed
    <2> HIDE DEF changed, c
    <2> QED  BY <1>2, <1>3, <1>4, <2>1, <2>2
  <1>8. CASE ViewError(v)
    <2>1. view' = [view EXCEPT ![v] = changed("closed", c.entity, "error", c.reported)]
      BY <1>0, <1>t, <1>8 DEF ViewError
    <2>2. UNCHANGED <<runVars, cache, get, seen>> /\ faults' \in 0 .. MaxFaults /\ c.socket # "none"
      BY <1>8, <1>f DEF ViewError
    <2> HIDE DEF changed, c
    <2> QED  BY <1>2, <1>3, <1>4, <2>1, <2>2
  <1>9. CASE ViewReport(v)
    <2> DEFINE new == changed(c.socket, c.entity, c.shown, c.shown)
    <2>1. view' = [view EXCEPT ![v] = new]
      <3>1. [c EXCEPT !.reported = c.shown] = new
        BY <1>0, <1>t
      <3>2. view' = [view EXCEPT ![v] = [c EXCEPT !.reported = c.shown]]
        BY <1>0, <1>9 DEF ViewReport
      <3> QED  BY <3>1, <3>2
    <2>2. UNCHANGED <<runVars, cache, get, seen>> /\ faults' \in 0 .. MaxFaults
      BY <1>9, <1>f DEF ViewReport
    <2>3. c.socket # "none" /\ c.shown \in {"completed", "failed", "error"}
      BY <1>0, <1>9 DEF ViewReport, ViewInv, NoView, NewView, UiTerminal, RunTerminal
    <2>4. new \in ViewRecords
      BY <1>0, <1>t, <2>3
    <2>5. new.run \in Runs
      BY <1>0, <2>3 DEF ViewInv
    <2>6. EndedAs(new.run, new.entity.status) /\ EndedAs(new.run, new.shown) /\ EndedAs(new.run, new.reported)
      BY <1>4
    <2>7. new.socket # "none"
      BY <2>3
    <2> HIDE DEF new
    <2> QED  BY <2>1, <2>2, <2>4, <2>5, <2>6, <2>7, ViewKeeps
  <1>10. CASE ViewLeave(v)
    <2>1. view' = [view EXCEPT ![v] = NoView] /\ UNCHANGED <<runVars, cache, get, seen>>
          /\ faults' \in 0 .. MaxFaults
      BY <1>10, <1>f DEF ViewLeave
    <2>2. NoView \in ViewRecords /\ NoView.socket = "none"
      BY <1>t DEF NoView, NewView, Nothing
    <2>3. EndedAs(NoView.run, NoView.entity.status) /\ EndedAs(NoView.run, NoView.shown)
          /\ EndedAs(NoView.run, NoView.reported)
      BY DEF EndedAs, RunTerminal, NoView, NewView, Nothing
    <2> QED  BY <2>1, <2>2, <2>3, ViewKeeps
  <1> QED  BY <1>1, <1>5, <1>6, <1>7, <1>8, <1>9, <1>10 DEF View

-----------------------------------------------------------------------------
(* The invariant is kept by every step.                                    *)
LEMMA ReadersKeep ==
  ASSUME ReadersInv, [ReadersNext]_allVars
  PROVE  ReadersInv'
  <1>1. CASE ReadersNext
    BY <1>1, RunStepKeeps, GetStepKeeps, ViewStepKeeps, ExpiryKeeps DEF ReadersNext
  <1>2. CASE UNCHANGED allVars
    <2>1. ReadersTypeOK' /\ RunsTyped'
      BY <1>2 DEF ReadersInv, ReadersTypeOK, RunsTyped, allVars, readVars, runVars
    <2>2. ASSUME NEW g \in Gets PROVE GetInv(g)'
      BY <1>2 DEF ReadersInv, GetInv, Current, Response, Exposed, allVars, readVars, runVars
    <2>3. ASSUME NEW v \in Views PROVE ViewInv(v)'
      BY <1>2 DEF ReadersInv, ViewInv, EndedAs, allVars, readVars, runVars
    <2> QED  BY <2>1, <2>2, <2>3 DEF ReadersInv
  <1> QED  BY <1>1, <1>2

(* ReadersInv holds of every reachable state, whatever becomes of the runs *)
(* the readers look at.                                                    *)
THEOREM ReadersInvariant == ReadersSpec => []ReadersInv
  BY ReadersStart, ReadersKeep, PTL DEF ReadersSpec

(* Types of the cache, the requests and the cards.                         *)
THEOREM ReadersTyped == ReadersSpec => []ReadersTypeOK
  <1>1. ReadersInv => ReadersTypeOK  BY DEF ReadersInv
  <1> QED  BY <1>1, ReadersInvariant, PTL

(* A GET returns the run as it was at some moment after the GET began.     *)
THEOREM FreshResponses == ReadersSpec => []GetIsFresh
  <1>1. ReadersInv => GetIsFresh
    BY DEF ReadersInv, GetInv, GetIsFresh
  <1> QED  BY <1>1, ReadersInvariant, PTL

(* A card that reports an undisturbed run as completed or failed is right  *)
(* about it for good.                                                      *)
THEOREM TrueReports == ReadersSpec => []ReportIsTrue
  <1>1. ReadersInv => ReportIsTrue
    BY DEF ReadersInv, ViewInv, EndedAs, ReportIsTrue
  <1> QED  BY <1>1, ReadersInvariant, PTL
=============================================================================
