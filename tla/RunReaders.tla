----------------------------- MODULE RunReaders -----------------------------
(***************************************************************************)
(* The readers of simulation runs, over the lifecycle that SimulationRuns  *)
(* implements:                                                             *)
(*                                                                         *)
(*   - GET /simulate/runs/{id}, which looks in Redis, reads the row and    *)
(*     stores the response in Redis for the next reader;                   *)
(*   - the WebSocket /ws/simulations/{id}, which polls the row in one      *)
(*     session, and the dashboard's hook and progress card, which show     *)
(*     what the socket sends and report the run once it has ended.         *)
(*                                                                         *)
(* A message of the socket is shown when it is sent: the socket keeps the  *)
(* order, and the handler never waits for an acknowledgement.              *)
(***************************************************************************)
EXTENDS RunLifecycle

CONSTANTS
  Gets,      \* concurrent GET requests
  Views,     \* progress cards of the dashboard
  MaxFaults  \* bound: failures of Redis, of the handler or of the connection

ASSUME ReadersAssumption == MaxFaults \in Nat

VARIABLES
  cache,     \* spb:run:{id} of each run: a response, or Nothing
  get,       \* each GET: progress, run, response in hand
  view,      \* each card: socket, run, entity of the session, status, report
  faults,    \* failures the environment may still inject
  seen       \* history: what the run of a GET has been since the GET began

readVars == <<cache, get, view, faults, seen>>
allVars  == <<runVars, readVars>>

-----------------------------------------------------------------------------
(* The response model has no org_id field. Nothing and NotFound stand for  *)
(* no response and for the 404.                                            *)
Response(r) == [status |-> status[r], answer |-> answer[r]]
Nothing  == [status |-> "nothing", answer |-> NoAnswer]
NotFound == [status |-> "404", answer |-> NoAnswer]
Current(r) == IF Exposed(r) THEN Response(r) ELSE NotFound

(* Mutant: a response model with the field get_run looks for.              *)
IsMine_Tagged(entry) == entry # Nothing

(* cached.get("org_id") == str(claims.org_id)                              *)
IsMine(entry) == entry # Nothing /\ "org_id" \in DOMAIN entry

Responses == [status : RunStatuses \ {"absent", "erased"}, answer : Answers \cup {NoAnswer}]

NoGet == [at |-> "idle", run |-> "none", got |-> Nothing]
NewView(socket, r) ==
  [socket |-> socket, run |-> r, entity |-> Nothing, shown |-> "pending", reported |-> "no"]
NoView == NewView("none", "none")

(* Mutant: the hook does not count 'failed' among the terminal statuses.   *)
UiTerminal_NoFailed == {"completed", "error"}
UiTerminal == RunTerminal \cup {"error"}

(* Types of the cache, the requests and the cards.                         *)
ReadersTypeOK ==
  /\ cache \in [Runs -> Responses \cup {Nothing}]
  /\ get \in [Gets -> [at : {"idle", "reading", "filling", "answered"},
                      run : Runs \cup {"none"},
                      got : Responses \cup {Nothing, NotFound}]]
  /\ view \in [Views -> [socket : {"none", "open", "closing", "closed"},
                        run : Runs \cup {"none"},
                        entity : Responses \cup {Nothing},
                        shown : UiTerminal \cup {"pending", "running"},
                        reported : UiTerminal \cup {"no"}]]
  /\ faults \in 0 .. MaxFaults
  /\ seen \in [Gets -> SUBSET (Responses \cup {NotFound})]

ReadersInit ==
  /\ RunInit
  /\ cache = [r \in Runs |-> Nothing]
  /\ get = [g \in Gets |-> NoGet]
  /\ view = [v \in Views |-> NoView]
  /\ faults = MaxFaults
  /\ seen = [g \in Gets |-> {}]

Fault == faults > 0 /\ faults' = faults - 1

-----------------------------------------------------------------------------
(* GET /simulate/runs/{id}.                                                *)

ReadCache(g, r, entry) ==
  /\ get[g].at = "idle"
  /\ get' = [get EXCEPT ![g] =
               IF IsMine(entry) THEN [at |-> "answered", run |-> r, got |-> entry]
                                ELSE [at |-> "reading", run |-> r, got |-> Nothing]]
  /\ seen' = [seen EXCEPT ![g] = {Current(r)}]
  /\ UNCHANGED <<runVars, cache, view>>

GetBegin(g, r) == ReadCache(g, r, cache[r]) /\ UNCHANGED faults

(* An exception of Redis counts as a miss.                                 *)
GetBeginFails(g, r) == ReadCache(g, r, Nothing) /\ Fault

(* The SELECT, and the 404 when there is no row.                           *)
GetRead(g) ==
  /\ get[g].at = "reading"
  /\ get' = [get EXCEPT ![g].got = Current(get[g].run),
                        ![g].at = IF Exposed(get[g].run) THEN "filling" ELSE "answered"]
  /\ UNCHANGED <<runVars, cache, view, faults, seen>>

GetFill(g) ==
  /\ get[g].at = "filling"
  /\ get' = [get EXCEPT ![g].at = "answered"]
  /\ cache' = [cache EXCEPT ![get[g].run] = get[g].got]
  /\ UNCHANGED <<runVars, view, faults, seen>>

GetFillFails(g) ==
  /\ get[g].at = "filling"
  /\ get' = [get EXCEPT ![g].at = "answered"]
  /\ Fault
  /\ UNCHANGED <<runVars, cache, view, seen>>

GetReturn(g) ==
  /\ get[g].at = "answered"
  /\ get' = [get EXCEPT ![g] = NoGet]
  /\ seen' = [seen EXCEPT ![g] = {}]
  /\ UNCHANGED <<runVars, cache, view, faults>>

(* The entry's time to live is over: 24 hours or 30 seconds.               *)
CacheExpires(r) ==
  /\ cache[r] # Nothing
  /\ cache' = [cache EXCEPT ![r] = Nothing]
  /\ UNCHANGED <<runVars, get, view, faults, seen>>

-----------------------------------------------------------------------------
(* The progress card mounts and its hook opens the socket; the server      *)
(* accepts and opens a session.                                            *)
ViewOpen(v, r) ==
  /\ view[v].socket = "none"
  /\ view' = [view EXCEPT ![v] = NewView("open", r)]
  /\ UNCHANGED <<runVars, cache, get, faults, seen>>

(* One round of the polling loop. The session returns the entity it loaded *)
(* first, whose attributes later SELECTs do not refresh; without a row the *)
(* message carries no status, and the hook shows 'pending'.                *)
Polled(v) == IF view[v].entity = Nothing THEN Response(view[v].run) ELSE view[v].entity

Ends(st) == st \in RunTerminal

(* Mutant: the hook takes a message without a status for a failed run.     *)
WithoutStatus_Failed == "failed"
WithoutStatus == "pending"

ViewPoll(v) ==
  /\ view[v].socket = "open"
  /\ IF Exposed(view[v].run)
     THEN view' = [view EXCEPT
            ![v].entity = Polled(v),
            ![v].shown = Polled(v).status,
            ![v].socket = IF Ends(Polled(v).status) THEN "closing" ELSE "open"]
     ELSE view' = [view EXCEPT ![v].shown = WithoutStatus, ![v].socket = "closing"]
  /\ UNCHANGED <<runVars, cache, get, faults, seen>>

(* The handler's except clause: the message has no status either.          *)
ViewPollFails(v) ==
  /\ view[v].socket = "open"
  /\ view' = [view EXCEPT ![v].shown = WithoutStatus, ![v].socket = "closing"]
  /\ Fault
  /\ UNCHANGED <<runVars, cache, get, seen>>

ViewClosed(v) ==
  /\ view[v].socket = "closing"
  /\ view' = [view EXCEPT ![v].socket = "closed"]
  /\ UNCHANGED <<runVars, cache, get, faults, seen>>

(* The connection breaks: onerror keeps everything but the status.         *)
ViewError(v) ==
  /\ view[v].socket \in {"open", "closing"}
  /\ view' = [view EXCEPT ![v].shown = "error", ![v].socket = "closed"]
  /\ Fault
  /\ UNCHANGED <<runVars, cache, get, seen>>

(* The effect of the card: the first terminal status it renders.           *)
ViewReport(v) ==
  /\ view[v].reported = "no" /\ view[v].shown \in UiTerminal
  /\ view' = [view EXCEPT ![v].reported = view[v].shown]
  /\ UNCHANGED <<runVars, cache, get, faults, seen>>

(* The card unmounts.                                                      *)
ViewLeave(v) ==
  /\ view[v].socket # "none"
  /\ view' = [view EXCEPT ![v] = NoView]
  /\ UNCHANGED <<runVars, cache, get, faults, seen>>

-----------------------------------------------------------------------------
Get(g) ==
  \/ \E r \in Runs : GetBegin(g, r) \/ GetBeginFails(g, r)
  \/ GetRead(g) \/ GetFill(g) \/ GetFillFails(g) \/ GetReturn(g)

View(v) ==
  \/ \E r \in Runs : ViewOpen(v, r)
  \/ ViewPoll(v) \/ ViewPollFails(v) \/ ViewClosed(v) \/ ViewError(v)
  \/ ViewReport(v) \/ ViewLeave(v)

(* A step of the runs; no reader notices before it looks.                  *)
RunStep ==
  /\ RunNext
  /\ UNCHANGED <<cache, get, view, faults>>
  /\ seen' = [g \in Gets |->
       IF get[g].at = "idle" THEN {} ELSE seen[g] \cup {Current(get[g].run)'}]

ReadersNext ==
  \/ RunStep
  \/ \E g \in Gets : Get(g)
  \/ \E v \in Views : View(v)
  \/ \E r \in Runs : CacheExpires(r)

ReadersSpec == ReadersInit /\ [][ReadersNext]_allVars

(* The event loops of server and browser go on; nobody need unmount.       *)
FairReaders ==
  ReadersSpec /\ \A v \in Views : WF_allVars(ViewPoll(v)) /\ WF_allVars(ViewReport(v))

-----------------------------------------------------------------------------
(* A GET returns the run as it was at some moment after the GET began,     *)
(* although responses are cached for a day, no writer invalidates the      *)
(* cache (invalidate_run has no caller), and runs are written and erased   *)
(* in between.                                                             *)
GetIsFresh == \A g \in Gets : get[g].at = "answered" => get[g].got \in seen[g]

(* Unless the run is disturbed, a card that reports it as completed or     *)
(* failed is right about it for good, whatever was lost on the way.        *)
ReportIsTrue ==
  \A v \in Views :
    view[v].reported \in RunTerminal /\ view[v].run \notin disturbed =>
      status[view[v].run] \in {view[v].reported, "erased"}

(* The inductive invariant. A GET in progress has the run's present in its *)
(* history, and a response in hand is there too; a response never has an   *)
(* org_id. Of a run that nobody disturbed, the last terminal status a card *)
(* has loaded, shown or reported is how the run ended.                     *)
RunsTyped ==
  /\ status \in [Runs -> RunStatuses]
  /\ answer \in [Runs -> Answers \cup {NoAnswer}]
  /\ disturbed \subseteq Runs
GetInv(g) ==
  /\ get[g].at # "idle" => get[g].run \in Runs
  /\ get[g].at \in {"reading", "filling"} => Current(get[g].run) \in seen[g]
  /\ get[g].at \in {"filling", "answered"} => get[g].got \in seen[g]
  /\ get[g].at = "filling" => get[g].got \in Responses
EndedAs(r, st) == st \in RunTerminal /\ r \notin disturbed => status[r] \in {st, "erased"}
ViewInv(v) ==
  /\ view[v].socket = "none" => view[v] = NoView
  /\ view[v].socket # "none" => view[v].run \in Runs
  /\ EndedAs(view[v].run, view[v].entity.status)
  /\ EndedAs(view[v].run, view[v].shown)
  /\ EndedAs(view[v].run, view[v].reported)
ReadersInv ==
  /\ RunsTyped /\ ReadersTypeOK
  /\ \A g \in Gets : GetInv(g)
  /\ \A v \in Views : ViewInv(v)

(* A card whose stream has not looked at the run before it ended reports   *)
(* how the run ended, and the stream closes, unless the run is erased or   *)
(* disturbed, the card is left or one of the remaining failures strikes.   *)
Late(v) ==
  view[v].socket = "open" /\ view[v].entity = Nothing /\ status[view[v].run] \in RunTerminal
LateViewReports ==
  \A v \in Views :
    Late(v) /\ faults = 0 ~>
      \/ view[v].run = "none"
      \/ status[view[v].run] = "erased" \/ view[v].run \in disturbed
      \/ view[v].reported = status[view[v].run] /\ view[v].socket # "open"

(* What the repository says. ws.py:3: clients "receive JSON status updates *)
(* every second until the run reaches a terminal state": a stream on a run *)
(* that has ended ends.                                                    *)
StreamReachesTerminal ==
  \A v \in Views :
    view[v].socket = "open" /\ status[view[v].run] \in RunTerminal
      ~> view[v].socket # "open"
=============================================================================
