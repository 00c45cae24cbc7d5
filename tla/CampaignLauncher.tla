--------------------------- MODULE CampaignLauncher ---------------------------
(***************************************************************************)
(* The dashboard's wizard that launches a campaign, and the API it calls.  *)
(*                                                                         *)
(* LaunchPhase, once on the screen, creates the campaign and then, for one *)
(* variant after the other, the variant and a run. It hands the ids of the *)
(* runs to its cards when it has them all, and each card follows a socket. *)
(* Leaving the page hides the phase but does not stop the calls. The calls *)
(* that start runs may be refused by the rate limiter (RateLimiter). An    *)
(* answer leaves the API before its transaction commits.                   *)
(***************************************************************************)
EXTENDS Naturals, Sequences

S == INSTANCE SequencesExt

CONSTANTS
  Stimuli,      \* variants (name and stimulus) a user enters
  MaxVariants,  \* bound: variants of a campaign
  MaxLaunches,  \* bound: executions of launch()
  MaxFaults     \* bound: failures and reloads

Launches == 1 .. MaxLaunches
RunIds == Launches \X (1 .. MaxVariants)

ASSUME LauncherAssumption ==
  /\ MaxVariants \in Nat \ {0} /\ MaxLaunches \in Nat \ {0} /\ MaxFaults \in Nat

VARIABLES
  strict,    \* the build runs effects twice (React.StrictMode, vite dev)
  page,      \* App: the page shown
  wizard,    \* CampaignLauncherPage: its step
  form,      \* campaignStore: the variants of the form
  results,   \* campaignStore: campaignResults
  phase,     \* the launch whose LaunchPhase is mounted, 0 for none
  card,      \* the status each card of the phase has
  pc,        \* launch(): the call it waits for
  nth,       \* launch(): the variant it is at
  props,     \* launch(): the variants it was mounted with
  campaign,  \* the row of campaigns each launch made
  variant,   \* the variants whose row was made
  run,       \* the rows of simulation_runs
  (* environment and history *)
  budget,    \* what may still fail: MaxFaults at first
  refused    \* runs the limiter refused

browser == <<page, wizard, form, results, phase, card>>
launchVars == <<pc, nth, props>>
rows == <<campaign, variant, run>>
vars == <<strict, browser, launchVars, rows, budget, refused>>

NoPhase == 0
Pages == {"launcher", "results", "elsewhere"}
RowStates == {"none", "open", "kept", "lost"}
Terminal == {"completed", "failed", "error"}
CardStates == Terminal \cup {"pending", "repeating", "silent"}
NewCards == [i \in 1 .. MaxVariants |-> "pending"]
VariantLists == UNION {[1 .. n -> Stimuli] : n \in 0 .. MaxVariants}
RunResults == [variant : Stimuli, run : RunIds, status : CardStates]

(* Types. A phase is on the screen exactly in step 3 of the wizard, so no  *)
(* other page keeps one.                                                   *)
LauncherTypeOK ==
  /\ strict \in BOOLEAN
  /\ page \in Pages /\ wizard \in 1 .. 3
  /\ form \in VariantLists
  /\ results \in Seq(RunResults)
  /\ phase \in 0 .. MaxLaunches
  /\ phase # NoPhase <=> page = "launcher" /\ wizard = 3
  /\ card \in [1 .. MaxVariants -> CardStates]
  /\ pc \in [Launches -> {"new", "campaign", "variant", "run", "done", "failed", "gone"}]
  /\ nth \in [Launches -> 1 .. MaxVariants]
  /\ props \in [Launches -> VariantLists]
  /\ campaign \in [Launches -> RowStates]
  /\ variant \subseteq RunIds
  /\ run \in [RunIds -> RowStates]
  /\ budget \in 0 .. MaxFaults
  /\ refused \subseteq RunIds

Init ==
  /\ strict \in BOOLEAN
  /\ page = "elsewhere" /\ wizard = 1 /\ phase = NoPhase
  /\ form = <<>> /\ results = <<>>
  /\ card = NewCards
  /\ pc = [l \in Launches |-> "new"]
  /\ nth = [l \in Launches |-> 1]
  /\ props = [l \in Launches |-> <<>>]
  /\ campaign = [l \in Launches |-> "none"]
  /\ variant = {}
  /\ run = [r \in RunIds |-> "none"]
  /\ budget = MaxFaults
  /\ refused = {}

-----------------------------------------------------------------------------
(* Mutant: the wizard's step survives its page.                            *)
ShowAtStep(p) == page' = p /\ UNCHANGED wizard /\ phase' = NoPhase /\ card' = NewCards

(* The pages and the wizard. Leaving a page unmounts it.                   *)
Show(p) == page' = p /\ wizard' = 1 /\ phase' = NoPhase /\ card' = NewCards

ServerUnchanged == UNCHANGED <<strict, rows, budget, refused>>

(* A link of Nav, Cancel, and the buttons of the results page. A page that *)
(* is shown already stays as it is.                                        *)
Navigate(p) ==
  /\ page # p /\ p # "results"
  /\ Show(p)
  /\ UNCHANGED <<form, results, launchVars>> /\ ServerUnchanged

(* Sign out and in again: the app hides its page and shows it once more.   *)
SignOut ==
  /\ page = "launcher" /\ wizard # 1
  /\ Show(page)
  /\ UNCHANGED <<form, results, launchVars>> /\ ServerUnchanged

LaunchAnother ==
  /\ page = "results"
  /\ Show("launcher")
  /\ form' = <<>> /\ results' = <<>>
  /\ UNCHANGED launchVars /\ ServerUnchanged

AddVariant(v) ==
  /\ page = "launcher" /\ wizard = 2 /\ Len(form) < MaxVariants
  /\ form' = Append(form, v)
  /\ UNCHANGED <<page, wizard, results, phase, card, launchVars>> /\ ServerUnchanged

RemoveVariant(i) ==
  /\ page = "launcher" /\ wizard = 2
  /\ form' = S!RemoveAt(form, i)
  /\ UNCHANGED <<page, wizard, results, phase, card, launchVars>> /\ ServerUnchanged

(* Next, with the name and the segment filled in, and Back.                *)
GoToStep(n) ==
  /\ page = "launcher"
  /\ {wizard, n} = {1, 2}
  /\ wizard' = n
  /\ UNCHANGED <<page, form, results, phase, card, launchVars>> /\ ServerUnchanged

(* Step 3 mounts LaunchPhase, whose effect calls launch(). In a strict     *)
(* build the effect runs, is cleaned up and runs again: two launches, and  *)
(* the first is not mounted any more.                                      *)
Launch ==
  /\ page = "launcher" /\ wizard = 2 /\ form # <<>>
  /\ \E l \in Launches :
       /\ \A k \in Launches : pc[k] = "new" <=> k >= l
       /\ LET started == IF strict THEN {l, l + 1} ELSE {l} IN
          /\ started \subseteq Launches
          /\ pc' = [k \in Launches |-> IF k \in started THEN "campaign" ELSE pc[k]]
          /\ props' = [k \in Launches |-> IF k \in started THEN form ELSE props[k]]
          /\ phase' = IF strict THEN l + 1 ELSE l
  /\ wizard' = 3
  /\ card' = NewCards
  /\ UNCHANGED <<page, form, results, nth>> /\ ServerUnchanged

(* The tab is reloaded: the stores and the pending calls are gone.         *)
Reload ==
  /\ budget > 0 /\ budget' = budget - 1
  /\ Show("elsewhere")
  /\ form' = <<>> /\ results' = <<>>
  /\ pc' = [l \in Launches |->
              IF pc[l] \in {"campaign", "variant", "run"} THEN "gone" ELSE pc[l]]
  /\ UNCHANGED <<nth, props, strict, rows, refused>>

-----------------------------------------------------------------------------
(* The calls of launch(). One that is answered makes an open row; it may   *)
(* also fail before it makes one, or its answer may be lost.               *)
GoOn(l, next) == pc' = [pc EXCEPT ![l] = next] /\ UNCHANGED budget
GiveUp(l) == pc' = [pc EXCEPT ![l] = "failed"]
Fault == budget > 0 /\ budget' = budget - 1

CreateCampaign(l) ==
  /\ pc[l] = "campaign"
  /\ \/ /\ campaign' = [campaign EXCEPT ![l] = "open"]
        /\ GoOn(l, "variant") \/ (Fault /\ GiveUp(l))
     \/ /\ Fault /\ GiveUp(l)
        /\ UNCHANGED campaign
  /\ UNCHANGED <<strict, browser, nth, props, variant, run, refused>>

(* Mutant: a campaign that has a run already is closed for variants.       *)
CampaignFoundOnce(l) == campaign[l] = "kept" /\ run[<<l, 1>>] = "none"

(* add_variant looks for the campaign among the committed rows.            *)
CampaignFound(l) == campaign[l] = "kept"

(* Mutant: a campaign that is not there is waited for.                     *)
CreateVariantWaits(l) ==
  /\ pc[l] = "variant" /\ CampaignFound(l)
  /\ variant' = variant \cup {<<l, nth[l]>>}
  /\ GoOn(l, "run")
  /\ UNCHANGED <<strict, browser, nth, props, campaign, run, refused>>

CreateVariant(l) ==
  /\ pc[l] = "variant"
  /\ \/ /\ CampaignFound(l)
        /\ variant' = variant \cup {<<l, nth[l]>>}
        /\ GoOn(l, "run") \/ (Fault /\ GiveUp(l))
     \/ /\ ~CampaignFound(l)
        /\ GiveUp(l)
        /\ UNCHANGED <<variant, budget>>
     \/ /\ Fault /\ GiveUp(l)
        /\ UNCHANGED variant
  /\ UNCHANGED <<strict, browser, nth, props, campaign, run, refused>>

(* Mutant: the variants after the first are not created.                   *)
AdvanceToRun(l) ==
  IF nth[l] < Len(props[l])
  THEN pc' = [pc EXCEPT ![l] = "run"] /\ nth' = [nth EXCEPT ![l] = @ + 1]
  ELSE pc' = [pc EXCEPT ![l] = "done"] /\ UNCHANGED nth

(* POST /simulate/run: the limiter may refuse it before anything is made.  *)
(* An answer takes launch() to the next variant; the last one ends the     *)
(* loop, and setRunIds has no await before it.                             *)
Advance(l) ==
  IF nth[l] < Len(props[l])
  THEN pc' = [pc EXCEPT ![l] = "variant"] /\ nth' = [nth EXCEPT ![l] = @ + 1]
  ELSE pc' = [pc EXCEPT ![l] = "done"] /\ UNCHANGED nth

CreateRun(l) ==
  /\ pc[l] = "run"
  /\ \/ /\ run' = [run EXCEPT ![<<l, nth[l]>>] = "open"]
        /\ \/ Advance(l) /\ UNCHANGED budget
           \/ Fault /\ GiveUp(l) /\ UNCHANGED nth
        /\ UNCHANGED refused
     \/ /\ refused' = refused \cup {<<l, nth[l]>>}
        /\ GiveUp(l)
        /\ UNCHANGED <<run, nth, budget>>
     \/ /\ Fault /\ GiveUp(l)
        /\ UNCHANGED <<run, nth, refused>>
  /\ UNCHANGED <<strict, browser, props, campaign, variant>>

(* get_db commits after the answer, if it can.                             *)
CommitWith(end) ==
  \/ \E l \in Launches :
       /\ campaign[l] = "open" /\ campaign' = [campaign EXCEPT ![l] = end]
       /\ UNCHANGED run
  \/ \E r \in RunIds :
       /\ run[r] = "open" /\ run' = [run EXCEPT ![r] = end]
       /\ UNCHANGED campaign

Commit ==
  /\ CommitWith("kept")
  /\ UNCHANGED <<strict, browser, launchVars, variant, budget, refused>>

CommitFails ==
  /\ CommitWith("lost") /\ Fault
  /\ UNCHANGED <<strict, browser, launchVars, variant, refused>>

-----------------------------------------------------------------------------
(* The cards. What a socket says first decides: a run that is not settled  *)
(* yet is read again and again by one session, which hands back the object *)
(* it has (RunReaders), so that the card is told the same status for ever, *)
(* or until the socket breaks or the run is deleted.                       *)
Following(i, states) ==
  /\ phase # NoPhase /\ pc[phase] = "done"
  /\ i <= Len(props[phase]) /\ card[i] \in states

CardRepeats(i) ==
  /\ Following(i, {"pending"})
  /\ run[<<phase, i>>] = "kept"
  /\ card' = [card EXCEPT ![i] = "repeating"]
  /\ UNCHANGED <<page, wizard, form, results, phase, launchVars>> /\ ServerUnchanged

(* A socket whose run is not in the database, or that is closed without an *)
(* error, leaves its card as it is.                                        *)
CardFallsSilent(i) ==
  /\ Following(i, {"pending", "repeating"})
  /\ card' = [card EXCEPT ![i] = "silent"]
  /\ UNCHANGED <<page, wizard, form, results, phase, launchVars>> /\ ServerUnchanged

(* Mutants: one card is enough; a card more than there are is needed.      *)
OneComplete(cards) ==
  \E i \in 1 .. Len(props[phase]) : cards[i] \in Terminal
MoreComplete(cards) ==
  \A i \in 1 .. MaxVariants : cards[i] \in Terminal

(* The first terminal status of a card. The last card hands the results to *)
(* the store and shows them.                                               *)
AllComplete(cards) ==
  \A i \in 1 .. Len(props[phase]) : cards[i] \in Terminal

Result(cards) ==
  [i \in 1 .. Len(props[phase]) |->
    [variant |-> props[phase][i], run |-> <<phase, i>>, status |-> cards[i]]]

CardEnds(i, status) ==
  /\ Following(i, IF status = "error" THEN {"pending", "repeating"} ELSE {"pending"})
  /\ status \in {"completed", "failed"} => run[<<phase, i>>] = "kept"
  /\ LET cards == [card EXCEPT ![i] = status] IN
     IF AllComplete(cards)
     THEN results' = Result(cards) /\ Show("results")
     ELSE card' = cards /\ UNCHANGED <<results, page, wizard, phase>>
  /\ UNCHANGED <<form, launchVars>> /\ ServerUnchanged

CardMoves(i) ==
  CardRepeats(i) \/ CardFallsSilent(i) \/ \E status \in Terminal : CardEnds(i, status)

-----------------------------------------------------------------------------
User ==
  \/ \E p \in Pages : Navigate(p)
  \/ SignOut \/ LaunchAnother \/ Launch
  \/ \E v \in Stimuli : AddVariant(v)
  \/ \E i \in 1 .. Len(form) : RemoveVariant(i)
  \/ \E n \in {1, 2} : GoToStep(n)

LaunchStep(l) == CreateCampaign(l) \/ CreateVariant(l) \/ CreateRun(l)

Next ==
  \/ User \/ Reload \/ Commit \/ CommitFails
  \/ \E i \in 1 .. MaxVariants : CardMoves(i)
  \/ \E l \in Launches : LaunchStep(l)

Spec == Init /\ [][Next]_vars

(* A call of the browser is answered or fails, and a socket says a first   *)
(* word or ends. What comes after a repeated status need never come;       *)
(* nobody has to click, and no commit has to come.                         *)
CardHears(i) == card[i] = "pending" /\ CardMoves(i)
FairSpec ==
  /\ Spec
  /\ \A l \in Launches : WF_vars(LaunchStep(l))
  /\ \A i \in 1 .. MaxVariants : WF_vars(CardHears(i))

-----------------------------------------------------------------------------
(* The results shown are those of one launch of the form that is shown,    *)
(* complete and in its order, and one that says completed has a run that   *)
(* was really committed, though its id was known before.                   *)
ResultsAreOfTheForm ==
  page = "results" =>
    /\ Len(results) = Len(form)
    /\ \E l \in Launches : /\ pc[l] = "done" /\ props[l] = form
                           /\ \A i \in DOMAIN results : /\ results[i].run = <<l, i>>
                                                        /\ results[i].variant = form[i]
                                                        /\ results[i].status \in Terminal
    /\ \A i \in DOMAIN results : results[i].status = "completed" => run[results[i].run] = "kept"

(* A launch makes its rows strictly in order, whatever the page does and   *)
(* whatever fails: a run has its variant before it, a variant all the runs *)
(* before it, and so at most one variant of a launch is left without run.  *)
RowsInOrder ==
  \A l \in Launches : \A i \in 1 .. MaxVariants :
    /\ run[<<l, i>>] # "none" => <<l, i>> \in variant
    /\ <<l, i>> \in variant =>
         campaign[l] = "kept" /\ \A j \in 1 .. i - 1 : run[<<l, j>>] # "none"

(* A launch that nothing disturbed is cut short by the limiter, or because *)
(* the commit of its campaign came after the call for the first variant;   *)
(* that race is over once the first variant is in.                         *)
CutShortForCause ==
  \A l \in Launches : pc[l] = "failed" /\ budget = MaxFaults =>
    \/ \E i \in 1 .. MaxVariants : <<l, i>> \in refused
    \/ nth[l] = 1 /\ <<l, 1>> \notin variant

(* The inductive invariant. What a launch has made follows from where it   *)
(* is; a launch on the screen is of the form, which stays as it is, and    *)
(* its cards say completed only of runs that are kept.                     *)
NothingMade(l) ==
  /\ nth[l] = 1 /\ campaign[l] = "none"
  /\ \A i \in 1 .. MaxVariants : <<l, i>> \notin variant /\ run[<<l, i>>] = "none"
MadeUpTo(l, variants, runs) ==
  /\ nth[l] <= Len(props[l])
  /\ \A i \in 1 .. MaxVariants :
       /\ <<l, i>> \in variant <=> i <= variants
       /\ run[<<l, i>>] # "none" <=> i <= runs
LaunchInv(l) ==
  /\ pc[l] \in {"new", "campaign"} => NothingMade(l)
  /\ pc[l] = "campaign" => props[l] # <<>>
  /\ pc[l] = "variant" => MadeUpTo(l, nth[l] - 1, nth[l] - 1)
  /\ pc[l] = "run" => MadeUpTo(l, nth[l], nth[l] - 1)
PhaseInv ==
  phase # NoPhase =>
    /\ props[phase] = form
    /\ \A i \in 1 .. MaxVariants : card[i] = "completed" => run[<<phase, i>>] = "kept"
LauncherInv ==
  /\ LauncherTypeOK
  /\ \A l \in Launches : LaunchInv(l)
  /\ PhaseInv
  /\ RowsInOrder /\ CutShortForCause /\ ResultsAreOfTheForm

(* A launch on the screen comes to an end, with all its runs or an error.  *)
LaunchEnds ==
  \A l \in Launches : phase = l ~> phase # l \/ pc[l] \in {"done", "failed"}

(* Once it has its runs the results are shown, unless the user leaves, a   *)
(* card has fallen silent, or one was told a status that is not the end of *)
(* its run: its socket repeats that for ever.                              *)
LaunchReports ==
  (phase # NoPhase /\ pc[phase] = "done")
    ~> (phase = NoPhase \/ \E i \in 1 .. MaxVariants : card[i] \in {"repeating", "silent"})
=============================================================================
