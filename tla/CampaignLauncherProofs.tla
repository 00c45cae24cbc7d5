------------------------ MODULE CampaignLauncherProofs ------------------------
(***************************************************************************)
(* What a launch leaves behind and what its user is shown, for all         *)
(* numbers of variants, launches and faults. The invariant is LauncherInv; *)
(* the steps of the user, of the calls, of the commits and of the cards    *)
(* are treated each by lemmas of their own.                                *)
(***************************************************************************)
EXTENDS CampaignLauncher, SequenceTheorems, TLAPS

(* A list of variants is a sequence that is not too long.                  *)
LEMMA ListsAreSequences ==
  ASSUME NEW s
  PROVE  s \in VariantLists <=> s \in Seq(Stimuli) /\ Len(s) <= MaxVariants
<1> USE LauncherAssumption
<1>1. ASSUME s \in VariantLists
      PROVE  s \in Seq(Stimuli) /\ Len(s) <= MaxVariants
  <2>1. PICK n \in 0 .. MaxVariants : s \in [1 .. n -> Stimuli]
    BY <1>1 DEF VariantLists
  <2>2. s \in Seq(Stimuli) /\ Len(s) = n
    BY <2>1, SeqDef, LenProperties
  <2>3. QED
    BY <2>1, <2>2
<1>2. ASSUME s \in Seq(Stimuli), Len(s) <= MaxVariants
      PROVE  s \in VariantLists
  <2>1. Len(s) \in 0 .. MaxVariants /\ s \in [1 .. Len(s) -> Stimuli]
    BY <1>2, LenProperties
  <2>2. QED
    BY <2>1 DEF VariantLists
<1>3. QED
  BY <1>1, <1>2

LEMMA EmptyList == <<>> \in VariantLists
<1>1. <<>> \in Seq(Stimuli) /\ Len(<<>>) <= MaxVariants
  BY LauncherAssumption
<1>2. QED
  BY <1>1, ListsAreSequences, Zenon

LEMMA AppendedList ==
  ASSUME NEW s \in VariantLists, NEW v \in Stimuli, Len(s) < MaxVariants
  PROVE  Append(s, v) \in VariantLists
<1>1. s \in Seq(Stimuli)
  BY ListsAreSequences
<1>2. Append(s, v) \in Seq(Stimuli) /\ Len(Append(s, v)) = Len(s) + 1
  BY <1>1, AppendProperties
<1>3. Len(s) + 1 <= MaxVariants
  BY <1>1, LenProperties, LauncherAssumption
<1> HIDE DEF VariantLists
<1>4. QED
  BY <1>2, <1>3, ListsAreSequences

LEMMA ShortenedList ==
  ASSUME NEW s \in VariantLists, NEW i \in 1 .. Len(s)
  PROVE  S!RemoveAt(s, i) \in VariantLists
<1>1. s \in Seq(Stimuli) /\ Len(s) \in Nat /\ Len(s) <= MaxVariants
  BY ListsAreSequences, LenProperties
<1>0. \A j \in 1 .. Len(s) : s[j] \in Stimuli
  BY <1>1, ElementOfSeq
<1> DEFINE a == SubSeq(s, 1, i - 1)
           b == SubSeq(s, i + 1, Len(s))
<1>2. a \in Seq(Stimuli) /\ Len(a) = i - 1
  <2>1. 1 \in Int /\ i - 1 \in Int /\ \A j \in 1 .. i - 1 : s[j] \in Stimuli
    BY <1>0, <1>1
  <2>2. a \in Seq(Stimuli) /\ Len(a) = IF 1 <= i - 1 THEN i - 1 - 1 + 1 ELSE 0
    BY <2>1, SubSeqProperties
  <2>3. QED
    BY <2>2, <1>1
<1>3. b \in Seq(Stimuli) /\ Len(b) = Len(s) - i
  <2>1. i + 1 \in Int /\ Len(s) \in Int /\ \A j \in i + 1 .. Len(s) : s[j] \in Stimuli
    BY <1>0, <1>1
  <2>2. b \in Seq(Stimuli) /\ Len(b) = IF i + 1 <= Len(s) THEN Len(s) - (i + 1) + 1 ELSE 0
    BY <2>1, SubSeqProperties
  <2>3. QED
    BY <2>2, <1>1
<1> HIDE DEF a, b
<1>4. a \o b \in Seq(Stimuli) /\ Len(a \o b) = Len(s) - 1
  <2>1. a \o b \in Seq(Stimuli) /\ Len(a \o b) = Len(a) + Len(b)
    BY <1>2, <1>3, ConcatProperties, Zenon
  <2>2. i - 1 + (Len(s) - i) = Len(s) - 1
    BY <1>1
  <2>3. QED
    BY <1>2, <1>3, <2>1, <2>2
<1>5. a \o b \in VariantLists
  <2>1. Len(s) - 1 <= MaxVariants
    BY <1>1, LauncherAssumption
  <2>2. QED
    BY <1>4, <2>1, ListsAreSequences
<1>6. QED
  BY <1>5 DEF S!RemoveAt, a, b

-----------------------------------------------------------------------------
(* The types, in the parts the actions change.                             *)
BrowserTyped ==
  /\ page \in Pages /\ wizard \in 1 .. 3
  /\ phase \in 0 .. MaxLaunches
  /\ phase # NoPhase <=> page = "launcher" /\ wizard = 3
  /\ card \in [1 .. MaxVariants -> CardStates]
ListsTyped == form \in VariantLists /\ results \in Seq(RunResults)
LaunchesTyped ==
  /\ pc \in [Launches -> {"new", "campaign", "variant", "run", "done", "failed", "gone"}]
  /\ nth \in [Launches -> 1 .. MaxVariants]
  /\ props \in [Launches -> VariantLists]
ServerTyped ==
  /\ strict \in BOOLEAN
  /\ campaign \in [Launches -> RowStates]
  /\ variant \subseteq RunIds
  /\ run \in [RunIds -> RowStates]
  /\ budget \in 0 .. MaxFaults
  /\ refused \subseteq RunIds
LEMMA TypesInParts ==
  /\ LauncherTypeOK <=> BrowserTyped /\ ListsTyped /\ LaunchesTyped /\ ServerTyped
  /\ LauncherTypeOK' <=> BrowserTyped' /\ ListsTyped' /\ LaunchesTyped' /\ ServerTyped'
BY DEF LauncherTypeOK, BrowserTyped, ListsTyped, LaunchesTyped, ServerTyped

(* A page that is shown, and the parts that a step leaves alone.           *)
LEMMA ShowTyped ==
  ASSUME NEW p \in Pages, Show(p)
  PROVE  BrowserTyped'
BY LauncherAssumption DEF Show, BrowserTyped, NoPhase, NewCards, CardStates

LEMMA ServerStays ==
  ASSUME LauncherTypeOK
  PROVE  /\ ServerUnchanged => ServerTyped'
         /\ UNCHANGED launchVars => LaunchesTyped'
         /\ UNCHANGED <<form, results>> => ListsTyped'
         /\ UNCHANGED <<page, wizard, phase, card>> => BrowserTyped'
         /\ UNCHANGED browser => ListsTyped' /\ BrowserTyped'
<1>1. BrowserTyped /\ ListsTyped /\ LaunchesTyped /\ ServerTyped
  BY TypesInParts
<1>2. QED
  BY <1>1 DEF ServerUnchanged, rows, launchVars, browser,
     BrowserTyped, ListsTyped, LaunchesTyped, ServerTyped

(* The user keeps the types.                                               *)
LEMMA UserTypes ==
  ASSUME LauncherTypeOK, User
  PROVE  LauncherTypeOK'
<1>0. BrowserTyped /\ ListsTyped /\ LaunchesTyped /\ ServerTyped
  BY TypesInParts
<1>A. <<>> \in VariantLists /\ <<>> \in Seq(RunResults)
  BY EmptyList
<1>1. ASSUME NEW p \in Pages, Navigate(p)
      PROVE  LauncherTypeOK'
  BY <1>1, ShowTyped, ServerStays, TypesInParts DEF Navigate
<1>2. CASE SignOut
  BY <1>0, <1>2, ShowTyped, ServerStays, TypesInParts DEF SignOut, BrowserTyped
<1>3. CASE LaunchAnother
  <2>1. Show("launcher") /\ "launcher" \in Pages
    BY <1>3 DEF LaunchAnother, Pages
  <2>2. ListsTyped'
    BY <1>3, <1>A DEF LaunchAnother, ListsTyped
  <2>3. QED
    BY <1>3, <2>1, <2>2, ShowTyped, ServerStays, TypesInParts DEF LaunchAnother
<1>4. ASSUME NEW v \in Stimuli, AddVariant(v)
      PROVE  LauncherTypeOK'
  <2>1. form' \in VariantLists
    BY <1>0, <1>4, AppendedList DEF AddVariant, ListsTyped
  <2>2. ListsTyped' /\ BrowserTyped'
    BY <1>0, <1>4, <2>1 DEF AddVariant, ListsTyped, BrowserTyped
  <2>3. QED
    BY <1>4, <2>2, ServerStays, TypesInParts DEF AddVariant
<1>5. ASSUME NEW i \in 1 .. Len(form), RemoveVariant(i)
      PROVE  LauncherTypeOK'
  <2>1. form' \in VariantLists
    BY <1>0, <1>5, ShortenedList DEF RemoveVariant, ListsTyped
  <2>2. ListsTyped' /\ BrowserTyped'
    BY <1>0, <1>5, <2>1 DEF RemoveVariant, ListsTyped, BrowserTyped
  <2>3. QED
    BY <1>5, <2>2, ServerStays, TypesInParts DEF RemoveVariant
<1>6. ASSUME NEW n \in {1, 2}, GoToStep(n)
      PROVE  LauncherTypeOK'
  <2>1. wizard \in {1, 2} /\ wizard' \in {1, 2} /\ UNCHANGED <<page, phase, card>>
    BY <1>6 DEF GoToStep
  <2>2. BrowserTyped'
    BY <1>0, <2>1 DEF BrowserTyped
  <2>3. QED
    BY <1>6, <2>2, ServerStays, TypesInParts DEF GoToStep
<1>7. CASE Launch
  <2>1. PICK l \in Launches :
          /\ (IF strict THEN {l, l + 1} ELSE {l}) \subseteq Launches
          /\ pc' = [k \in Launches |->
                      IF k \in (IF strict THEN {l, l + 1} ELSE {l}) THEN "campaign" ELSE pc[k]]
          /\ props' = [k \in Launches |->
                      IF k \in (IF strict THEN {l, l + 1} ELSE {l}) THEN form ELSE props[k]]
          /\ phase' = IF strict THEN l + 1 ELSE l
    BY <1>7 DEF Launch
  <2>2. page' = "launcher" /\ wizard' = 3 /\ card' = NewCards
    BY <1>7 DEF Launch
  <2>3. phase' \in 1 .. MaxLaunches
    BY <2>1 DEF Launches
  <2>4. BrowserTyped'
    BY <2>2, <2>3, LauncherAssumption DEF BrowserTyped, Pages, NoPhase, NewCards, CardStates
  <2>5. LaunchesTyped'
    BY <1>0, <1>7, <2>1 DEF Launch, LaunchesTyped, ListsTyped
  <2>6. QED
    BY <1>7, <2>4, <2>5, ServerStays, TypesInParts DEF Launch
<1>8. QED
  BY <1>1, <1>2, <1>3, <1>4, <1>5, <1>6, <1>7 DEF User

(* A reload keeps the types.                                               *)
LEMMA ReloadTypes ==
  ASSUME LauncherTypeOK, Reload
  PROVE  LauncherTypeOK'
<1>0. BrowserTyped /\ ListsTyped /\ LaunchesTyped /\ ServerTyped
  BY TypesInParts
<1>1. BrowserTyped'
  BY ShowTyped DEF Reload, Pages
<1>2. ListsTyped'
  BY EmptyList DEF Reload, ListsTyped
<1>3. LaunchesTyped'
  BY <1>0 DEF Reload, LaunchesTyped
<1>4. ServerTyped'
  BY <1>0, LauncherAssumption DEF Reload, ServerTyped, rows
<1>5. QED
  BY <1>1, <1>2, <1>3, <1>4, TypesInParts

(* The calls of launch() keep the types.                                   *)
LEMMA CallTypes ==
  ASSUME LauncherTypeOK, NEW l \in Launches, LaunchStep(l)
  PROVE  LauncherTypeOK'
<1>0. BrowserTyped /\ ListsTyped /\ LaunchesTyped /\ ServerTyped
  BY TypesInParts
<1>1. budget' \in 0 .. MaxFaults /\ UNCHANGED <<strict, browser, props>>
  BY <1>0, LauncherAssumption
     DEF LaunchStep, CreateCampaign, CreateVariant, CreateRun, GoOn, Fault, GiveUp, ServerTyped
<1>2. <<l, nth[l]>> \in RunIds
  BY <1>0 DEF LaunchesTyped, RunIds
<1>3. pc' \in [Launches -> {"new", "campaign", "variant", "run", "done", "failed", "gone"}]
  <2> USE <1>0 DEF LaunchesTyped
  <2>1. CASE CreateCampaign(l)
    BY <2>1 DEF CreateCampaign, GoOn, GiveUp
  <2>2. CASE CreateVariant(l)
    BY <2>2 DEF CreateVariant, GoOn, GiveUp
  <2>3. CASE CreateRun(l)
    BY <2>3 DEF CreateRun, Advance, GiveUp
  <2>4. QED
    BY <2>1, <2>2, <2>3 DEF LaunchStep
<1>4. nth' \in [Launches -> 1 .. MaxVariants]
  <2>1. CASE UNCHANGED nth
    BY <1>0, <2>1 DEF LaunchesTyped
  <2>2. CASE nth[l] < Len(props[l]) /\ nth' = [nth EXCEPT ![l] = @ + 1]
    <3>1. props[l] \in VariantLists /\ nth[l] \in 1 .. MaxVariants
      BY <1>0 DEF LaunchesTyped
    <3>2. Len(props[l]) \in Nat /\ Len(props[l]) <= MaxVariants
      BY <3>1, ListsAreSequences, LenProperties
    <3>3. nth[l] + 1 \in 1 .. MaxVariants
      BY <2>2, <3>1, <3>2, LauncherAssumption
    <3>4. QED
      BY <1>0, <2>2, <3>3 DEF LaunchesTyped
  <2>3. QED
    BY <2>1, <2>2 DEF LaunchStep, CreateCampaign, CreateVariant, CreateRun, Advance
<1>5. /\ campaign' \in [Launches -> RowStates] /\ variant' \subseteq RunIds
      /\ run' \in [RunIds -> RowStates] /\ refused' \subseteq RunIds
  BY <1>0, <1>2 DEF LaunchStep, CreateCampaign, CreateVariant, CreateRun, ServerTyped, RowStates
<1>6. LaunchesTyped' /\ ServerTyped'
  BY <1>0, <1>1, <1>3, <1>4, <1>5 DEF LaunchesTyped, ServerTyped
<1>7. QED
  BY <1>1, <1>6, ServerStays, TypesInParts

(* The commits keep the types.                                             *)
LEMMA CommitTypes ==
  ASSUME LauncherTypeOK, Commit \/ CommitFails
  PROVE  LauncherTypeOK'
<1>0. BrowserTyped /\ ListsTyped /\ LaunchesTyped /\ ServerTyped
  BY TypesInParts
<1>1. ServerTyped'
  BY <1>0, LauncherAssumption DEF Commit, CommitFails, CommitWith, Fault, ServerTyped, RowStates
<1>2. UNCHANGED browser /\ UNCHANGED launchVars
  BY DEF Commit, CommitFails
<1>3. QED
  BY <1>1, <1>2, ServerStays, TypesInParts

(* The results of a complete launch are results, in the order of its       *)
(* variants.                                                               *)
LEMMA ResultsTyped ==
  ASSUME LauncherTypeOK, phase # NoPhase, NEW cards \in [1 .. MaxVariants -> CardStates]
  PROVE  /\ Result(cards) \in Seq(RunResults)
         /\ Len(Result(cards)) = Len(props[phase])
         /\ DOMAIN Result(cards) = 1 .. Len(props[phase])
         /\ Len(props[phase]) \in 0 .. MaxVariants
<1>0. BrowserTyped /\ LaunchesTyped
  BY TypesInParts
<1>1. phase \in Launches
  BY <1>0, LauncherAssumption DEF BrowserTyped, NoPhase, Launches
<1>2. props[phase] \in VariantLists
  BY <1>0, <1>1 DEF LaunchesTyped
<1>3. props[phase] \in Seq(Stimuli) /\ Len(props[phase]) \in 0 .. MaxVariants
  BY <1>2, ListsAreSequences, LenProperties, LauncherAssumption
<1>4. \A i \in 1 .. Len(props[phase]) : props[phase][i] \in Stimuli
  BY <1>3, ElementOfSeq
<1>5. ASSUME NEW i \in 1 .. Len(props[phase])
      PROVE  [variant |-> props[phase][i], run |-> <<phase, i>>, status |-> cards[i]] \in RunResults
  <2>1. i \in 1 .. MaxVariants
    BY <1>3, LauncherAssumption
  <2>2. <<phase, i>> \in RunIds /\ cards[i] \in CardStates
    BY <1>1, <2>1 DEF RunIds
  <2>3. QED
    BY <1>4, <2>2 DEF RunResults
<1>6. Result(cards) \in [1 .. Len(props[phase]) -> RunResults]
  BY <1>5 DEF Result
<1>7. QED
  BY <1>3, <1>6

(* The cards keep the types.                                               *)
LEMMA CardTypes ==
  ASSUME LauncherTypeOK, NEW i \in 1 .. MaxVariants, CardMoves(i)
  PROVE  LauncherTypeOK'
<1>0. BrowserTyped /\ ListsTyped /\ LaunchesTyped /\ ServerTyped
  BY TypesInParts
<1>1. \/ CardRepeats(i) \/ CardFallsSilent(i)
      \/ \E status \in Terminal : CardEnds(i, status)
  BY DEF CardMoves
<1>2. CASE CardRepeats(i) \/ CardFallsSilent(i)
  <2>1. BrowserTyped'
    BY <1>0, <1>2 DEF CardRepeats, CardFallsSilent, BrowserTyped, CardStates
  <2>2. QED
    BY <1>2, <2>1, ServerStays, TypesInParts DEF CardRepeats, CardFallsSilent
<1>3. ASSUME NEW status \in Terminal, CardEnds(i, status)
      PROVE  LauncherTypeOK'
  <2> DEFINE cards == [card EXCEPT ![i] = status]
  <2>1. cards \in [1 .. MaxVariants -> CardStates]
    BY <1>0 DEF BrowserTyped, CardStates
  <2>2. phase # NoPhase /\ UNCHANGED form /\ UNCHANGED launchVars /\ ServerUnchanged
    BY <1>3 DEF CardEnds, Following
  <2>3. \/ results' = Result(cards) /\ Show("results")
        \/ card' = cards /\ UNCHANGED <<results, page, wizard, phase>>
    BY <1>3 DEF CardEnds
  <2> HIDE DEF cards
  <2>4. CASE results' = Result(cards) /\ Show("results")
    <3>1. BrowserTyped'
      BY <2>4, ShowTyped DEF Pages
    <3>2. ListsTyped'
      BY <1>0, <2>1, <2>2, <2>4, ResultsTyped DEF ListsTyped
    <3>3. QED
      BY <2>2, <3>1, <3>2, ServerStays, TypesInParts
  <2>5. CASE card' = cards /\ UNCHANGED <<results, page, wizard, phase>>
    <3>1. BrowserTyped'
      BY <1>0, <2>1, <2>5 DEF BrowserTyped
    <3>2. QED
      BY <2>2, <2>5, <3>1, ServerStays, TypesInParts
  <2>6. QED
    BY <2>3, <2>4, <2>5
<1>4. QED
  BY <1>1, <1>2, <1>3

(* The types hold at first and are kept.                                   *)
LEMMA TypesHold ==
  /\ Init => LauncherTypeOK
  /\ LauncherTypeOK /\ [Next]_vars => LauncherTypeOK'
<1>1. ASSUME Init
      PROVE  LauncherTypeOK
  BY <1>1, EmptyList, LauncherAssumption
     DEF Init, LauncherTypeOK, Pages, NoPhase, NewCards, CardStates, RowStates
<1>2. ASSUME LauncherTypeOK, UNCHANGED vars
      PROVE  LauncherTypeOK'
  BY <1>2 DEF vars, browser, launchVars, rows, LauncherTypeOK
<1>3. QED
  BY <1>1, <1>2, UserTypes, ReloadTypes, CallTypes, CommitTypes, CardTypes DEF Next

-----------------------------------------------------------------------------
(* RowsInOrder and CutShortForCause, of one launch.                        *)
InOrder(l) ==
  \A i \in 1 .. MaxVariants :
    /\ run[<<l, i>>] # "none" => <<l, i>> \in variant
    /\ <<l, i>> \in variant =>
         campaign[l] = "kept" /\ \A j \in 1 .. i - 1 : run[<<l, j>>] # "none"
ForCause(l) ==
  pc[l] = "failed" /\ budget = MaxFaults =>
    \/ \E i \in 1 .. MaxVariants : <<l, i>> \in refused
    \/ nth[l] = 1 /\ <<l, 1>> \notin variant
LaunchGood(l) == LaunchInv(l) /\ InOrder(l) /\ ForCause(l)

(* A step that makes nothing for a launch and does not take it further     *)
(* keeps what is known of it; rows may be committed, a call given up by a  *)
(* reload.                                                                 *)
LEMMA LaunchStays ==
  ASSUME LauncherTypeOK, NEW k \in Launches, LaunchGood(k),
         pc'[k] \in {pc[k], "gone"}, nth'[k] = nth[k], props'[k] = props[k],
         campaign[k] # "open" => campaign'[k] = campaign[k],
         \A i \in 1 .. MaxVariants :
           /\ <<k, i>> \in variant' <=> <<k, i>> \in variant
           /\ run'[<<k, i>>] = "none" <=> run[<<k, i>>] = "none",
         refused \subseteq refused',
         budget' = MaxFaults => budget = MaxFaults
  PROVE  LaunchGood(k)'
<1>1. LaunchInv(k)'
  BY DEF LaunchGood, LaunchInv, NothingMade, MadeUpTo
<1>2. InOrder(k)'
  <2> SUFFICES ASSUME NEW i \in 1 .. MaxVariants
               PROVE  /\ run'[<<k, i>>] # "none" => <<k, i>> \in variant'
                      /\ <<k, i>> \in variant' =>
                           campaign'[k] = "kept" /\ \A j \in 1 .. i - 1 : run'[<<k, j>>] # "none"
    BY DEF InOrder
  <2>1. \A j \in 1 .. i - 1 : j \in 1 .. MaxVariants
    BY LauncherAssumption
  <2>2. QED
    BY <2>1 DEF LaunchGood, InOrder
<1>3. ForCause(k)'
  BY LauncherAssumption DEF LaunchGood, ForCause
<1>4. QED
  BY <1>1, <1>2, <1>3 DEF LaunchGood

(* A launch goes on: what it has made so far is in order.                  *)
LEMMA LaunchGoesOn ==
  ASSUME LauncherTypeOK, NEW l \in Launches, LaunchGood(l), LaunchStep(l)
  PROVE  LaunchGood(l)'
<1>0. /\ pc \in [Launches -> {"new", "campaign", "variant", "run", "done", "failed", "gone"}]
      /\ nth \in [Launches -> 1 .. MaxVariants] /\ nth[l] \in 1 .. MaxVariants
      /\ campaign \in [Launches -> RowStates] /\ run \in [RunIds -> RowStates]
      /\ budget \in 0 .. MaxFaults
      /\ \A i \in 1 .. MaxVariants : <<l, i>> \in RunIds
      /\ MaxVariants \in Nat \ {0} /\ MaxFaults \in Nat
  BY LauncherAssumption DEF LauncherTypeOK, RunIds
<1>1. props[l] \in Seq(Stimuli) /\ Len(props[l]) \in Nat
  BY ListsAreSequences, LenProperties DEF LauncherTypeOK
<1>A. /\ \A next : GoOn(l, next) => pc'[l] = next
      /\ GiveUp(l) => pc'[l] = "failed"
      /\ Fault => budget' # MaxFaults
      /\ Advance(l) => \/ pc'[l] = "variant" /\ nth[l] < Len(props[l]) /\ nth'[l] = nth[l] + 1
                       \/ pc'[l] = "done"
  BY <1>0 DEF GoOn, GiveUp, Fault, Advance
<1>2. CASE CreateCampaign(l)
  <2>1. NothingMade(l) /\ props[l] # <<>>
    BY <1>2 DEF CreateCampaign, LaunchGood, LaunchInv
  <2>2. Len(props[l]) >= 1
    BY <1>1, <2>1
  <2>3. /\ UNCHANGED <<nth, props, variant, run, refused>>
        /\ pc'[l] = "variant" \/ (pc'[l] = "failed" /\ budget' # MaxFaults)
    BY <1>A, <1>2 DEF CreateCampaign
  <2>4. LaunchInv(l)'
    BY <2>1, <2>2, <2>3 DEF LaunchInv, NothingMade, MadeUpTo
  <2>5. InOrder(l)' /\ ForCause(l)'
    BY <2>1, <2>3 DEF InOrder, ForCause, NothingMade
  <2>6. QED
    BY <2>4, <2>5 DEF LaunchGood
<1>3. CASE CreateVariant(l)
  <2>1. MadeUpTo(l, nth[l] - 1, nth[l] - 1)
    BY <1>3 DEF CreateVariant, LaunchGood, LaunchInv
  <2>2. UNCHANGED <<nth, props, campaign, run, refused>>
    BY <1>3 DEF CreateVariant
  <2>3. \/ /\ campaign[l] = "kept" /\ variant' = variant \cup {<<l, nth[l]>>}
           /\ pc'[l] = "run" \/ (pc'[l] = "failed" /\ budget' # MaxFaults)
        \/ /\ campaign[l] # "kept" /\ UNCHANGED variant /\ pc'[l] = "failed"
        \/ /\ UNCHANGED variant /\ pc'[l] = "failed" /\ budget' # MaxFaults
    BY <1>A, <1>3 DEF CreateVariant, CampaignFound
  <2>4. LaunchInv(l)'
    BY <1>0, <2>1, <2>2, <2>3 DEF LaunchInv, MadeUpTo
  <2>5. InOrder(l)'
    BY <1>0, <2>1, <2>2, <2>3 DEF InOrder, MadeUpTo, LaunchGood
  <2>6. campaign[l] # "kept" => nth[l] = 1 /\ <<l, 1>> \notin variant
    <3>1. <<l, 1>> \notin variant \/ campaign[l] = "kept"
      BY <1>0 DEF LaunchGood, InOrder
    <3>2. <<l, 1>> \in variant <=> 1 <= nth[l] - 1
      BY <1>0, <2>1 DEF MadeUpTo
    <3>3. QED
      BY <1>0, <3>1, <3>2
  <2>7. ForCause(l)'
    BY <2>2, <2>3, <2>6 DEF ForCause
  <2>8. QED
    BY <2>4, <2>5, <2>7 DEF LaunchGood
<1>4. CASE CreateRun(l)
  <2>1. MadeUpTo(l, nth[l], nth[l] - 1)
    BY <1>4 DEF CreateRun, LaunchGood, LaunchInv
  <2>2. UNCHANGED <<props, campaign, variant>>
    BY <1>4 DEF CreateRun
  <2>3. \/ /\ run' = [run EXCEPT ![<<l, nth[l]>>] = "open"] /\ refused' = refused
           /\ \/ pc'[l] = "variant" /\ nth[l] < Len(props[l]) /\ nth'[l] = nth[l] + 1
              \/ pc'[l] = "done"
              \/ pc'[l] = "failed" /\ budget' # MaxFaults
        \/ /\ refused' = refused \cup {<<l, nth[l]>>}
           /\ UNCHANGED run /\ pc'[l] = "failed"
        \/ /\ UNCHANGED run /\ pc'[l] = "failed" /\ budget' # MaxFaults
    BY <1>A, <1>4 DEF CreateRun
  <2>4. \A i \in 1 .. MaxVariants :
          run'[<<l, i>>] # "none" <=> run[<<l, i>>] # "none" \/ (i = nth[l] /\ run' # run)
    BY <1>0, <2>3
  <2>5. LaunchInv(l)'
    <3>1. CASE pc'[l] \in {"done", "failed"}
      BY <3>1 DEF LaunchInv
    <3>2. CASE /\ pc'[l] = "variant" /\ nth[l] < Len(props[l]) /\ nth'[l] = nth[l] + 1
               /\ run' = [run EXCEPT ![<<l, nth[l]>>] = "open"]
      <4>1. \A i \in 1 .. MaxVariants : run'[<<l, i>>] # "none" <=> i <= nth[l]
        BY <1>0, <2>1, <3>2 DEF MadeUpTo
      <4>2. \A i \in 1 .. MaxVariants : <<l, i>> \in variant' <=> i <= nth[l]
        BY <2>1, <2>2 DEF MadeUpTo
      <4>3. nth'[l] <= Len(props'[l]) /\ nth'[l] - 1 = nth[l]
        BY <1>0, <1>1, <2>2, <3>2
      <4>4. QED
        BY <3>2, <4>1, <4>2, <4>3 DEF LaunchInv, MadeUpTo
    <3>3. QED
      BY <2>3, <3>1, <3>2
  <2>6. InOrder(l)'
    <3>1. \A i \in 1 .. MaxVariants : run'[<<l, i>>] # "none" => <<l, i>> \in variant'
      BY <1>0, <2>1, <2>2, <2>4 DEF MadeUpTo
    <3>2. ASSUME NEW i \in 1 .. MaxVariants, <<l, i>> \in variant'
          PROVE  campaign'[l] = "kept" /\ \A j \in 1 .. i - 1 : run'[<<l, j>>] # "none"
      <4>1. \A j \in 1 .. i - 1 : j \in 1 .. MaxVariants
        BY <1>0
      <4>2. QED
        BY <2>2, <2>4, <3>2, <4>1 DEF LaunchGood, InOrder
    <3>3. QED
      BY <3>1, <3>2 DEF InOrder
  <2>7. ForCause(l)'
    BY <1>0, <2>3 DEF ForCause
  <2>8. QED
    BY <2>5, <2>6, <2>7 DEF LaunchGood
<1>5. QED
  BY <1>2, <1>3, <1>4 DEF LaunchStep

-----------------------------------------------------------------------------
(* A step of a call leaves the other launches as they are.                 *)
LEMMA CallKeeps ==
  ASSUME LauncherTypeOK, NEW l \in Launches, LaunchStep(l)
  PROVE  /\ \A k \in Launches \ {l} :
              /\ pc'[k] = pc[k] /\ nth'[k] = nth[k] /\ campaign'[k] = campaign[k]
              /\ \A i \in 1 .. MaxVariants :
                   /\ <<k, i>> \in variant' <=> <<k, i>> \in variant
                   /\ run'[<<k, i>>] = run[<<k, i>>]
         /\ UNCHANGED <<browser, props>>
         /\ refused \subseteq refused'
         /\ budget' = MaxFaults => budget = MaxFaults
         /\ \A r \in RunIds : run[r] = "kept" =>
               run'[r] = "kept" \/ (pc[l] = "run" /\ r = <<l, nth[l]>>)
         /\ \A k \in Launches : pc[k] = "done" => pc'[k] = "done"
<1> USE DEF LauncherTypeOK, GoOn, GiveUp, Fault, RunIds
<1> USE LauncherAssumption
<1>1. CASE CreateCampaign(l)
  BY <1>1 DEF CreateCampaign
<1>2. CASE CreateVariant(l)
  BY <1>2 DEF CreateVariant
<1>3. CASE CreateRun(l)
  BY <1>3 DEF CreateRun, Advance
<1>4. QED
  BY <1>1, <1>2, <1>3 DEF LaunchStep

LEMMA CommitKeeps ==
  ASSUME LauncherTypeOK, Commit \/ CommitFails
  PROVE  /\ UNCHANGED <<browser, launchVars, variant, refused>>
         /\ budget' = MaxFaults => budget = MaxFaults
         /\ \A k \in Launches : campaign[k] # "open" => campaign'[k] = campaign[k]
         /\ \A r \in RunIds : run'[r] = "none" <=> run[r] = "none"
         /\ \A r \in RunIds : run[r] = "kept" => run'[r] = "kept"
<1> USE LauncherAssumption DEF LauncherTypeOK, CommitWith, Fault
<1>1. CASE Commit
  BY <1>1 DEF Commit
<1>2. CASE CommitFails
  BY <1>2 DEF CommitFails
<1>3. QED
  BY <1>1, <1>2

(* The user starts launches that were new, and nothing else of a launch.   *)
LEMMA UserKeeps ==
  ASSUME LauncherTypeOK, User
  PROVE  /\ UNCHANGED <<nth, campaign, variant, run, budget, refused>>
         /\ \A k \in Launches :
              \/ pc'[k] = pc[k] /\ props'[k] = props[k]
              \/ pc[k] = "new" /\ pc'[k] = "campaign" /\ props'[k] # <<>>
<1> USE DEF ServerUnchanged, rows, launchVars, LauncherTypeOK
<1>1. CASE Launch
  <2>1. PICK l \in Launches :
          /\ \A k \in Launches : pc[k] = "new" <=> k >= l
          /\ pc' = [k \in Launches |->
                      IF k \in (IF strict THEN {l, l + 1} ELSE {l}) THEN "campaign" ELSE pc[k]]
          /\ props' = [k \in Launches |->
                      IF k \in (IF strict THEN {l, l + 1} ELSE {l}) THEN form ELSE props[k]]
    BY <1>1 DEF Launch
  <2>2. \A k \in Launches : k \in (IF strict THEN {l, l + 1} ELSE {l}) => pc[k] = "new"
    BY <2>1 DEF Launches
  <2>3. UNCHANGED <<nth, campaign, variant, run, budget, refused>> /\ form # <<>>
    BY <1>1 DEF Launch
  <2>4. QED
    BY <2>1, <2>2, <2>3
<1>2. CASE ~Launch
  BY <1>2 DEF User, Navigate, SignOut, LaunchAnother, AddVariant, RemoveVariant, GoToStep
<1>3. QED
  BY <1>1, <1>2

(* Every step keeps what is known of a launch.                             *)
LEMMA LaunchesStep ==
  ASSUME LauncherTypeOK, \A k \in Launches : LaunchGood(k), [Next]_vars
  PROVE  /\ \A k \in Launches : LaunchGood(k)'
         /\ \A r \in RunIds : run[r] = "kept" => run'[r] = "kept"
         /\ \A k \in Launches : pc[k] = "done" =>
              (pc'[k] = "done" /\ props'[k] = props[k])
<1>A. \A k \in Launches : \A i \in 1 .. MaxVariants : <<k, i>> \in RunIds
  BY DEF RunIds
<1>1. CASE User
  <2>1. ASSUME NEW k \in Launches
        PROVE  LaunchGood(k)'
    <3>1. CASE pc'[k] = pc[k] /\ props'[k] = props[k]
      BY <1>1, <3>1, UserKeeps, LaunchStays
    <3>2. CASE pc[k] = "new" /\ pc'[k] = "campaign" /\ props'[k] # <<>>
      <4>1. NothingMade(k) /\ InOrder(k)
        BY <3>2 DEF LaunchGood, LaunchInv
      <4>2. UNCHANGED <<nth, campaign, variant, run>>
        BY <1>1, UserKeeps
      <4>3. NothingMade(k)' /\ InOrder(k)'
        BY <4>1, <4>2 DEF NothingMade, InOrder
      <4>4. QED
        BY <3>2, <4>3 DEF LaunchGood, LaunchInv, ForCause
    <3>3. QED
      BY <1>1, <3>1, <3>2, UserKeeps
  <2>2. QED
    BY <1>1, <2>1, UserKeeps
<1>2. CASE Reload
  <2>1. /\ UNCHANGED <<nth, props, campaign, variant, run, refused>>
        /\ \A k \in Launches : pc'[k] \in {pc[k], "gone"}
        /\ \A k \in Launches : pc[k] = "done" => pc'[k] = "done"
        /\ budget' = MaxFaults => budget = MaxFaults
    BY <1>2, LauncherAssumption DEF Reload, rows, LauncherTypeOK
  <2>2. ASSUME NEW k \in Launches
        PROVE  LaunchGood(k)'
    BY <2>1, LaunchStays
  <2>3. QED
    BY <2>1, <2>2
<1>3. CASE Commit \/ CommitFails
  <2>1. /\ UNCHANGED <<pc, nth, props, variant, refused>>
        /\ budget' = MaxFaults => budget = MaxFaults
        /\ \A k \in Launches : campaign[k] # "open" => campaign'[k] = campaign[k]
        /\ \A r \in RunIds : run'[r] = "none" <=> run[r] = "none"
        /\ \A r \in RunIds : run[r] = "kept" => run'[r] = "kept"
    BY <1>3, CommitKeeps DEF launchVars
  <2>2. ASSUME NEW k \in Launches
        PROVE  LaunchGood(k)'
    BY <1>A, <2>1, LaunchStays
  <2>3. QED
    BY <2>1, <2>2
<1>4. CASE (\E i \in 1 .. MaxVariants : CardMoves(i)) \/ UNCHANGED vars
  <2>1. UNCHANGED <<launchVars, rows, budget, refused>>
    BY <1>4 DEF CardMoves, CardRepeats, CardFallsSilent, CardEnds, ServerUnchanged, vars
  <2>2. ASSUME NEW k \in Launches
        PROVE  LaunchGood(k)'
    BY <2>1, LaunchStays DEF launchVars, rows
  <2>3. QED
    BY <2>1, <2>2 DEF launchVars, rows
<1>5. ASSUME NEW l \in Launches, LaunchStep(l)
      PROVE  /\ \A k \in Launches : LaunchGood(k)'
             /\ \A r \in RunIds : run[r] = "kept" => run'[r] = "kept"
             /\ \A k \in Launches : pc[k] = "done" =>
                  (pc'[k] = "done" /\ props'[k] = props[k])
  <2>1. ASSUME NEW k \in Launches \ {l}
        PROVE  LaunchGood(k)'
    BY <1>5, <2>1, CallKeeps, LaunchStays
  <2>2. LaunchGood(l)'
    BY <1>5, LaunchGoesOn
  <2>3. ASSUME NEW r \in RunIds, run[r] = "kept"
        PROVE  run'[r] = "kept"
    <3>1. CASE pc[l] = "run" /\ r = <<l, nth[l]>>
      <4>1. nth[l] \in 1 .. MaxVariants /\ MadeUpTo(l, nth[l], nth[l] - 1)
        BY <3>1 DEF LauncherTypeOK, LaunchGood, LaunchInv
      <4>2. run[<<l, nth[l]>>] = "none"
        BY <4>1, LauncherAssumption DEF MadeUpTo
      <4>3. QED
        BY <2>3, <3>1, <4>2
    <3>2. QED
      BY <1>5, <2>3, <3>1, CallKeeps
  <2>4. QED
    BY <1>5, <2>1, <2>2, <2>3, CallKeeps
<1>6. QED
  BY <1>1, <1>2, <1>3, <1>4, <1>5 DEF Next

-----------------------------------------------------------------------------
(* What is on the screen stays right when the browser does not change, as  *)
(* far as launches that are done stay so and rows that are kept are kept.  *)
LEMMA ScreenStays ==
  ASSUME LauncherTypeOK, PhaseInv, ResultsAreOfTheForm, UNCHANGED browser,
         \A r \in RunIds : run[r] = "kept" => run'[r] = "kept",
         \A k \in Launches : pc[k] = "done" => pc'[k] = "done",
         UNCHANGED props
  PROVE  PhaseInv' /\ ResultsAreOfTheForm'
<1>1. PhaseInv'
  <2>1. phase # NoPhase => \A i \in 1 .. MaxVariants : <<phase, i>> \in RunIds
    BY DEF LauncherTypeOK, NoPhase, RunIds, Launches
  <2>2. QED
    BY <2>1 DEF PhaseInv, browser
<1>2. ResultsAreOfTheForm'
  <2>1. results \in [1 .. Len(results) -> RunResults] /\ DOMAIN results = 1 .. Len(results)
    BY LenProperties DEF LauncherTypeOK
  <2>2. \A i \in DOMAIN results : results[i].run \in RunIds
    BY <2>1 DEF RunResults
  <2>3. QED
    BY <2>2 DEF ResultsAreOfTheForm, browser
<1>3. QED
  BY <1>1, <1>2

(* The user's steps, a reload: a page that is left takes its phase along,  *)
(* and a new phase is of the form.                                         *)
LEMMA UserScreen ==
  ASSUME LauncherTypeOK, LauncherTypeOK', User \/ Reload
  PROVE  PhaseInv' /\ ResultsAreOfTheForm'
<1>1. CASE Launch
  <2>1. PICK l \in Launches :
          /\ (IF strict THEN {l, l + 1} ELSE {l}) \subseteq Launches
          /\ props' = [k \in Launches |->
                      IF k \in (IF strict THEN {l, l + 1} ELSE {l}) THEN form ELSE props[k]]
          /\ phase' = IF strict THEN l + 1 ELSE l
    BY <1>1 DEF Launch
  <2>2. props'[phase'] = form
    BY <2>1
  <2>3. page' = "launcher" /\ form' = form /\ card' = NewCards
    BY <1>1 DEF Launch
  <2>4. QED
    BY <2>2, <2>3 DEF PhaseInv, ResultsAreOfTheForm, NewCards
<1>2. CASE ~Launch
  <2>1. page' # "results" /\ phase' = NoPhase
    <3>1. CASE Reload
      BY <3>1 DEF Reload, Show
    <3>2. CASE User
      BY <1>2, <3>2 DEF User, Navigate, SignOut, LaunchAnother, AddVariant, RemoveVariant,
         GoToStep, Show, LauncherTypeOK
    <3>3. QED
      BY <3>1, <3>2
  <2>2. QED
    BY <2>1 DEF PhaseInv, ResultsAreOfTheForm
<1>3. QED
  BY <1>1, <1>2

(* The cards: the last one to end shows the results, which are those of    *)
(* the form, since the phase is of the form.                               *)
LEMMA CardScreen ==
  ASSUME LauncherTypeOK, PhaseInv, ResultsAreOfTheForm,
         NEW i \in 1 .. MaxVariants, CardMoves(i)
  PROVE  PhaseInv' /\ ResultsAreOfTheForm'
<1>1. \/ CardRepeats(i) \/ CardFallsSilent(i)
      \/ \E status \in Terminal : CardEnds(i, status)
  BY DEF CardMoves
<1>2. phase # NoPhase /\ pc[phase] = "done" /\ page = "launcher"
  BY <1>1 DEF CardRepeats, CardFallsSilent, CardEnds, Following, LauncherTypeOK
<1>3. phase \in Launches /\ card \in [1 .. MaxVariants -> CardStates]
  BY <1>2 DEF LauncherTypeOK, NoPhase, Launches
<1>4. UNCHANGED <<form, pc, nth, props, campaign, variant, run>>
  BY <1>1 DEF CardRepeats, CardFallsSilent, CardEnds, ServerUnchanged, launchVars, rows
<1>5. CASE CardRepeats(i) \/ CardFallsSilent(i)
  <2>1. /\ UNCHANGED <<page, phase>>
        /\ \E state \in {"repeating", "silent"} : card' = [card EXCEPT ![i] = state]
    BY <1>5 DEF CardRepeats, CardFallsSilent
  <2>2. \A j \in 1 .. MaxVariants : card'[j] = "completed" => card[j] = "completed"
    BY <1>3, <2>1
  <2>3. QED
    BY <1>2, <1>4, <2>1, <2>2 DEF PhaseInv, ResultsAreOfTheForm
<1>6. ASSUME NEW status \in Terminal, CardEnds(i, status)
      PROVE  PhaseInv' /\ ResultsAreOfTheForm'
  <2> DEFINE cards == [card EXCEPT ![i] = status]
  <2>1. \/ AllComplete(cards) /\ results' = Result(cards) /\ Show("results")
        \/ card' = cards /\ UNCHANGED <<results, page, phase>>
    BY <1>6 DEF CardEnds
  <2>2. cards \in [1 .. MaxVariants -> CardStates]
    BY <1>3 DEF CardStates
  <2>3. \A j \in 1 .. MaxVariants : cards[j] = "completed" => run[<<phase, j>>] = "kept"
    BY <1>2, <1>3, <1>6 DEF PhaseInv, CardEnds
  <2> HIDE DEF cards
  <2>4. CASE AllComplete(cards) /\ results' = Result(cards) /\ Show("results")
    <3>1. phase' = NoPhase
      BY <2>4 DEF Show
    <3>2. /\ Len(Result(cards)) = Len(form) /\ props[phase] = form
          /\ DOMAIN Result(cards) = 1 .. Len(form)
          /\ Len(form) \in 0 .. MaxVariants
      BY <1>2, <2>2, ResultsTyped DEF PhaseInv
    <3>3. \A j \in 1 .. Len(form) :
            /\ Result(cards)[j].run = <<phase, j>>
            /\ Result(cards)[j].variant = form[j]
            /\ Result(cards)[j].status = cards[j] /\ cards[j] \in Terminal
      BY <2>4, <3>2 DEF Result, AllComplete
    <3>4. \A j \in 1 .. Len(form) : j \in 1 .. MaxVariants
      BY <3>2, LauncherAssumption
    <3>5. ResultsAreOfTheForm'
      <4>1. /\ results' = Result(cards) /\ form' = form
            /\ pc'[phase] = "done" /\ props'[phase] = form /\ run' = run
        BY <1>2, <1>4, <2>4, <3>2
      <4>2. ASSUME NEW j \in DOMAIN results'
            PROVE  /\ results'[j].run = <<phase, j>>
                   /\ results'[j].variant = form'[j]
                   /\ results'[j].status \in Terminal
                   /\ results'[j].status = "completed" => run'[results'[j].run] = "kept"
        <5>1. j \in 1 .. Len(form) /\ j \in 1 .. MaxVariants
          BY <3>2, <3>4, <4>1
        <5>2. /\ results'[j].run = <<phase, j>> /\ results'[j].variant = form[j]
              /\ results'[j].status = cards[j] /\ cards[j] \in Terminal
          BY <3>3, <4>1, <5>1
        <5>3. cards[j] = "completed" => run'[<<phase, j>>] = "kept"
          BY <2>3, <4>1, <5>1
        <5>4. QED
          BY <4>1, <5>2, <5>3
      <4>3. Len(results') = Len(form')
        BY <3>2, <4>1
      <4>4. QED
        BY <1>3, <4>1, <4>2, <4>3, Zenon DEF ResultsAreOfTheForm
    <3>6. QED
      BY <3>1, <3>5 DEF PhaseInv
  <2>5. CASE card' = cards /\ UNCHANGED <<results, page, phase>>
    BY <1>2, <1>4, <2>3, <2>5 DEF PhaseInv, ResultsAreOfTheForm
  <2>6. QED
    BY <2>1, <2>4, <2>5
<1>7. QED
  BY <1>1, <1>5, <1>6

-----------------------------------------------------------------------------
LEMMA InParts ==
  /\ LauncherInv <=> /\ LauncherTypeOK /\ PhaseInv /\ ResultsAreOfTheForm
                     /\ \A k \in Launches : LaunchGood(k)
  /\ LauncherInv' <=> /\ LauncherTypeOK' /\ PhaseInv' /\ ResultsAreOfTheForm'
                      /\ \A k \in Launches : LaunchGood(k)'
BY DEF LauncherInv, LaunchGood, InOrder, ForCause, RowsInOrder, CutShortForCause

LEMMA InitialLauncher == Init => LauncherInv
<1> SUFFICES ASSUME Init
             PROVE  LauncherInv
  OBVIOUS
<1>1. LauncherTypeOK
  BY TypesHold
<1>2. ASSUME NEW k \in Launches
      PROVE  LaunchGood(k)
  <2>1. NothingMade(k)
    BY DEF Init, NothingMade, RunIds
  <2>2. QED
    BY <2>1 DEF Init, LaunchGood, LaunchInv, InOrder, ForCause, NothingMade
<1>3. PhaseInv /\ ResultsAreOfTheForm
  BY DEF Init, PhaseInv, ResultsAreOfTheForm
<1>4. QED
  BY <1>1, <1>2, <1>3, InParts

LEMMA LauncherStep ==
  ASSUME LauncherInv, [Next]_vars
  PROVE  LauncherInv'
<1>1. /\ LauncherTypeOK /\ PhaseInv /\ ResultsAreOfTheForm
      /\ \A k \in Launches : LaunchGood(k)
  BY InParts
<1>2. LauncherTypeOK'
  BY <1>1, TypesHold
<1>3. /\ \A k \in Launches : LaunchGood(k)'
      /\ \A r \in RunIds : run[r] = "kept" => run'[r] = "kept"
      /\ \A k \in Launches : pc[k] = "done" => pc'[k] = "done"
  BY <1>1, LaunchesStep
<1>4. PhaseInv' /\ ResultsAreOfTheForm'
  <2>1. CASE User \/ Reload
    BY <1>1, <1>2, <2>1, UserScreen
  <2>2. CASE \E i \in 1 .. MaxVariants : CardMoves(i)
    BY <1>1, <2>2, CardScreen
  <2>3. CASE Commit \/ CommitFails \/ UNCHANGED vars
    <3>1. UNCHANGED browser /\ UNCHANGED props
      BY <1>1, <2>3, CommitKeeps DEF vars, launchVars
    <3>2. QED
      BY <1>1, <1>3, <3>1, ScreenStays
  <2>4. ASSUME NEW l \in Launches, LaunchStep(l)
        PROVE  PhaseInv' /\ ResultsAreOfTheForm'
    <3>1. UNCHANGED browser /\ UNCHANGED props
      BY <1>1, <2>4, CallKeeps
    <3>2. QED
      BY <1>1, <1>3, <3>1, ScreenStays
  <2>5. QED
    BY <2>1, <2>2, <2>3, <2>4 DEF Next
<1>5. QED
  BY <1>2, <1>3, <1>4, InParts

(* The inductive invariant.                                                *)
THEOREM LauncherInvariant == Spec => []LauncherInv
<1>1. QED
  BY InitialLauncher, LauncherStep, PTL DEF Spec

(* The types, and that only the third step of the wizard has a phase.      *)
THEOREM LauncherTyped == Spec => []LauncherTypeOK
<1>1. LauncherInv => LauncherTypeOK
  BY DEF LauncherInv
<1>2. QED
  BY <1>1, LauncherInvariant, PTL

(* The rows of a launch are made in order, whatever fails.                 *)
THEOREM OrderedRows == Spec => []RowsInOrder
<1>1. LauncherInv => RowsInOrder
  BY DEF LauncherInv
<1>2. QED
  BY <1>1, LauncherInvariant, PTL

(* An undisturbed launch is cut short by the limiter or by a late commit.  *)
THEOREM CutShortCauses == Spec => []CutShortForCause
<1>1. LauncherInv => CutShortForCause
  BY DEF LauncherInv
<1>2. QED
  BY <1>1, LauncherInvariant, PTL

(* The results shown are those of one launch of the form.                  *)
THEOREM TrueResults == Spec => []ResultsAreOfTheForm
<1>1. LauncherInv => ResultsAreOfTheForm
  BY DEF LauncherInv
<1>2. QED
  BY <1>1, LauncherInvariant, PTL
=============================================================================
