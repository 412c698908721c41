------------------------ MODULE RuleGovernanceProofs ------------------------
(***************************************************************************)
(* The life of rule versions, for any rules, analysts and number of        *)
(* versions, and the console's page over it: what the routes keep true     *)
(* whoever calls them, that the page only takes steps the routes allow,    *)
(* and what only the page keeps true.                                      *)
(***************************************************************************)
EXTENDS RuleSheet, TLAPS

VersionRow == [rule : Seed \cup Proposal, path : Seq(RuleLifecycle) \ {<<>>}]

RgTypeOK ==
    /\ rgVersion \in SUBSET VersionRow
    /\ rgAccepted \in [Proposal -> [corpus : Corpus \cup {Nobody}, by : Analyst \cup {Nobody}]]
    /\ rgTally \in Nat
    /\ rgReversal \in [Reversal -> [open : BOOLEAN, version : VersionRow \cup {NoReversal.version},
                                    over : BOOLEAN]]
    /\ rgOverlapped \subseteq Reversal

(* promotion_event names a rule_version row that exists.                   *)
PromotionsHaveVersions == \A e \in rgPromotion : e.version \in rgVersion

(* A reversal that counted names a version that exists; one that no other  *)
(* overlapped is alone, and its count is still right.                      *)
SerialCountIsRight ==
    \A q \in Reversal : rgReversal[q].open =>
        /\ rgReversal[q].version \in rgVersion
        /\ q \notin rgOverlapped => /\ rgReversal[q].over = (rgTally + 1 > MaxReversals)
                                    /\ \A x \in Reversal : rgReversal[x].open => x = q

(* Why a version may be ACTIVE.                                            *)
Vetted(v) ==
    \E e \in rgPromotion :
        /\ e.version = v
        /\ \/ e.grounds = "backtest"
           \/ /\ e.grounds = "dual"
              /\ \E s \in rgEvent : Successor(s.version, "ACTIVE") = v /\ s.by # e.by
           \/ /\ e.grounds = "pinned"
              /\ v = Successor(Root(v.rule, "SHADOW"), "ACTIVE")
              /\ <<v.rule, rgAccepted[v.rule].corpus>> \in Passes

RgInv ==
    /\ RgTypeOK
    /\ PromotionsHaveVersions
    /\ SerialCountIsRight
    /\ ActiveWasVetted

-----------------------------------------------------------------------------
(* A successor is in the state it was given, and is not the first of its   *)
(* chain.                                                                  *)
LEMMA SuccessorState ==
  ASSUME NEW v \in VersionRow, NEW s \in RuleLifecycle
  PROVE  /\ Successor(v, s) \in VersionRow /\ State(Successor(v, s)) = s
         /\ Len(Successor(v, s).path) > 1 /\ Successor(v, s).rule = v.rule
<1>1. v.path \in Seq(RuleLifecycle) /\ v.path # <<>> /\ v.rule \in Seed \cup Proposal
  BY DEF VersionRow
<1> DEFINE p == Append(v.path, s)
<1>2. /\ p \in Seq(RuleLifecycle) /\ Len(p) = Len(v.path) + 1 /\ p[Len(p)] = s
      /\ Len(v.path) \in Nat /\ Len(v.path) # 0
  BY <1>1
<1>3. p # <<>> /\ Len(p) > 1
  BY <1>2
<1> HIDE DEF p
<1>4. Successor(v, s) = [rule |-> v.rule, path |-> p]
  BY DEF Successor, p
<1> QED
  BY <1>1, <1>2, <1>3, <1>4 DEF VersionRow, State

(* The first version of a rule.                                            *)
LEMMA RootState ==
  ASSUME NEW r \in Seed \cup Proposal, NEW s \in RuleLifecycle
  PROVE  Root(r, s) \in VersionRow /\ State(Root(r, s)) = s /\ ~(Len(Root(r, s).path) > 1)
<1>1. <<s>> \in Seq(RuleLifecycle) /\ <<s>> # <<>> /\ Len(<<s>>) = 1 /\ <<s>>[1] = s
  OBVIOUS
<1>2. Root(r, s) = [rule |-> r, path |-> <<s>>]
  BY DEF Root
<1> QED
  BY <1>1, <1>2 DEF VersionRow, State

(* ActiveWasVetted, one version at a time.                                 *)
LEMMA VettedByVersion ==
  ActiveWasVetted <=>
    \A v \in rgVersion : State(v) = "ACTIVE" /\ Len(v.path) > 1 => Vetted(v)
BY DEF ActiveWasVetted, Vetted

(* The same of the next state.                                             *)
LEMMA VettedByVersionNext ==
  ActiveWasVetted' <=>
    \A v \in rgVersion' : State(v) = "ACTIVE" /\ Len(v.path) > 1 => Vetted(v)'
BY DEF ActiveWasVetted, Vetted, State, Successor, Root

(* What vetted a version is never taken back: promotions and events are    *)
(* only added, and an acceptance is pinned to its corpus.                  *)
LEMMA VettedForGood ==
  ASSUME NEW v, Vetted(v), rgPromotion \subseteq rgPromotion', rgEvent \subseteq rgEvent',
         \A p \in Proposal : rgAccepted[p].corpus \in Corpus
                               => rgAccepted'[p].corpus = rgAccepted[p].corpus
  PROVE  Vetted(v)'
<1> USE RuleGovernanceAssumption
<1>1. PICK e \in rgPromotion :
        /\ e.version = v
        /\ \/ e.grounds = "backtest"
           \/ /\ e.grounds = "dual"
              /\ \E s \in rgEvent : Successor(s.version, "ACTIVE") = v /\ s.by # e.by
           \/ /\ e.grounds = "pinned"
              /\ v = Successor(Root(v.rule, "SHADOW"), "ACTIVE")
              /\ <<v.rule, rgAccepted[v.rule].corpus>> \in Passes
  BY DEF Vetted
<1>2. e \in rgPromotion'
  OBVIOUS
<1>3. ASSUME <<v.rule, rgAccepted[v.rule].corpus>> \in Passes
      PROVE  <<v.rule, rgAccepted'[v.rule].corpus>> \in Passes
  BY <1>3
<1> QED
  BY <1>1, <1>2, <1>3 DEF Vetted, Successor, Root

(* A step that adds versions: each added one is vetted if it is ACTIVE.    *)
LEMMA AddingVersions ==
  ASSUME RgInv, rgVersion \subseteq rgVersion', rgVersion' \subseteq VersionRow,
         rgPromotion \subseteq rgPromotion', rgEvent \subseteq rgEvent',
         \A p \in Proposal : rgAccepted[p].corpus \in Corpus
                               => rgAccepted'[p].corpus = rgAccepted[p].corpus,
         \A v \in rgVersion' \ rgVersion : State(v) = "ACTIVE" /\ Len(v.path) > 1 => Vetted(v)'
  PROVE  ActiveWasVetted'
<1> SUFFICES ASSUME NEW v \in rgVersion', State(v) = "ACTIVE", Len(v.path) > 1
             PROVE  Vetted(v)'
  BY VettedByVersionNext
<1>1. CASE v \in rgVersion
  <2>1. Vetted(v)
    BY <1>1, VettedByVersion DEF RgInv
  <2> QED
    BY <2>1, VettedForGood
<1> QED
  BY <1>1

(* The reversals are left alone and no version goes: the count stands.     *)
LEMMA ReversalsStand ==
  ASSUME RgInv, rgVersion \subseteq rgVersion', UNCHANGED rgReversals
  PROVE  SerialCountIsRight'
<1>1. UNCHANGED <<rgTally, rgReversal, rgOverlapped>>
  BY DEF rgReversals
<1> QED
  BY <1>1 DEF RgInv, SerialCountIsRight

(* The seeds are ACTIVE as the first of their chains.                      *)
LEMMA RgInitial == rgInit => RgInv
<1> SUFFICES ASSUME rgInit PROVE RgInv
  OBVIOUS
<1> USE RuleGovernanceAssumption
<1>1. /\ rgPromotion = {} /\ rgTally = 0 /\ rgOverlapped = {}
      /\ rgAccepted = [p \in Proposal |-> NoAcceptance]
      /\ rgReversal = [q \in Reversal |-> NoReversal]
  BY DEF rgInit
<1>2. \A v \in rgVersion : v \in VersionRow /\ ~(Len(v.path) > 1)
  BY RootState DEF rgInit, RuleLifecycle
<1>3. RgTypeOK
  <2>1. NoReversal \in [open : BOOLEAN, version : VersionRow \cup {NoReversal.version}, over : BOOLEAN]
    BY DEF NoReversal
  <2>2. NoAcceptance \in [corpus : Corpus \cup {Nobody}, by : Analyst \cup {Nobody}]
    BY DEF NoAcceptance
  <2> QED
    BY <1>1, <1>2, <2>1, <2>2 DEF RgTypeOK
<1>4. PromotionsHaveVersions
  BY <1>1 DEF PromotionsHaveVersions
<1>5. SerialCountIsRight
  BY <1>1 DEF SerialCountIsRight, NoReversal
<1>6. ActiveWasVetted
  BY <1>2, VettedByVersion
<1> QED
  BY <1>3, <1>4, <1>5, <1>6 DEF RgInv

(* What a lifecycle transition does to the rows.                           *)
LEMMA TransitionRows ==
  ASSUME RgInv, NEW v, NEW to \in RuleLifecycle, NEW grounds, NEW by,
         transitionRuleLifecycle(v, to, grounds, by)
  PROVE  LET next == Successor(v, to) IN
         /\ v \in VersionRow /\ next \in VersionRow
         /\ rgVersion' = rgVersion \cup {next}
         /\ rgPromotion \subseteq rgPromotion' /\ PromotionsHaveVersions'
         /\ next \notin rgVersion => [version |-> next, grounds |-> grounds, by |-> by] \in rgPromotion'
<1> DEFINE next == Successor(v, to)
           row == [version |-> next, grounds |-> grounds, by |-> by]
<1>1. /\ v \in rgVersion /\ rgVersion' = rgVersion \cup {next}
      /\ rgPromotion' = IF \E e \in rgPromotion : e.version = next THEN rgPromotion
                        ELSE rgPromotion \cup {row}
  BY DEF transitionRuleLifecycle
<1>2. v \in VersionRow /\ next \in VersionRow
  BY <1>1, SuccessorState DEF RgInv, RgTypeOK
<1>3. row.version = next
  OBVIOUS
<1> HIDE DEF next, row
<1>4. PromotionsHaveVersions'
  BY <1>1, <1>3 DEF RgInv, PromotionsHaveVersions
<1>5. next \notin rgVersion => row \in rgPromotion'
  BY <1>1 DEF RgInv, PromotionsHaveVersions
<1> QED
  BY <1>1, <1>2, <1>4, <1>5 DEF next, row

(* The five lifecycle routes.                                              *)
LEMMA RoutesKeepRg ==
  ASSUME RgInv, NEW a \in Analyst, NEW v \in rgVersion,
         \/ ratifyRule(a, v) \/ activateWithCases(a, v) \/ promoteShadowRule(a, v)
         \/ deprecateRule(a, v) \/ quarantineRule(a, v)
  PROVE  RgInv'
<1> USE RuleGovernanceAssumption
<1>1. UNCHANGED rgProposals /\ UNCHANGED rgReversals
  BY DEF ratifyRule, activateWithCases, promoteShadowRule, deprecateRule, quarantineRule
<1>2. UNCHANGED rgAccepted
  BY <1>1 DEF rgProposals
<1>3. rgEvent \subseteq rgEvent'
  BY DEF ratifyRule, activateWithCases, promoteShadowRule, deprecateRule, quarantineRule, recordTransition
<1>4. PICK to, grounds, by :
        /\ to \in RuleLifecycle
        /\ transitionRuleLifecycle(v, to, grounds, by)
        /\ to = "ACTIVE" =>
             \/ grounds = "backtest"
             \/ grounds = "dual" /\ \E s \in rgEvent : s.version = v /\ s.by # by
  <2>1. CASE ratifyRule(a, v)
    BY <2>1 DEF ratifyRule, RuleLifecycle
  <2>2. CASE activateWithCases(a, v)
    <3>1. transitionRuleLifecycle(v, "ACTIVE", "backtest", Nobody)
      BY <2>2 DEF activateWithCases, runAndPersistRuleActivationBacktest
    <3> QED
      BY <3>1 DEF RuleLifecycle
  <2>3. CASE promoteShadowRule(a, v)
    <3>1. transitionRuleLifecycle(v, "ACTIVE", "dual", a)
      BY <2>3 DEF promoteShadowRule
    <3>2. \E s \in rgEvent : s.version = v /\ s.by # a
      BY <2>3 DEF promoteShadowRule, mayActivate
    <3> QED
      BY <3>1, <3>2 DEF RuleLifecycle
  <2>4. CASE deprecateRule(a, v)
    BY <2>4 DEF deprecateRule, RuleLifecycle
  <2>5. CASE quarantineRule(a, v)
    BY <2>5 DEF quarantineRule, RuleLifecycle
  <2> QED
    BY <2>1, <2>2, <2>3, <2>4, <2>5
<1> DEFINE next == Successor(v, to)
           row == [version |-> next, grounds |-> grounds, by |-> by]
<1>5. /\ v \in VersionRow /\ next \in VersionRow
      /\ rgVersion' = rgVersion \cup {next}
      /\ rgPromotion \subseteq rgPromotion' /\ PromotionsHaveVersions'
      /\ next \notin rgVersion => row \in rgPromotion'
  BY <1>4, TransitionRows
<1>6. State(next) = to
  BY <1>4, <1>5, SuccessorState
<1>7. RgTypeOK'
  BY <1>1, <1>5 DEF RgInv, RgTypeOK, rgProposals, rgReversals
<1>8. SerialCountIsRight'
  BY <1>1, <1>5, ReversalsStand
<1>9. ASSUME next \notin rgVersion, to = "ACTIVE" PROVE Vetted(next)'
  <2>1. row \in rgPromotion' /\ row.version = next /\ row.grounds = grounds /\ row.by = by
    BY <1>5, <1>9
  <2>2. CASE grounds = "backtest"
    BY <2>1, <2>2 DEF Vetted
  <2>3. CASE grounds = "dual" /\ \E s \in rgEvent : s.version = v /\ s.by # by
    <3>1. PICK s \in rgEvent : s.version = v /\ s.by # by
      BY <2>3
    <3>2. s \in rgEvent' /\ Successor(s.version, "ACTIVE") = next
      BY <3>1, <1>3, <1>9
    <3> HIDE DEF row
    <3>3. \E z \in rgEvent' : Successor(z.version, "ACTIVE") = next /\ z.by # row.by
      BY <3>1, <3>2, <2>1
    <3> HIDE DEF next
    <3> QED
      BY <2>1, <2>3, <3>3 DEF Vetted, Successor
  <2> QED
    BY <2>2, <2>3, <1>4, <1>9
<1> HIDE DEF next, row
<1>10. ActiveWasVetted'
  <2>1. rgVersion' \subseteq VersionRow
    BY <1>7 DEF RgTypeOK
  <2>2. \A w \in rgVersion' \ rgVersion : State(w) = "ACTIVE" /\ Len(w.path) > 1 => Vetted(w)'
    <3> SUFFICES ASSUME NEW w \in rgVersion' \ rgVersion, State(w) = "ACTIVE" PROVE Vetted(w)'
      OBVIOUS
    <3>1. w = next /\ next \notin rgVersion /\ to = "ACTIVE"
      BY <1>5, <1>6
    <3> QED
      BY <3>1, <1>9
  <2> QED
    BY <1>2, <1>3, <1>5, <2>1, <2>2, AddingVersions
<1> QED
  BY <1>5, <1>7, <1>8, <1>10 DEF RgInv

(* Proposals are stored and backtested: no version, no acceptance.         *)
LEMMA ProposalsKeepRg ==
  ASSUME RgInv,
         \/ persistContractRuleProposals \/ persistDiscoveryRuleProposals
         \/ \E a \in Analyst : backtestContractRuleProposals(a) \/ backtestDiscoveryRuleProposals(a)
  PROVE  RgInv'
<1>1. UNCHANGED rgLifecycle /\ UNCHANGED rgAccepted /\ UNCHANGED rgReversals
  BY DEF persistContractRuleProposals, persistDiscoveryRuleProposals, persistRuleProposals,
         backtestContractRuleProposals, backtestDiscoveryRuleProposals, backtestRuleProposals
<1>2. UNCHANGED <<rgVersion, rgPromotion, rgEvent, rgAccepted, rgTally, rgReversal, rgOverlapped>>
  BY <1>1 DEF rgLifecycle, rgReversals
<1>3. RgTypeOK' /\ PromotionsHaveVersions'
  BY <1>2 DEF RgInv, RgTypeOK, PromotionsHaveVersions
<1>4. SerialCountIsRight'
  BY <1>1, <1>2, ReversalsStand
<1>5. ActiveWasVetted'
  BY <1>2, <1>3, AddingVersions DEF RgTypeOK
<1> QED
  BY <1>3, <1>4, <1>5 DEF RgInv

(* An acceptance: one SHADOW version, and a corpus that never changes.     *)
LEMMA AcceptKeepsRg ==
  ASSUME RgInv, NEW a \in Analyst, NEW p \in Proposal, NEW c \in Corpus, acceptRuleProposal(a, p, c)
  PROVE  RgInv'
<1> USE RuleGovernanceAssumption
<1> DEFINE next == Root(p, "SHADOW")
<1>1. /\ rgAccepted[p] \in {NoAcceptance, [corpus |-> c, by |-> a]}
      /\ rgVersion' = rgVersion \cup {next}
      /\ rgAccepted' = [rgAccepted EXCEPT ![p] = [corpus |-> c, by |-> a]]
      /\ UNCHANGED <<rgPromotion, rgEvent>> /\ UNCHANGED rgReversals
  BY DEF acceptRuleProposal
<1>2. next \in VersionRow /\ State(next) = "SHADOW"
  BY RootState DEF RuleLifecycle
<1> HIDE DEF next
<1>3. RgTypeOK'
  BY <1>1, <1>2 DEF RgInv, RgTypeOK, rgReversals
<1>4. PromotionsHaveVersions'
  BY <1>1 DEF RgInv, PromotionsHaveVersions
<1>5. SerialCountIsRight'
  BY <1>1, ReversalsStand
<1>6. \A x \in Proposal : rgAccepted[x].corpus \in Corpus => rgAccepted'[x].corpus = rgAccepted[x].corpus
  BY <1>1 DEF RgInv, RgTypeOK, NoAcceptance
<1>7. \A v \in rgVersion' \ rgVersion : State(v) # "ACTIVE"
  BY <1>1, <1>2
<1>8. ActiveWasVetted'
  BY <1>1, <1>3, <1>6, <1>7, AddingVersions DEF RgTypeOK
<1> QED
  BY <1>3, <1>4, <1>5, <1>8 DEF RgInv

(* A ratification pins the ACTIVE version to the accepted corpus.          *)
LEMMA RatifyProposalKeepsRg ==
  ASSUME RgInv, NEW a \in Analyst, NEW p \in Proposal, ratifyContractRuleProposal(a, p)
  PROVE  RgInv'
<1> USE RuleGovernanceAssumption
<1> DEFINE accepted == Root(p, "SHADOW")
           active == Successor(accepted, "ACTIVE")
           pin == [version |-> active, grounds |-> "pinned", by |-> a]
<1>1. /\ <<p, rgAccepted[p].corpus>> \in Passes
      /\ rgVersion' = rgVersion \cup {active} /\ rgPromotion' = rgPromotion \cup {pin}
      /\ UNCHANGED rgEvent /\ UNCHANGED rgProposals /\ UNCHANGED rgReversals
  BY DEF ratifyContractRuleProposal
<1>2. accepted \in VersionRow /\ accepted.rule = p
  BY RootState DEF RuleLifecycle, Root
<1>3. active \in VersionRow /\ active.rule = p
  BY <1>2, SuccessorState DEF RuleLifecycle
<1>4. UNCHANGED rgAccepted
  BY <1>1 DEF rgProposals
<1>5. RgTypeOK'
  BY <1>1, <1>3, <1>4 DEF RgInv, RgTypeOK, rgReversals
<1>6. pin.version = active /\ pin.grounds = "pinned"
  OBVIOUS
<1>7. active = Successor(Root(active.rule, "SHADOW"), "ACTIVE")
  BY <1>3
<1> HIDE DEF pin, active
<1>8. PromotionsHaveVersions'
  BY <1>1, <1>6 DEF RgInv, PromotionsHaveVersions
<1>9. SerialCountIsRight'
  BY <1>1, ReversalsStand
<1>10. Vetted(active)'
  <2>1. pin \in rgPromotion' /\ <<active.rule, rgAccepted'[active.rule].corpus>> \in Passes
    BY <1>1, <1>3, <1>4
  <2> QED
    BY <2>1, <1>6, <1>7 DEF Vetted, Successor, Root
<1>11. ActiveWasVetted'
  BY <1>1, <1>4, <1>5, <1>10, AddingVersions DEF RgTypeOK
<1> QED
  BY <1>5, <1>8, <1>9, <1>11 DEF RgInv

(* A reversal counts: its own row and the committed ones.                  *)
LEMMA CountKeepsRg ==
  ASSUME RgInv, NEW q \in Reversal, NEW v \in rgVersion, countReversal(q, v)
  PROVE  RgInv'
<1> USE RuleGovernanceAssumption
<1> DEFINE new == [open |-> TRUE, version |-> v, over |-> rgTally + 1 > MaxReversals]
           others == {x \in Reversal : rgReversal[x].open}
<1>1. /\ ~rgReversal[q].open /\ rgReversal' = [rgReversal EXCEPT ![q] = new]
      /\ rgOverlapped' = IF others = {} THEN rgOverlapped ELSE rgOverlapped \cup others \cup {q}
      /\ UNCHANGED <<rgTally, rgVersion, rgPromotion, rgEvent, rgProposed, rgBacktest, rgAccepted>>
  BY DEF countReversal, tallyWithOwn, rgLifecycle, rgProposals
<1>2. v \in VersionRow /\ rgTally \in Nat
  BY DEF RgInv, RgTypeOK
<1>3. new \in [open : BOOLEAN, version : VersionRow \cup {NoReversal.version}, over : BOOLEAN]
  BY <1>2
<1>4. new.open /\ new.version = v /\ new.over = (rgTally + 1 > MaxReversals)
  OBVIOUS
<1> HIDE DEF new
<1>5. rgOverlapped' \subseteq Reversal
  BY <1>1 DEF RgInv, RgTypeOK
<1>6. RgTypeOK'
  BY <1>1, <1>3, <1>5 DEF RgInv, RgTypeOK
<1>7. \A x \in Reversal : rgReversal'[x] = IF x = q THEN new ELSE rgReversal[x]
  BY <1>1 DEF RgInv, RgTypeOK
<1>8. SerialCountIsRight'
  <2> SUFFICES ASSUME NEW z \in Reversal, rgReversal'[z].open
               PROVE  /\ rgReversal'[z].version \in rgVersion
                      /\ z \notin rgOverlapped' =>
                           /\ rgReversal'[z].over = (rgTally + 1 > MaxReversals)
                           /\ \A x \in Reversal : rgReversal'[x].open => x = z
    BY <1>1 DEF SerialCountIsRight
  <2>1. CASE z = q
    BY <2>1, <1>1, <1>4, <1>7
  <2>2. CASE z # q
    <3>1. rgReversal'[z] = rgReversal[z] /\ z \in rgOverlapped'
      BY <2>2, <1>1, <1>7
    <3> QED
      BY <3>1 DEF RgInv, SerialCountIsRight
  <2> QED
    BY <2>1, <2>2
<1>9. ActiveWasVetted' /\ PromotionsHaveVersions'
  BY <1>1, <1>6, AddingVersions DEF RgInv, RgTypeOK, PromotionsHaveVersions
<1> QED
  BY <1>6, <1>8, <1>9 DEF RgInv

(* A reversal commits: another that is still in flight overlapped it.      *)
LEMMA ReversalKeepsRg ==
  ASSUME RgInv, NEW q \in Reversal, recordHumanOverrideReversal(q)
  PROVE  RgInv'
<1> USE RuleGovernanceAssumption
<1> DEFINE x == rgReversal[q]
<1>1. /\ x.open /\ rgTally' = rgTally + 1
      /\ rgReversal' = [rgReversal EXCEPT ![q] = NoReversal]
      /\ \/ x.over /\ transitionRuleLifecycle(x.version, "QUARANTINED", "none", Nobody)
         \/ ~x.over /\ UNCHANGED <<rgVersion, rgPromotion>>
      /\ rgOverlapped' = rgOverlapped \ {q}
      /\ UNCHANGED <<rgEvent, rgAccepted>>
  BY DEF recordHumanOverrideReversal, rgProposals
<1>2. rgTally \in Nat /\ x.version \in rgVersion
  BY <1>1 DEF RgInv, RgTypeOK, SerialCountIsRight
<1>3. /\ rgVersion \subseteq rgVersion' /\ rgVersion' \subseteq VersionRow
      /\ rgPromotion \subseteq rgPromotion' /\ PromotionsHaveVersions'
      /\ \A v \in rgVersion' \ rgVersion : State(v) # "ACTIVE"
  <2>1. CASE x.over /\ transitionRuleLifecycle(x.version, "QUARANTINED", "none", Nobody)
    <3> DEFINE next == Successor(x.version, "QUARANTINED")
    <3>1. /\ x.version \in VersionRow /\ next \in VersionRow
          /\ rgVersion' = rgVersion \cup {next}
          /\ rgPromotion \subseteq rgPromotion' /\ PromotionsHaveVersions'
      BY <2>1, TransitionRows DEF RuleLifecycle
    <3>2. State(next) = "QUARANTINED"
      BY <3>1, SuccessorState DEF RuleLifecycle
    <3> HIDE DEF next, x
    <3> QED
      BY <3>1, <3>2 DEF RgInv, RgTypeOK
  <2>2. CASE ~x.over /\ UNCHANGED <<rgVersion, rgPromotion>>
    BY <2>2 DEF RgInv, RgTypeOK, PromotionsHaveVersions
  <2> QED
    BY <1>1, <2>1, <2>2
<1>4. /\ RgTypeOK'
      /\ \A z \in Reversal : rgReversal'[z] = IF z = q THEN NoReversal ELSE rgReversal[z]
  <2>1. NoReversal \in [open : BOOLEAN, version : VersionRow \cup {NoReversal.version}, over : BOOLEAN]
    BY DEF NoReversal
  <2> QED
    BY <1>1, <1>2, <1>3, <2>1 DEF RgInv, RgTypeOK
<1>5. ActiveWasVetted'
  BY <1>1, <1>3, AddingVersions
<1>6. SerialCountIsRight'
  <2> SUFFICES ASSUME NEW z \in Reversal, rgReversal'[z].open
               PROVE  rgReversal'[z].version \in rgVersion' /\ z \in rgOverlapped'
    BY DEF SerialCountIsRight
  <2>1. z # q /\ rgReversal'[z] = rgReversal[z]
    BY <1>4 DEF NoReversal
  <2> QED
    BY <2>1, <1>1, <1>3 DEF RgInv, SerialCountIsRight
<1> QED
  BY <1>3, <1>4, <1>5, <1>6 DEF RgInv

(* An amendment deprecates and proposes: it activates nothing.             *)
LEMMA RetireKeepsRg ==
  ASSUME RgInv, NEW rules, NEW changed, retireAmendedRules(rules, changed)
  PROVE  RgInv'
<1> USE RuleGovernanceAssumption
<1> DEFINE affected == {v \in rgVersion : v.rule \in rules /\ State(v) = "ACTIVE"}
           retired == {Successor(v, "DEPRECATED") : v \in affected}
           replaced == IF changed THEN {Successor(v, "PROPOSED") : v \in retired} ELSE {}
           rows == {[version |-> v, grounds |-> "none", by |-> Nobody] : v \in retired}
<1>1. /\ rgVersion' = rgVersion \cup retired \cup replaced
      /\ rgPromotion' = rgPromotion \cup rows
      /\ UNCHANGED rgEvent /\ UNCHANGED rgProposals /\ UNCHANGED rgReversals
  BY DEF retireAmendedRules
<1>2. \A v \in retired : v \in VersionRow /\ State(v) = "DEPRECATED"
  BY SuccessorState DEF RgInv, RgTypeOK, RuleLifecycle
<1>3. \A v \in replaced : v \in VersionRow /\ State(v) = "PROPOSED"
  BY <1>2, SuccessorState DEF RuleLifecycle
<1>4. \A e \in rows : e.version \in retired
  OBVIOUS
<1>5. UNCHANGED rgAccepted
  BY <1>1 DEF rgProposals
<1> HIDE DEF retired, replaced, rows
<1>6. rgVersion' \subseteq VersionRow
  BY <1>1, <1>2, <1>3 DEF RgInv, RgTypeOK
<1>7. RgTypeOK'
  BY <1>1, <1>5, <1>6 DEF RgInv, RgTypeOK, rgReversals
<1>8. PromotionsHaveVersions'
  BY <1>1, <1>4 DEF RgInv, PromotionsHaveVersions
<1>9. SerialCountIsRight'
  BY <1>1, ReversalsStand
<1>10. \A v \in rgVersion' \ rgVersion : State(v) # "ACTIVE"
  BY <1>1, <1>2, <1>3
<1>11. ActiveWasVetted'
  BY <1>1, <1>5, <1>6, <1>10, AddingVersions
<1> QED
  BY <1>7, <1>8, <1>9, <1>11 DEF RgInv

(* No step breaks the invariant.                                           *)
LEMMA RgStep == RgInv /\ [rgNext]_rgVars => RgInv'
<1> SUFFICES ASSUME RgInv, [rgNext]_rgVars PROVE RgInv'
  OBVIOUS
<1>1. CASE UNCHANGED rgVars
  <2>1. UNCHANGED <<rgVersion, rgPromotion, rgEvent, rgAccepted, rgTally, rgReversal, rgOverlapped>>
    BY <1>1 DEF rgVars
  <2>2. RgTypeOK' /\ PromotionsHaveVersions'
    BY <2>1 DEF RgInv, RgTypeOK, PromotionsHaveVersions
  <2>3. SerialCountIsRight'
    BY <2>1, ReversalsStand DEF rgReversals
  <2>4. ActiveWasVetted'
    BY <2>1, <2>2, AddingVersions DEF RgTypeOK
  <2> QED
    BY <2>2, <2>3, <2>4 DEF RgInv
<1>2. CASE \E a \in Analyst, v \in rgVersion :
             \/ ratifyRule(a, v) \/ activateWithCases(a, v) \/ promoteShadowRule(a, v)
             \/ deprecateRule(a, v) \/ quarantineRule(a, v)
  BY <1>2, RoutesKeepRg
<1>3. CASE \/ persistContractRuleProposals \/ persistDiscoveryRuleProposals
           \/ \E a \in Analyst : backtestContractRuleProposals(a) \/ backtestDiscoveryRuleProposals(a)
  BY <1>3, ProposalsKeepRg
<1>4. CASE \E a \in Analyst, p \in Proposal :
             \/ ratifyContractRuleProposal(a, p)
             \/ \E c \in Corpus : \/ acceptContractRuleProposal(a, p, c)
                                  \/ acceptDiscoveryRuleProposal(a, p, c)
  BY <1>4, RatifyProposalKeepsRg, AcceptKeepsRg DEF acceptContractRuleProposal, acceptDiscoveryRuleProposal
<1>5. CASE \E q \in Reversal : recordHumanOverrideReversal(q) \/ \E v \in rgVersion : countReversal(q, v)
  BY <1>5, ReversalKeepsRg, CountKeepsRg
<1>6. CASE \E changed \in BOOLEAN : retireAmendedRules(Proposal \ Discovered, changed)
  BY <1>6, RetireKeepsRg
<1> QED
  BY <1>1, <1>2, <1>3, <1>4, <1>5, <1>6 DEF rgNext

(* The invariant holds throughout.                                         *)
LEMMA RuleGovernanceInvariant == rgSpec => []RgInv
BY RgInitial, RgStep, PTL DEF rgSpec

(* Past the seeds no version is ACTIVE on one person's word, for any       *)
(* number of rules, proposals, corpora and analysts and any fork of the    *)
(* chain of versions (transitionRuleLifecycle, promoteShadowRule,          *)
(* ratifyContractRuleProposal).                                            *)
THEOREM ActivationsAreVetted == rgSpec => []ActiveWasVetted
<1>1. RgInv => ActiveWasVetted
  BY DEF RgInv
<1> QED
  BY <1>1, RuleGovernanceInvariant, PTL

(* Only the commit of a reversal takes it out of flight.                   *)
LEMMA OnlyCommitsClose ==
  ASSUME RgInv, rgNext, NEW q \in Reversal, rgReversal[q].open, ~rgReversal'[q].open
  PROVE  recordHumanOverrideReversal(q)
<1>1. ~ UNCHANGED rgReversals
  BY DEF rgReversals
<1>2. ASSUME NEW a \in Analyst, NEW v \in rgVersion,
             \/ ratifyRule(a, v) \/ activateWithCases(a, v) \/ promoteShadowRule(a, v)
             \/ deprecateRule(a, v) \/ quarantineRule(a, v)
      PROVE  FALSE
  BY <1>1, <1>2 DEF ratifyRule, activateWithCases, promoteShadowRule, deprecateRule, quarantineRule
<1>3. ASSUME \/ persistContractRuleProposals \/ persistDiscoveryRuleProposals
             \/ \E a \in Analyst : backtestContractRuleProposals(a) \/ backtestDiscoveryRuleProposals(a)
      PROVE  FALSE
  BY <1>1, <1>3 DEF persistContractRuleProposals, persistDiscoveryRuleProposals, persistRuleProposals,
         backtestContractRuleProposals, backtestDiscoveryRuleProposals, backtestRuleProposals
<1>4. ASSUME NEW a \in Analyst, NEW p \in Proposal,
             \/ ratifyContractRuleProposal(a, p)
             \/ \E c \in Corpus : \/ acceptContractRuleProposal(a, p, c)
                                  \/ acceptDiscoveryRuleProposal(a, p, c)
      PROVE  FALSE
  BY <1>1, <1>4 DEF ratifyContractRuleProposal, acceptContractRuleProposal, acceptDiscoveryRuleProposal,
         acceptRuleProposal
<1>5. ASSUME NEW changed \in BOOLEAN, retireAmendedRules(Proposal \ Discovered, changed)
      PROVE  FALSE
  BY <1>1, <1>5 DEF retireAmendedRules
<1>6. ASSUME NEW z \in Reversal, NEW v \in rgVersion, countReversal(z, v)
      PROVE  FALSE
  BY <1>6 DEF countReversal, RgInv, RgTypeOK
<1>7. ASSUME NEW z \in Reversal, recordHumanOverrideReversal(z)
      PROVE  z = q
  BY <1>7 DEF recordHumanOverrideReversal, RgInv, RgTypeOK
<1> QED
  BY <1>2, <1>3, <1>4, <1>5, <1>6, <1>7 DEF rgNext

(* A reversal that no other overlapped and that exceeds the policy has     *)
(* counted right, and quarantines the version it names.                    *)
LEMMA LoneReversal ==
  ASSUME RgInv, rgNext, NEW q \in Reversal \ rgOverlapped,
         rgReversal[q].open, ~rgReversal'[q].open, rgTally' > MaxReversals
  PROVE  Successor(rgReversal[q].version, "QUARANTINED") \in rgVersion'
<1>1. recordHumanOverrideReversal(q)
  BY OnlyCommitsClose
<1>2. rgTally' = rgTally + 1
  BY <1>1 DEF recordHumanOverrideReversal
<1>3. rgReversal[q].over
  BY <1>2 DEF RgInv, SerialCountIsRight
<1>4. transitionRuleLifecycle(rgReversal[q].version, "QUARANTINED", "none", Nobody)
  BY <1>1, <1>3 DEF recordHumanOverrideReversal
<1> QED
  BY <1>4 DEF transitionRuleLifecycle

(* A reversal in flight alone quarantines the version it reverses as soon  *)
(* as the policy's number is exceeded, whatever was missed before          *)
(* (recordHumanOverrideReversal, quarantineOnReversal).                    *)
THEOREM ReversalsQuarantine == rgSpec => LoneReversalQuarantines
<1> DEFINE Kept == \A q \in Reversal \ rgOverlapped :
             rgReversal[q].open /\ ~rgReversal'[q].open /\ rgTally' > MaxReversals =>
                 Successor(rgReversal[q].version, "QUARANTINED") \in rgVersion'
<1>1. RgInv /\ [rgNext]_rgVars => [Kept]_rgVars
  BY LoneReversal
<1>2. [][Kept]_rgVars <=> LoneReversalQuarantines
  BY DEF LoneReversalQuarantines
<1> QED
  BY <1>1, <1>2, RuleGovernanceInvariant, PTL DEF rgSpec

-----------------------------------------------------------------------------
(* The console.                                                            *)

(* Whatever analysts click, and in whichever order answers arrive, the     *)
(* console does to rules only what the lifecycle routes do                 *)
(* (transitionRule).                                                       *)
THEOREM ConsoleKeepsToTheRoutes == wsSpec => rgSpec
<1>1. wsInit => rgInit
  BY DEF wsInit
<1>2. [wsNext]_<<rgVars, wsVars>> => [rgNext]_rgVars
  <2> SUFFICES ASSUME [wsNext]_<<rgVars, wsVars>> PROVE [rgNext]_rgVars
    OBVIOUS
  <2>1. ASSUME NEW a \in Analyst, NEW to \in RuleLifecycle, NEW l \in ListLoad, runAction(a, to, l)
        PROVE  rgNext
    <3> DEFINE v == wsDetail[a]
    <3>1. transitionRule(a, v, to)
      BY <2>1 DEF runAction
    <3>2. ratifyRule(a, v) \/ promoteShadowRule(a, v) \/ deprecateRule(a, v) \/ quarantineRule(a, v)
      BY <3>1 DEF transitionRule
    <3>3. v \in rgVersion
      BY <3>2 DEF ratifyRule, promoteShadowRule, deprecateRule, quarantineRule, transitionRuleLifecycle
    <3> HIDE DEF v
    <3> QED
      BY <3>2, <3>3 DEF rgNext
  <2>2. CASE UNCHANGED rgVars
    BY <2>2
  <2> QED
    BY <2>1, <2>2 DEF wsNext, setStatusFilter, fetchRules, showRules, openSheet, fetchRuleDetail, closeSheet
<1> QED
  BY <1>1, <1>2, PTL DEF wsSpec, rgSpec

ListRequest == [phase : {"idle", "asked", "answered"}, filter : RuleLifecycle \cup {"all"},
                rows : SUBSET rgVersion]

WsTypeOK ==
    /\ wsFilter \in [Analyst -> RuleLifecycle \cup {"all"}]
    /\ wsRows \in [Analyst -> SUBSET rgVersion]
    /\ wsBusy \in [Analyst -> BOOLEAN]
    /\ wsLoad \in [Analyst -> [ListLoad -> ListRequest]]
    /\ wsOpen \in [Analyst -> rgVersion \cup {Closed}]
    /\ wsDetail \in [Analyst -> rgVersion \cup {Closed}]
    /\ wsRaced \in BOOLEAN

OneHeadPerRule == \A v, w \in Heads : v.rule = w.rule => v = w

(* What an analyst can act on is up to date: a list that shows rows, and   *)
(* an answer on its way, hold heads only; a sheet is open on a head, with  *)
(* no list on its way; and its detail is of the row that was clicked.      *)
TabIsFresh(a) ==
    /\ ~wsBusy[a] => wsRows[a] \subseteq Heads /\ \A l \in ListLoad : wsLoad[a][l].phase = "idle"
    /\ \A l \in ListLoad :
         /\ wsLoad[a][l].rows \subseteq Heads
         /\ wsLoad[a][l].phase = "idle" => wsLoad[a][l].rows = {}
    /\ wsOpen[a] # Closed => ~wsBusy[a] /\ wsOpen[a] \in Heads
    /\ wsDetail[a] # Closed => wsDetail[a] = wsOpen[a]

WsInv ==
    /\ RgInv /\ WsTypeOK
    /\ ~wsRaced => OneHeadPerRule /\ \A a \in Analyst : TabIsFresh(a)

(* At most one rule, every tab waiting for its first list.                 *)
LEMMA WsInitial == wsInit => WsInv
<1> SUFFICES ASSUME wsInit PROVE WsInv
  OBVIOUS
<1>1. PICK l \in ListLoad : wsLoad =
         [a \in Analyst |-> [[m \in ListLoad |-> NoList] EXCEPT ![l].phase = "asked"]]
  BY DEF wsInit
<1>2. /\ wsFilter = [a \in Analyst |-> "all"] /\ wsRows = [a \in Analyst |-> {}]
      /\ wsBusy = [a \in Analyst |-> TRUE]
      /\ wsOpen = [a \in Analyst |-> Closed] /\ wsDetail = [a \in Analyst |-> Closed]
      /\ wsRaced = FALSE
  BY DEF wsInit
<1>3. RgInv
  BY RgInitial DEF wsInit
<1>4. \A a \in Analyst, m \in ListLoad : wsLoad[a][m] \in ListRequest /\ wsLoad[a][m].rows = {}
  BY <1>1 DEF NoList, ListRequest
<1>5. wsLoad \in [Analyst -> [ListLoad -> ListRequest]]
  BY <1>1, <1>4
<1>6. WsTypeOK
  BY <1>2, <1>5 DEF WsTypeOK
<1>7. OneHeadPerRule
  BY DEF wsInit, rgInit, OneHeadPerRule, Heads
<1>8. \A a \in Analyst : TabIsFresh(a)
  BY <1>2, <1>4 DEF TabIsFresh
<1> QED
  BY <1>3, <1>6, <1>7, <1>8 DEF WsInv

(* A step of one tab that leaves the rules alone: it is enough that this   *)
(* tab stays fresh.                                                        *)
LEMMA TabStep ==
  ASSUME WsInv, NEW a \in Analyst, UNCHANGED rgVars, WsTypeOK', wsRaced => wsRaced',
         \A b \in Analyst \ {a} :
            /\ wsRows'[b] = wsRows[b] /\ wsBusy'[b] = wsBusy[b] /\ wsLoad'[b] = wsLoad[b]
            /\ wsOpen'[b] = wsOpen[b] /\ wsDetail'[b] = wsDetail[b],
         ~wsRaced' => TabIsFresh(a)'
  PROVE  WsInv'
<1>1. UNCHANGED <<rgVersion, rgPromotion, rgEvent, rgProposed, rgBacktest, rgAccepted,
                  rgTally, rgReversal, rgOverlapped>>
  BY DEF rgVars
<1>2. RgInv'
  BY RgStep DEF WsInv
<1>3. Heads' = Heads
  BY <1>1 DEF Heads, Successor
<1>4. ASSUME ~wsRaced' PROVE OneHeadPerRule' /\ \A b \in Analyst : TabIsFresh(b)'
  <2>1. OneHeadPerRule /\ \A b \in Analyst : TabIsFresh(b)
    BY <1>4 DEF WsInv
  <2>2. OneHeadPerRule'
    BY <2>1, <1>3 DEF OneHeadPerRule
  <2>3. ASSUME NEW b \in Analyst \ {a} PROVE TabIsFresh(b)'
    BY <2>1, <2>3, <1>3 DEF TabIsFresh
  <2> QED
    BY <2>2, <2>3, <1>4
<1> QED
  BY <1>2, <1>4 DEF WsInv
(* A filter is chosen: the list is blank until an answer is shown.         *)
LEMMA FilterKeepsWs ==
  ASSUME WsInv, NEW a \in Analyst, NEW l \in ListLoad, NEW filter \in StatusFilter,
         setStatusFilter(a, l, filter)
  PROVE  WsInv'
<1> USE RuleSheetAssumption
<1> DEFINE new == [NoList EXCEPT !.phase = "asked", !.filter = filter]
<1>1. /\ wsOpen[a] = Closed /\ wsFilter' = [wsFilter EXCEPT ![a] = filter]
      /\ wsLoad' = [wsLoad EXCEPT ![a][l] = new] /\ wsBusy' = [wsBusy EXCEPT ![a] = TRUE]
      /\ UNCHANGED <<wsRows, wsOpen, wsDetail, wsAsked, wsRaced>> /\ UNCHANGED rgVars
  BY DEF setStatusFilter, wsLoadList
<1>2. new \in ListRequest /\ new.rows = {}
  BY DEF NoList, ListRequest
<1> HIDE DEF new
<1>3. rgVersion' = rgVersion /\ ListRequest' = ListRequest
  BY <1>1 DEF rgVars, ListRequest
<1>4. WsTypeOK'
  BY <1>1, <1>2, <1>3 DEF WsInv, WsTypeOK
<1>5. ASSUME ~wsRaced' PROVE TabIsFresh(a)'
  <2>1. TabIsFresh(a)
    BY <1>1, <1>5 DEF WsInv
  <2>2. Heads' = Heads
    BY <1>3 DEF Heads, Successor
  <2>3. wsBusy'[a] /\ \A m \in ListLoad : wsLoad'[a][m] = IF m = l THEN new ELSE wsLoad[a][m]
    BY <1>1 DEF WsInv, WsTypeOK
  <2> QED
    BY <2>1, <2>2, <2>3, <1>1, <1>2 DEF TabIsFresh
<1>6. \A b \in Analyst \ {a} : wsBusy'[b] = wsBusy[b] /\ wsLoad'[b] = wsLoad[b]
  BY <1>1 DEF WsInv, WsTypeOK
<1> QED
  BY <1>1, <1>4, <1>5, <1>6, TabStep

(* The server answers with heads, or the request fails with nothing.       *)
LEMMA FetchRulesKeepsWs ==
  ASSUME WsInv, NEW a \in Analyst, NEW l \in ListLoad, fetchRules(a, l)
  PROVE  WsInv'
<1>1. PICK rows \in {{}, listRules(wsLoad[a][l].filter)} :
        wsLoad' = [wsLoad EXCEPT ![a][l].phase = "answered", ![a][l].rows = rows]
  BY DEF fetchRules
<1>2. /\ wsLoad[a][l].phase = "asked"
      /\ UNCHANGED <<wsFilter, wsRows, wsBusy, wsOpen, wsDetail, wsAsked, wsRaced>> /\ UNCHANGED rgVars
  BY DEF fetchRules
<1>3. rows \subseteq Heads /\ rows \subseteq rgVersion
  BY <1>1 DEF listRules, Heads
<1> DEFINE old == wsLoad[a][l]
           new == [[old EXCEPT !.phase = "answered"] EXCEPT !.rows = rows]
<1>4. wsLoad \in [Analyst -> [ListLoad -> ListRequest]]
  BY DEF WsInv, WsTypeOK
<1>5. new \in ListRequest /\ new.rows = rows /\ new.phase = "answered"
  <2>1. old \in ListRequest
    BY <1>4
  <2> HIDE DEF old
  <2> QED
    BY <1>3, <2>1 DEF ListRequest
<1>6. /\ wsLoad' \in [Analyst -> [ListLoad -> ListRequest]]
      /\ \A b \in Analyst, m \in ListLoad :
           wsLoad'[b][m] = IF b = a /\ m = l THEN new ELSE wsLoad[b][m]
  <2>1. wsLoad'[a][l] = new
    BY <1>1, <1>4
  <2>2. \A b \in Analyst, m \in ListLoad : ~(b = a /\ m = l) => wsLoad'[b][m] = wsLoad[b][m]
    BY <1>1, <1>4
  <2>3. /\ wsLoad' = [b \in Analyst |-> wsLoad'[b]]
        /\ \A b \in Analyst : wsLoad'[b] = [m \in ListLoad |-> wsLoad'[b][m]]
    BY <1>1, <1>4
  <2> HIDE DEF old, new
  <2> QED
    BY <1>4, <1>5, <2>1, <2>2, <2>3
<1> HIDE DEF new
<1>7. rgVersion' = rgVersion /\ ListRequest' = ListRequest
  BY <1>2 DEF rgVars, ListRequest
<1>8. WsTypeOK'
  BY <1>2, <1>5, <1>6, <1>7 DEF WsInv, WsTypeOK
<1>9. ASSUME ~wsRaced' PROVE TabIsFresh(a)'
  <2>1. TabIsFresh(a)
    BY <1>2, <1>9 DEF WsInv
  <2>2. Heads' = Heads
    BY <1>7 DEF Heads, Successor
  <2>3. \A m \in ListLoad : wsLoad'[a][m] = IF m = l THEN new ELSE wsLoad[a][m]
    BY <1>4, <1>6
  <2>4. wsBusy[a]
    BY <2>1, <1>2 DEF TabIsFresh
  <2> QED
    BY <2>1, <2>2, <2>3, <2>4, <1>2, <1>3, <1>5 DEF TabIsFresh
<1>10. \A b \in Analyst \ {a} : wsLoad'[b] = wsLoad[b]
  BY <1>4, <1>6
<1> QED
  BY <1>2, <1>8, <1>9, <1>10, TabStep

(* An answer is shown: the only one on its way, or it was a race.          *)
LEMMA ShowKeepsWs ==
  ASSUME WsInv, NEW a \in Analyst, NEW l \in ListLoad, showRules(a, l)
  PROVE  WsInv'
<1>1. /\ wsLoad[a][l].phase = "answered"
      /\ wsRows' = [wsRows EXCEPT ![a] = wsLoad[a][l].rows]
      /\ wsBusy' = [wsBusy EXCEPT ![a] = FALSE]
      /\ wsLoad' = [wsLoad EXCEPT ![a][l] = NoList]
      /\ wsRaced' = (wsRaced \/ \E m \in ListLoad \ {l} : wsLoad[a][m].phase # "idle")
      /\ UNCHANGED <<wsFilter, wsOpen, wsDetail, wsAsked>> /\ UNCHANGED rgVars
  BY DEF showRules
<1>2. NoList \in ListRequest /\ NoList.rows = {} /\ NoList.phase = "idle"
  BY DEF NoList, ListRequest
<1>3. rgVersion' = rgVersion /\ ListRequest' = ListRequest
  BY <1>1 DEF rgVars, ListRequest
<1>4. wsLoad[a][l].rows \in SUBSET rgVersion
  BY DEF WsInv, WsTypeOK, ListRequest
<1>5. wsRaced' \in BOOLEAN
  BY <1>1, Zenon
<1>6. WsTypeOK'
  BY <1>1, <1>2, <1>3, <1>4, <1>5 DEF WsInv, WsTypeOK
<1>7. /\ ~wsBusy'[a] /\ wsRows'[a] = wsLoad[a][l].rows
      /\ \A m \in ListLoad : wsLoad'[a][m] = IF m = l THEN NoList ELSE wsLoad[a][m]
  BY <1>1 DEF WsInv, WsTypeOK
<1>8. ASSUME ~wsRaced' PROVE TabIsFresh(a)'
  <2>1. TabIsFresh(a) /\ \A m \in ListLoad \ {l} : wsLoad[a][m].phase = "idle"
    BY <1>1, <1>8 DEF WsInv
  <2>2. Heads' = Heads
    BY <1>3 DEF Heads, Successor
  <2>3. wsOpen[a] = Closed
    BY <2>1, <1>1 DEF TabIsFresh
  <2>4. ASSUME NEW m \in ListLoad PROVE wsLoad'[a][m].phase = "idle" /\ wsLoad'[a][m].rows = {}
    <3>1. CASE m = l
      BY <3>1, <1>2, <1>7
    <3>2. CASE m # l
      <4>1. wsLoad'[a][m] = wsLoad[a][m] /\ wsLoad[a][m].phase = "idle"
        BY <3>2, <2>1, <1>7
      <4>2. wsLoad[a][m].phase = "idle" => wsLoad[a][m].rows = {}
        BY <2>1 DEF TabIsFresh
      <4> QED
        BY <4>1, <4>2
    <3> QED
      BY <3>1, <3>2
  <2>5. wsRows'[a] \subseteq Heads'
    <3>1. wsLoad[a][l].rows \subseteq Heads
      BY <2>1 DEF TabIsFresh
    <3> QED
      BY <3>1, <2>2, <1>7
  <2>6. wsOpen'[a] = Closed /\ (wsDetail'[a] # Closed => wsDetail'[a] = wsOpen'[a])
    BY <2>1, <2>3, <1>1 DEF TabIsFresh
  <2> QED
    BY <2>4, <2>5, <2>6 DEF TabIsFresh
<1>9. \A b \in Analyst \ {a} : wsBusy'[b] = wsBusy[b] /\ wsLoad'[b] = wsLoad[b] /\ wsRows'[b] = wsRows[b]
  BY <1>1 DEF WsInv, WsTypeOK
<1> QED
  BY <1>1, <1>6, <1>8, <1>9, TabStep

(* The sheet opens on a row of the list, closes, and gets its detail.      *)
LEMMA SheetKeepsWs ==
  ASSUME WsInv, NEW a \in Analyst,
         closeSheet(a) \/ \E v \in rgVersion : openSheet(a, v) \/ fetchRuleDetail(a, v)
  PROVE  WsInv'
<1>1. UNCHANGED rgVars /\ UNCHANGED <<wsFilter, wsRows, wsBusy, wsLoad>>
  BY DEF closeSheet, openSheet, fetchRuleDetail
<1>2. rgVersion' = rgVersion /\ ListRequest' = ListRequest
  BY <1>1 DEF rgVars, ListRequest
<1>3. Heads' = Heads
  BY <1>2 DEF Heads, Successor
<1> DEFINE Sheet(o, d, r) ==
        /\ o \in rgVersion \cup {Closed} /\ d \in rgVersion \cup {Closed} /\ r \in BOOLEAN
        /\ wsOpen' = [wsOpen EXCEPT ![a] = o] /\ wsDetail' = [wsDetail EXCEPT ![a] = d]
        /\ wsRaced' = (wsRaced \/ r)
        /\ ~r => \/ o = Closed /\ d = Closed
                 \/ wsOpen[a] = Closed /\ ~wsBusy[a] /\ o \in wsRows[a] /\ d = wsDetail[a]
                 \/ o = wsOpen[a] /\ d \in {o, Closed}
<1>4. PICK o, d, r : Sheet(o, d, r)
  <2>0. /\ wsOpen \in [Analyst -> rgVersion \cup {Closed}]
        /\ wsDetail \in [Analyst -> rgVersion \cup {Closed}]
        /\ wsRaced \in BOOLEAN
    BY DEF WsInv, WsTypeOK
  <2>1. CASE closeSheet(a)
    <3>1. /\ wsOpen' = [wsOpen EXCEPT ![a] = Closed] /\ wsDetail' = [wsDetail EXCEPT ![a] = Closed]
          /\ wsRaced' = (wsRaced \/ FALSE)
      BY <2>0, <2>1 DEF closeSheet
    <3>2. Sheet(Closed, Closed, FALSE)
      BY <3>1
    <3> QED
      BY <3>2
  <2>2. ASSUME NEW v \in rgVersion, openSheet(a, v) PROVE \E o, d, r : Sheet(o, d, r)
    <3>1. /\ wsOpen' = [wsOpen EXCEPT ![a] = v] /\ wsDetail' = [wsDetail EXCEPT ![a] = wsDetail[a]]
          /\ wsRaced' = (wsRaced \/ FALSE)
          /\ wsOpen[a] = Closed /\ ~wsBusy[a] /\ v \in wsRows[a]
      BY <2>0, <2>2 DEF openSheet
    <3>2. wsDetail[a] \in rgVersion \cup {Closed}
      BY <2>0
    <3>3. Sheet(v, wsDetail[a], FALSE)
      BY <3>1, <3>2
    <3> QED
      BY <3>3
  <2>3. ASSUME NEW v \in rgVersion, fetchRuleDetail(a, v) PROVE \E o, d, r : Sheet(o, d, r)
    <3>1. PICK detail \in {v, Closed} : wsDetail' = [wsDetail EXCEPT ![a] = detail]
      BY <2>3 DEF fetchRuleDetail
    <3> DEFINE other == wsOpen[a] # v
    <3>2. /\ wsOpen' = [wsOpen EXCEPT ![a] = wsOpen[a]]
          /\ wsRaced' = (wsRaced \/ other)
      BY <2>0, <2>3 DEF fetchRuleDetail
    <3>3. other \in BOOLEAN /\ (~other => wsOpen[a] = v) /\ wsOpen[a] \in rgVersion \cup {Closed}
      BY <2>0
    <3>4. Sheet(wsOpen[a], detail, other)
      BY <3>1, <3>2, <3>3
    <3> QED
      BY <3>4
  <2> QED
    BY <2>1, <2>2, <2>3
<1>5. WsTypeOK'
  BY <1>1, <1>2, <1>4 DEF WsInv, WsTypeOK
<1>6. wsOpen'[a] = o /\ wsDetail'[a] = d
  BY <1>4 DEF WsInv, WsTypeOK
<1>7. ASSUME ~wsRaced' PROVE TabIsFresh(a)'
  <2>1. TabIsFresh(a) /\ ~r
    BY <1>4, <1>7 DEF WsInv
  <2> QED
    BY <2>1, <1>1, <1>3, <1>4, <1>6 DEF TabIsFresh
<1>8. \A b \in Analyst \ {a} : wsOpen'[b] = wsOpen[b] /\ wsDetail'[b] = wsDetail[b]
  BY <1>4 DEF WsInv, WsTypeOK
<1>9. wsRaced => wsRaced'
  BY <1>4
<1> QED
  BY <1>1, <1>5, <1>7, <1>8, <1>9, TabStep
(* A button of the sheet: the detail is of a head, so the chain grows at   *)
(* its end, and no other analyst has a version of the rule on screen or it *)
(* was a race.                                                             *)
LEMMA ActionKeepsWs ==
  ASSUME WsInv, NEW a \in Analyst, NEW to \in RuleLifecycle, NEW l \in ListLoad, runAction(a, to, l)
  PROVE  WsInv'
<1> DEFINE v == wsDetail[a]
           next == Successor(v, to)
           new == [NoList EXCEPT !.phase = "asked", !.filter = wsFilter[a]]
<1>1. /\ wsOpen[a] # Closed /\ v # Closed /\ transitionRule(a, v, to)
      /\ wsOpen' = [wsOpen EXCEPT ![a] = Closed] /\ wsDetail' = [wsDetail EXCEPT ![a] = Closed]
      /\ wsLoad' = [wsLoad EXCEPT ![a][l] = new] /\ wsBusy' = [wsBusy EXCEPT ![a] = TRUE]
      /\ wsRaced' = (wsRaced \/ \E b \in Analyst \ {a} : looksAt(b, v.rule))
      /\ UNCHANGED <<wsFilter, wsRows, wsAsked>>
  BY DEF runAction, wsLoadList
<1>2. ratifyRule(a, v) \/ promoteShadowRule(a, v) \/ deprecateRule(a, v) \/ quarantineRule(a, v)
  BY <1>1 DEF transitionRule
<1>3. v \in rgVersion /\ rgVersion' = rgVersion \cup {next}
  BY <1>1 DEF transitionRule, ratifyRule, promoteShadowRule, deprecateRule, quarantineRule,
              transitionRuleLifecycle
<1>4. RgInv'
  BY <1>2, <1>3, RoutesKeepRg DEF WsInv
<1>5. new \in ListRequest /\ new.rows = {}
  <2>1. wsFilter[a] \in RuleLifecycle \cup {"all"}
    BY DEF WsInv, WsTypeOK
  <2> QED
    BY <2>1 DEF NoList, ListRequest
<1>6. v \in VersionRow /\ next.rule = v.rule
  BY <1>3, SuccessorState DEF WsInv, RgInv, RgTypeOK
<1> HIDE DEF v, next, new
<1>7. rgVersion \subseteq rgVersion' /\ ListRequest \subseteq ListRequest'
  BY <1>3 DEF ListRequest
<1>8. WsTypeOK'
  <2>1. wsRaced' \in BOOLEAN
    BY <1>1, Zenon
  <2>2. /\ wsRows' \in [Analyst -> SUBSET rgVersion'] /\ wsFilter' \in [Analyst -> RuleLifecycle \cup {"all"}]
        /\ wsBusy' \in [Analyst -> BOOLEAN]
        /\ wsOpen' \in [Analyst -> rgVersion' \cup {Closed}]
        /\ wsDetail' \in [Analyst -> rgVersion' \cup {Closed}]
    BY <1>1, <1>7 DEF WsInv, WsTypeOK
  <2>3. wsLoad' \in [Analyst -> [ListLoad -> ListRequest']]
    <3>1. wsLoad' \in [Analyst -> [ListLoad -> ListRequest]]
      BY <1>1, <1>5 DEF WsInv, WsTypeOK
    <3> QED
      BY <3>1, <1>7
  <2> QED
    BY <2>1, <2>2, <2>3 DEF WsTypeOK
<1>9. ASSUME ~wsRaced' PROVE OneHeadPerRule' /\ \A b \in Analyst : TabIsFresh(b)'
  <2>1. /\ ~wsRaced /\ OneHeadPerRule /\ \A b \in Analyst : TabIsFresh(b)
        /\ \A b \in Analyst \ {a} : ~looksAt(b, v.rule)
    BY <1>1, <1>9 DEF WsInv
  <2>2. v \in Heads /\ \A m \in ListLoad : wsLoad[a][m].rows = {}
    <3>1. wsDetail[a] # Closed /\ TabIsFresh(a)
      BY <2>1, <1>1 DEF v
    <3>2. wsDetail[a] = wsOpen[a] /\ ~wsBusy[a] /\ wsOpen[a] \in Heads
      BY <3>1, <1>1 DEF TabIsFresh
    <3>3. \A m \in ListLoad : wsLoad[a][m].phase = "idle"
      BY <3>1, <3>2 DEF TabIsFresh
    <3>4. \A m \in ListLoad : wsLoad[a][m].phase = "idle" => wsLoad[a][m].rows = {}
      BY <3>1 DEF TabIsFresh
    <3> QED
      BY <3>2, <3>3, <3>4 DEF v
  <2>3. \A w \in Heads' : w \in Heads \ {v} \/ w = next
    BY <1>3 DEF Heads, Successor, next
  <2>4. ASSUME NEW w \in Heads, w.rule # v.rule PROVE w \in Heads'
    <3>1. w \in rgVersion /\ \A s \in RuleLifecycle : Successor(w, s) \notin rgVersion
      BY DEF Heads
    <3>2. \A s \in RuleLifecycle : Successor(w, s).rule = w.rule
      BY DEF Successor
    <3>3. \A s \in RuleLifecycle : Successor(w, s) \notin rgVersion'
      BY <3>1, <3>2, <2>4, <1>3, <1>6
    <3> QED
      BY <3>1, <3>3, <1>7 DEF Heads, Successor
  <2>5. OneHeadPerRule'
    <3> SUFFICES ASSUME NEW x \in Heads', NEW y \in Heads', x.rule = y.rule PROVE x = y
      BY DEF OneHeadPerRule
    <3> QED
      BY <2>1, <2>2, <2>3, <1>6 DEF OneHeadPerRule
  <2>6. TabIsFresh(a)'
    <3>1. /\ wsBusy'[a] /\ wsOpen'[a] = Closed /\ wsDetail'[a] = Closed
          /\ \A m \in ListLoad : wsLoad'[a][m] = IF m = l THEN new ELSE wsLoad[a][m]
      BY <1>1 DEF WsInv, WsTypeOK
    <3> SUFFICES ASSUME NEW m \in ListLoad PROVE wsLoad'[a][m].rows = {}
      BY <3>1 DEF TabIsFresh
    <3>2. CASE m = l
      BY <3>1, <3>2, <1>5
    <3>3. CASE m # l
      BY <3>1, <3>3, <2>2
    <3> QED
      BY <3>2, <3>3
  <2>7. ASSUME NEW b \in Analyst \ {a} PROVE TabIsFresh(b)'
    <3>1. /\ wsRows'[b] = wsRows[b] /\ wsBusy'[b] = wsBusy[b] /\ wsLoad'[b] = wsLoad[b]
          /\ wsOpen'[b] = wsOpen[b] /\ wsDetail'[b] = wsDetail[b]
      BY <1>1 DEF WsInv, WsTypeOK
    <3>2. TabIsFresh(b) /\ ~looksAt(b, v.rule)
      BY <2>1
    <3>3. \A w \in Heads : w \in wsRows[b] \/ w = wsOpen[b] \/ (\E m \in ListLoad : w \in wsLoad[b][m].rows)
            => w \in Heads'
      BY <3>2, <2>4 DEF looksAt, Heads
    <3>4. ~wsBusy'[b] => wsRows'[b] \subseteq Heads' /\ \A m \in ListLoad : wsLoad'[b][m].phase = "idle"
      <4>1. ~wsBusy[b] => wsRows[b] \subseteq Heads /\ \A m \in ListLoad : wsLoad[b][m].phase = "idle"
        BY <3>2 DEF TabIsFresh
      <4> QED
        BY <4>1, <3>1, <3>3
    <3>5. ASSUME NEW m \in ListLoad
          PROVE  wsLoad'[b][m].rows \subseteq Heads' /\ (wsLoad'[b][m].phase = "idle" => wsLoad'[b][m].rows = {})
      <4>1. wsLoad[b][m].rows \subseteq Heads /\ (wsLoad[b][m].phase = "idle" => wsLoad[b][m].rows = {})
        BY <3>2 DEF TabIsFresh
      <4> QED
        BY <4>1, <3>1, <3>3
    <3>6. /\ wsOpen'[b] # Closed => ~wsBusy'[b] /\ wsOpen'[b] \in Heads'
          /\ wsDetail'[b] # Closed => wsDetail'[b] = wsOpen'[b]
      <4>1. /\ wsOpen[b] # Closed => ~wsBusy[b] /\ wsOpen[b] \in Heads
            /\ wsDetail[b] # Closed => wsDetail[b] = wsOpen[b]
        BY <3>2 DEF TabIsFresh
      <4> QED
        BY <4>1, <3>1, <3>3
    <3> QED
      BY <3>4, <3>5, <3>6 DEF TabIsFresh
  <2> QED
    BY <2>5, <2>6, <2>7
<1> QED
  BY <1>4, <1>8, <1>9 DEF WsInv
(* No step breaks the invariant.                                           *)
LEMMA WsStep == WsInv /\ [wsNext]_<<rgVars, wsVars>> => WsInv'
<1> SUFFICES ASSUME WsInv, [wsNext]_<<rgVars, wsVars>> PROVE WsInv'
  OBVIOUS
<1>1. CASE UNCHANGED <<rgVars, wsVars>>
  <2>1. RgInv'
    BY <1>1, RgStep DEF WsInv
  <2>2. UNCHANGED <<rgVersion, wsFilter, wsRows, wsBusy, wsLoad, wsOpen, wsDetail, wsRaced>>
    BY <1>1 DEF rgVars, wsVars
  <2>3. Heads' = Heads /\ ListRequest' = ListRequest
    BY <2>2 DEF Heads, Successor, ListRequest
  <2> QED
    BY <2>1, <2>2, <2>3 DEF WsInv, WsTypeOK, OneHeadPerRule, TabIsFresh
<1>2. ASSUME NEW a \in Analyst, NEW l \in ListLoad,
             \/ \E filter \in StatusFilter : setStatusFilter(a, l, filter)
             \/ fetchRules(a, l) \/ showRules(a, l)
             \/ \E to \in RuleLifecycle : runAction(a, to, l)
      PROVE  WsInv'
  BY <1>2, FilterKeepsWs, FetchRulesKeepsWs, ShowKeepsWs, ActionKeepsWs
<1>3. ASSUME NEW a \in Analyst,
             closeSheet(a) \/ \E v \in rgVersion : openSheet(a, v) \/ fetchRuleDetail(a, v)
      PROVE  WsInv'
  BY <1>3, SheetKeepsWs
<1> QED
  BY <1>1, <1>2, <1>3 DEF wsNext

(* As long as every answer came for what was still asked and nobody else   *)
(* had the rule on screen, the console leaves no rule with two heads, for  *)
(* any number of rules, analysts and requests in flight: it is the page    *)
(* that keeps a chain single, transitionRuleLifecycle does not             *)
(* (RulesTab's load, openSheet and runAction).                             *)
THEOREM ConsoleForksNeedARace == wsSpec => []ForkNeedsARace
<1>1. wsSpec => []WsInv
  BY WsInitial, WsStep, PTL DEF wsSpec
<1>2. WsInv => ForkNeedsARace
  BY DEF WsInv, ForkNeedsARace, OneHeadPerRule
<1> QED
  BY <1>1, <1>2, PTL

(* What the routes keep, they keep behind the console too.                 *)
THEOREM ConsoleActivationsAreVetted == wsSpec => []ActiveWasVetted
BY ConsoleKeepsToTheRoutes, ActivationsAreVetted, PTL
=============================================================================
