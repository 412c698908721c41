---------------------------- MODULE RuleGovernance ----------------------------
(***************************************************************************)
(* The life of a rule: proposals drawn from a verified contract or from    *)
(* audit triggers, their backtests, acceptance and ratification, and the   *)
(* lifecycle routes that move a rule version from state to state.          *)
(*                                                                         *)
(* rule_version is append-only: a transition inserts a successor row, and  *)
(* (predecessor, state) is unique, so a version is the rule it belongs to  *)
(* and the states its chain went through.  A version's own state never     *)
(* changes and nothing asks whether it is still the head of its chain, so  *)
(* a chain can fork.  Every operation is one transaction whose reads are   *)
(* of immutable rows, hence one step, except a reversal, which counts      *)
(* before it commits.  Rationales, hashes and ASTs are left out: a corpus  *)
(* either passes on a proposal's AST or does not.                          *)
(***************************************************************************)
EXTENDS Integers, Sequences, FiniteSets

CONSTANTS
    Seed,         \* the standard rules, seeded as ACTIVE versions
    Proposal,     \* rule proposals
    Discovered,   \* the proposals that come from discovery, not a contract
    Corpus,       \* backtest corpora
    Passes,       \* <<p, c>>: corpus c passes on the AST of proposal p
    Analyst,
    Reversal,     \* reversal requests in flight
    MaxReversals, \* promotion_policy.max_reversals
    MaxTally,     \* bound on reversals
    MaxVersions,  \* bound on rule_version rows
    Nobody

ASSUME RuleGovernanceAssumption ==
    /\ Discovered \subseteq Proposal
    /\ Passes \subseteq Proposal \X Corpus
    /\ Seed \cap Proposal = {}
    /\ MaxReversals \in Nat /\ MaxTally \in Nat /\ MaxVersions \in Nat
    /\ Nobody \notin Analyst \cup Corpus

VARIABLES
    rgVersion,    \* rule_version rows
    rgPromotion,  \* promotion_event rows: version, grounds and analyst
    rgEvent,      \* rule_version audit events: version, analyst and grounds
    rgProposed,   \* proposals persisted
    rgBacktest,   \* who ran a corpus on a proposal
    rgAccepted,   \* acceptance of a proposal: corpus and analyst
    rgTally,      \* reversals recorded on the criterion
    rgReversal,   \* reversal transactions
    rgOverlapped  \* reversals that were in flight with another (history only)

rgVars == <<rgVersion, rgPromotion, rgEvent, rgProposed, rgBacktest, rgAccepted,
            rgTally, rgReversal, rgOverlapped>>
rgLifecycle == <<rgVersion, rgPromotion, rgEvent>>
rgProposals == <<rgProposed, rgBacktest, rgAccepted>>
rgReversals == <<rgTally, rgReversal, rgOverlapped>>

RuleLifecycle == {"PROPOSED", "SHADOW", "ACTIVE", "DEPRECATED", "QUARANTINED"}
ALLOWED ==
    [s \in RuleLifecycle |->
        CASE s = "PROPOSED"    -> {"SHADOW", "QUARANTINED"}
          [] s = "SHADOW"      -> {"ACTIVE", "QUARANTINED"}
          [] s = "ACTIVE"      -> {"DEPRECATED", "QUARANTINED"}
          [] s = "QUARANTINED" -> {"SHADOW"}
          [] s = "DEPRECATED"  -> {}]

Root(r, s) == [rule |-> r, path |-> <<s>>]
State(v) == v.path[Len(v.path)]
Successor(v, s) == [rule |-> v.rule, path |-> Append(v.path, s)]
HasRoom(rows) == Cardinality(rgVersion \cup rows) <= MaxVersions
NoAcceptance == [corpus |-> Nobody, by |-> Nobody]
NoReversal == [open |-> FALSE, version |-> Root(Nobody, "PROPOSED"), over |-> FALSE]

(* seed-criteria.mjs has run, or has not yet.                              *)
rgInit ==
    /\ rgVersion \in {{}} \cup {{Root(r, "ACTIVE")} : r \in Seed}
    /\ rgPromotion = {}
    /\ rgEvent = {}
    /\ rgProposed = {}
    /\ rgBacktest = [x \in Proposal \X Corpus |-> Nobody]
    /\ rgAccepted = [p \in Proposal |-> NoAcceptance]
    /\ rgTally = 0
    /\ rgReversal = [q \in Reversal |-> NoReversal]
    /\ rgOverlapped = {}

-----------------------------------------------------------------------------
(* Lifecycle transitions.                                                  *)

(* assertLifecycleTransition on the version named, head of its chain or    *)
(* not, and the two inserts, each a no-op when the row is there already.   *)
transitionRuleLifecycle(v, to, grounds, by) ==
    LET next == Successor(v, to) IN
    /\ v \in rgVersion
    /\ to \in ALLOWED[State(v)]
    /\ HasRoom({next})
    /\ rgVersion' = rgVersion \cup {next}
    /\ rgPromotion' = IF \E e \in rgPromotion : e.version = next THEN rgPromotion
                      ELSE rgPromotion \cup {[version |-> next, grounds |-> grounds, by |-> by]}

(* writeAuditEvent under an id made from the two versions: a repeat must   *)
(* agree with what is there, or the transaction rolls back.                *)
recordTransition(version, by, grounds) ==
    LET event == [version |-> version, by |-> by, grounds |-> grounds] IN
    /\ \A e \in rgEvent : e.version = version => e = event
    /\ rgEvent' = rgEvent \cup {event}

(* POST /api/rules/:id/ratify                                              *)
ratifyRule(a, v) ==
    /\ transitionRuleLifecycle(v, "SHADOW", "none", Nobody)
    /\ recordTransition(Successor(v, "SHADOW"), a, "none")
    /\ UNCHANGED rgProposals /\ UNCHANGED rgReversals

(* A regression throws, and nothing is stored.                             *)
runAndPersistRuleActivationBacktest(passed) == passed

(* POST /api/rules/:id/activate with cases.  The backtest row is new every *)
(* time (its account is NULL, so nothing conflicts), and so is its id in   *)
(* the event: a repeat always disagrees with the first.                    *)
activateWithCases(a, v) ==
    \E passed \in BOOLEAN :
        /\ runAndPersistRuleActivationBacktest(passed)
        /\ transitionRuleLifecycle(v, "ACTIVE", IF passed THEN "backtest" ELSE "regression",
                                   Nobody)
        /\ \A e \in rgEvent : e.version # Successor(v, "ACTIVE")
        /\ recordTransition(Successor(v, "ACTIVE"), a, "backtest")
        /\ UNCHANGED rgProposals /\ UNCHANGED rgReversals

(* Mutant: anybody may activate what somebody ratified.                    *)
mayActivateAnyone(a, v) == \E e \in rgEvent : e.version = v

(* The analyst who moved the version to SHADOW must be somebody else.      *)
mayActivate(a, v) == \E e \in rgEvent : e.version = v /\ e.by # a

(* POST /api/rules/:id/activate without cases.                             *)
promoteShadowRule(a, v) ==
    /\ mayActivate(a, v)
    /\ transitionRuleLifecycle(v, "ACTIVE", "dual", a)
    /\ recordTransition(Successor(v, "ACTIVE"), a, "dual")
    /\ UNCHANGED rgProposals /\ UNCHANGED rgReversals

(* POST /api/rules/:id/deprecate and /quarantine.                          *)
deprecateRule(a, v) ==
    /\ transitionRuleLifecycle(v, "DEPRECATED", "none", Nobody)
    /\ recordTransition(Successor(v, "DEPRECATED"), a, "none")
    /\ UNCHANGED rgProposals /\ UNCHANGED rgReversals

quarantineRule(a, v) ==
    /\ transitionRuleLifecycle(v, "QUARANTINED", "none", Nobody)
    /\ recordTransition(Successor(v, "QUARANTINED"), a, "none")
    /\ UNCHANGED rgProposals /\ UNCHANGED rgReversals

-----------------------------------------------------------------------------
(* Proposals.                                                              *)

(* A response's proposals go in together; one that is there is found again.*)
persistRuleProposals(kind) ==
    /\ \E batch \in (SUBSET kind) \ {{}} : rgProposed' = rgProposed \cup batch
    /\ UNCHANGED rgLifecycle /\ UNCHANGED <<rgBacktest, rgAccepted>> /\ UNCHANGED rgReversals

persistContractRuleProposals == persistRuleProposals(Proposal \ Discovered)
persistDiscoveryRuleProposals == persistRuleProposals(Discovered)

(* The request must bring a corpus for every proposal there is, and a      *)
(* corpus somebody else ran is a conflict.                                 *)
backtestRuleProposals(a, kind) ==
    LET rows == rgProposed \cap kind IN
    /\ rows # {}
    /\ \E corpus \in [rows -> Corpus] :
         /\ \A p \in rows : rgBacktest[<<p, corpus[p]>>] \in {Nobody, a}
         /\ rgBacktest' = [x \in Proposal \X Corpus |->
                             IF x[1] \in rows /\ corpus[x[1]] = x[2] THEN a ELSE rgBacktest[x]]
    /\ UNCHANGED rgLifecycle /\ UNCHANGED <<rgProposed, rgAccepted>> /\ UNCHANGED rgReversals

backtestContractRuleProposals(a) == backtestRuleProposals(a, Proposal \ Discovered)
backtestDiscoveryRuleProposals(a) == backtestRuleProposals(a, Discovered)

passingBacktest(p, c) == rgBacktest[<<p, c>>] # Nobody /\ <<p, c>> \in Passes

(* One SHADOW version and one acceptance per proposal, pinned to the       *)
(* backtest and the analyst: another of either is a conflict.              *)
acceptRuleProposal(a, p, c) ==
    /\ p \in rgProposed
    /\ passingBacktest(p, c)
    /\ rgAccepted[p] \in {NoAcceptance, [corpus |-> c, by |-> a]}
    /\ HasRoom({Root(p, "SHADOW")})
    /\ rgVersion' = rgVersion \cup {Root(p, "SHADOW")}
    /\ rgAccepted' = [rgAccepted EXCEPT ![p] = [corpus |-> c, by |-> a]]
    /\ UNCHANGED <<rgPromotion, rgEvent, rgProposed, rgBacktest>> /\ UNCHANGED rgReversals

acceptContractRuleProposal(a, p, c) == p \notin Discovered /\ acceptRuleProposal(a, p, c)
acceptDiscoveryRuleProposal(a, p, c) == p \in Discovered /\ acceptRuleProposal(a, p, c)

(* The ACTIVE successor of the accepted version, pinned to backtest and    *)
(* human, or the very same one on a repeat; an ACTIVE successor put there  *)
(* by anybody else is a RATIFICATION_CONFLICT.                             *)
ratifyContractRuleProposal(a, p) ==
    LET accepted == Root(p, "SHADOW")
        active == Successor(accepted, "ACTIVE")
        pin == [version |-> active, grounds |-> "pinned", by |-> a] IN
    /\ p \notin Discovered
    /\ rgAccepted[p] # NoAcceptance /\ accepted \in rgVersion
    /\ <<p, rgAccepted[p].corpus>> \in Passes
    /\ active \in rgVersion => pin \in rgPromotion
    /\ HasRoom({active})
    /\ rgVersion' = rgVersion \cup {active}
    /\ rgPromotion' = rgPromotion \cup {pin}
    /\ UNCHANGED rgEvent /\ UNCHANGED rgProposals /\ UNCHANGED rgReversals

-----------------------------------------------------------------------------
(* Reversals and amendments.                                               *)

(* Mutant: the reversal at hand is not counted.                            *)
tallyBefore(total) == total

(* SUM(reversal_count): the committed rows and the transaction's own.      *)
tallyWithOwn(total) == total + 1

(* The reversal row is in and the rows are counted; nothing is visible to  *)
(* another reversal until the commit.                                      *)
countReversal(q, v) ==
    LET others == {x \in Reversal : rgReversal[x].open} IN
    /\ ~rgReversal[q].open
    /\ rgTally + Cardinality(others) < MaxTally
    /\ v \in rgVersion /\ State(v) = "ACTIVE"
    /\ rgReversal' = [rgReversal EXCEPT ![q] =
         [open |-> TRUE, version |-> v, over |-> tallyWithOwn(rgTally) > MaxReversals]]
    /\ rgOverlapped' = IF others = {} THEN rgOverlapped ELSE rgOverlapped \cup others \cup {q}
    /\ UNCHANGED rgTally /\ UNCHANGED rgLifecycle /\ UNCHANGED rgProposals

(* quarantineOnReversal, and the commit.                                   *)
recordHumanOverrideReversal(q) ==
    LET x == rgReversal[q] IN
    /\ x.open
    /\ rgTally' = rgTally + 1
    /\ rgReversal' = [rgReversal EXCEPT ![q] = NoReversal]
    /\ \/ /\ x.over
          /\ transitionRuleLifecycle(x.version, "QUARANTINED", "none", Nobody)
       \/ ~x.over /\ UNCHANGED <<rgVersion, rgPromotion>>
    /\ rgOverlapped' = rgOverlapped \ {q}
    /\ UNCHANGED rgEvent /\ UNCHANGED rgProposals

(* retireAmendedRules: every ACTIVE version of the rules on an amended     *)
(* clause is deprecated; a changed clause gets a PROPOSED replacement that *)
(* succeeds the deprecated version.                                        *)
retireAmendedRules(rules, changed) ==
    LET affected == {v \in rgVersion : v.rule \in rules /\ State(v) = "ACTIVE"}
        retired == {Successor(v, "DEPRECATED") : v \in affected}
        replaced == IF changed THEN {Successor(v, "PROPOSED") : v \in retired} ELSE {} IN
    /\ affected # {}
    /\ HasRoom(retired \cup replaced)
    /\ rgVersion' = rgVersion \cup retired \cup replaced
    /\ rgPromotion' = rgPromotion \cup
         {[version |-> v, grounds |-> "none", by |-> Nobody] : v \in retired}
    /\ UNCHANGED rgEvent /\ UNCHANGED rgProposals /\ UNCHANGED rgReversals

-----------------------------------------------------------------------------
rgNext ==
    \/ \E a \in Analyst, v \in rgVersion :
         \/ ratifyRule(a, v) \/ activateWithCases(a, v) \/ promoteShadowRule(a, v)
         \/ deprecateRule(a, v) \/ quarantineRule(a, v)
    \/ persistContractRuleProposals \/ persistDiscoveryRuleProposals
    \/ \E a \in Analyst : backtestContractRuleProposals(a) \/ backtestDiscoveryRuleProposals(a)
    \/ \E a \in Analyst, p \in Proposal :
         \/ ratifyContractRuleProposal(a, p)
         \/ \E c \in Corpus : \/ acceptContractRuleProposal(a, p, c)
                              \/ acceptDiscoveryRuleProposal(a, p, c)
    \/ \E q \in Reversal : recordHumanOverrideReversal(q) \/ \E v \in rgVersion : countReversal(q, v)
    \/ \E changed \in BOOLEAN : retireAmendedRules(Proposal \ Discovered, changed)

rgSpec == rgInit /\ [][rgNext]_rgVars

-----------------------------------------------------------------------------
(* Past the seeds, no version becomes ACTIVE on one person's word: either  *)
(* the corpus sent with the activation passed, or the analyst who          *)
(* activated it is not the one who moved its predecessor to SHADOW, or it  *)
(* is the ratified successor of a proposal accepted on a corpus that its   *)
(* AST passes -- whatever forks, repeats and detours through QUARANTINED   *)
(* came before.                                                            *)
ActiveWasVetted ==
    \A v \in rgVersion : State(v) = "ACTIVE" /\ Len(v.path) > 1 =>
        \E e \in rgPromotion :
            /\ e.version = v
            /\ \/ e.grounds = "backtest"
               \/ /\ e.grounds = "dual"
                  /\ \E s \in rgEvent : Successor(s.version, "ACTIVE") = v /\ s.by # e.by
               \/ /\ e.grounds = "pinned"
                  /\ v = Successor(Root(v.rule, "SHADOW"), "ACTIVE")
                  /\ <<v.rule, rgAccepted[v.rule].corpus>> \in Passes

(* A reversal beyond the policy's number quarantines the very version it   *)
(* reverses, unless another reversal was in flight with it: two at once    *)
(* each miss the other's row when they count, and the number can be        *)
(* exceeded unnoticed, but the next reversal that is alone makes up for it.*)
LoneReversalQuarantines ==
    [][\A q \in Reversal \ rgOverlapped :
         rgReversal[q].open /\ ~rgReversal'[q].open /\ rgTally' > MaxReversals =>
             Successor(rgReversal[q].version, "QUARANTINED") \in rgVersion']_rgVars

(* What contracts/README.md says of ratifyContractRuleProposal: it is the  *)
(* only boundary from SHADOW to ACTIVE for a version that comes from a     *)
(* contract proposal, and the database forbids such an ACTIVE version      *)
(* without the ratifying human and the backtest.                           *)
ProposalActiveIsPinned ==
    \A p \in Proposal \ Discovered :
        Successor(Root(p, "SHADOW"), "ACTIVE") \in rgVersion =>
            \E e \in rgPromotion :
                e.version = Successor(Root(p, "SHADOW"), "ACTIVE") /\ e.grounds = "pinned"
===============================================================================
