---------------------------- MODULE AuditPipeline ----------------------------
(***************************************************************************)
(* What an audit run says about a document: parsing, resolution of the     *)
(* facts outside the document, the gate and score phases of the evaluator, *)
(* what persistAuditRun writes, and the replay of a run from its manifest. *)
(* The rubrics are the code's own ASTs, judged by RuleEngine.              *)
(*                                                                         *)
(* A document is a record: `set' ("210", "310" or "PDF"); `corrected', an  *)
(* analyst's payload that replaces a PDF's extraction; `states', the       *)
(* header fields it states and are not blank; `header', its currency (C3   *)
(* of a 310); `declared', its total; `lineSum', the sum a corrected payload*)
(* claims, None without footing; and `lines'.  Amounts are whole cents,    *)
(* `basis' counts units.  A text that money() refuses is Bad, one that     *)
(* decimal.js reads as not a number is NaN, a missing one None.  Two       *)
(* currencies are well formed; "usd" stands for any other text.            *)
(***************************************************************************)
EXTENDS RuleEngine, FiniteSetsExt

CONSTANTS
    Document,   \* the documents that may arrive
    Rate,       \* rows that contract_rate may hold for LINEHAUL
    Crosswalk,  \* charge code -> category, None if unknown
    None,       \* no value
    Bad,        \* a text that is no number
    NaN         \* decimal.js' NaN

Iso == {"USD", "EUR"}
Unstated == ""    \* charge.currency when the document states none

Text == STRING \ {Unstated}
Amount == Int \cup {None, Bad, NaN}

\* One line of a document.  The quarantine and the category are what a payload
\* or the extraction says; an EDI line has a code instead.
LineText ==
    [amount : Amount, rate : Amount, basis : Amount, currency : Text \cup {None},
     code : DOMAIN Crosswalk \cup {None}, category : STRING \cup {None},
     described : BOOLEAN, quarantined : BOOLEAN]

\* ExtractedChargeSchema lets no amount pass that is not a number;
\* CorrectedInvoiceSchema neither that nor a total, a sum or a currency.
DocumentText ==
    {doc \in [set : {"210", "310", "PDF"}, corrected : BOOLEAN, states : SUBSET STRING,
              header : Text \cup {None}, declared : Amount, lineSum : Int \cup {None},
              lines : Seq(LineText)] :
        /\ doc.set = "PDF" => \A i \in DOMAIN doc.lines : doc.lines[i].amount \in Int \cup {None}
        /\ doc.corrected => /\ doc.set = "PDF" /\ doc.declared \in Int \cup {None}
                            /\ \A i \in DOMAIN doc.lines : doc.lines[i].currency # None}

\* None is none of the values (the strings it is compared with are named one by
\* one because the provers do not see that a literal is in STRING).
ASSUME DocumentAssumption ==
    /\ None \notin Int \cup STRING \cup {Bad, NaN}
    /\ None \notin Iso \cup {Unstated, "LINEHAUL"}
    /\ None \notin (Int \X Int) \cup [delta : Int \X Int, currency : Text \cup {None, Unstated}]
    /\ {Bad, NaN} \cap Int = {} /\ Bad # NaN
    /\ \A doc \in Document : doc \in DocumentText
    /\ \A row \in Rate : row \in [amount : Int, currency : Text] /\ row # None

VARIABLES
    rate,       \* contract_rate of the known contract version, None if no row
    hold,       \* account_payment_policy.hold_then_approve
    run,        \* what the last audit run persisted, None before it
    replayed    \* what the last replay of that run answered

vars == <<rate, hold, run, replayed>>

---------------------------------------------------------------------------
(* Parsing: charge-fact.ts, edi-envelope.ts and the three adapters.        *)

money(raw) == IF raw \in {None, Bad} THEN None ELSE raw

\* The sum of the stated amounts; NaN if one of them is.
sumMoney(amounts) ==
    LET stated == {i \in DOMAIN amounts : amounts[i] # None}
    IN  IF \E i \in stated : amounts[i] = NaN THEN NaN
        ELSE SumFunction(Restrict(amounts, stated))

categorize(code) == IF code = None THEN None ELSE Crosswalk[code]

\* Mutant: a 310's currency falls back to USD.
resolveCurrencyDefaulted(doc, line) ==
    IF doc.set = "210" THEN "USD"
    ELSE IF line.currency # None THEN line.currency
    ELSE IF doc.header # None THEN doc.header
    ELSE "USD"

\* A 210 applies USD to every line; a 310 takes L1-20, else C3, and never a
\* default.
resolveCurrency(doc, line) ==
    IF doc.set = "210" THEN "USD"
    ELSE IF line.currency # None THEN line.currency
    ELSE IF doc.header # None THEN doc.header
    ELSE Unstated

\* One L1 line.
ediCharge(doc, line) ==
    LET category == categorize(line.code)
        amount == money(line.amount)
    IN  [code |-> line.code, category |-> category, amount |-> amount,
         quarantined |-> (line.code # None /\ category = None) \/ amount = None,
         currency |-> resolveCurrency(doc, line), rate |-> money(line.rate),
         basis |-> money(line.basis), described |-> line.described]

\* One charge the model extracted from a PDF: its category is taken as given.
pdfCharge(line) ==
    LET amount == money(line.amount)
    IN  [code |-> line.code, category |-> line.category, amount |-> amount,
         quarantined |-> line.amount # None /\ amount = None,
         currency |-> IF line.currency = None THEN Unstated ELSE line.currency,
         rate |-> money(line.rate), basis |-> money(line.basis),
         described |-> line.described]

\* One charge of a corrected payload: nothing is normalised.
correctedCharge(line) ==
    [code |-> line.code, category |-> line.category, amount |-> line.amount,
     quarantined |-> line.quarantined, currency |-> line.currency,
     rate |-> line.rate, basis |-> line.basis, described |-> line.described]

\* The header fields each adapter reads; "ports" stands for two or more.
Fields210 == {"number", "reference", "scac"}
Fields310 == {"number", "reference", "container", "vessel", "ports"}
HeaderFields(set) ==
    CASE set = "210" -> Fields210 [] set = "310" -> Fields310 [] OTHER -> {"number"}

Amounts(charges) == [i \in DOMAIN charges |-> charges[i].amount]

\* parse210, parse310, extractInvoiceFromPdf, and the corrected payload that
\* confirmInvoiceDraft takes instead of the extraction.
parse(doc) ==
    LET charge(line) == IF doc.corrected THEN correctedCharge(line)
                        ELSE IF doc.set = "PDF" THEN pdfCharge(line)
                        ELSE ediCharge(doc, line)
        charges == [i \in DOMAIN doc.lines |-> charge(doc.lines[i])]
        footed == IF doc.corrected THEN doc.lineSum # None
                  ELSE doc.set = "PDF" =>
                          /\ doc.declared # None
                          /\ \A c \in ToSet(charges) : c.quarantined => c.amount # None
    IN  [set |-> doc.set,
         states |-> IF doc.corrected THEN doc.states
                    ELSE doc.states \cap HeaderFields(doc.set),
         header |-> IF doc.set = "210" THEN "USD" ELSE doc.header,
         charges |-> charges,
         declared |-> IF ~footed THEN None
                      ELSE IF doc.set = "PDF" THEN doc.declared ELSE money(doc.declared),
         lineSum |-> IF ~footed THEN 0
                     ELSE IF doc.corrected THEN doc.lineSum ELSE sumMoney(Amounts(charges))]

---------------------------------------------------------------------------
(* The rubrics: standard-rubric.ts and contract-rubric.ts.  Criteria are   *)
(* judged independently of one another, so evalOrder only orders a report  *)
(* and a rubric is a set.  Keys are without their prefix STD. or CONTRACT. *)
(* and suffix _REQUIRED.                                                   *)

Gate(key, ast) == [key |-> key, kind |-> "GATING", ast |-> ast]
Score(key, ast) == [key |-> key, kind |-> "SCORING", ast |-> ast]
Holds(key) == Compare("eq", Fact(key), Lit(Bool(TRUE)))
IsZero(key) == Compare("eq", Fact(key), Lit(Number(Zero)))
Cent == <<1, 100>>

STANDARD_RUBRIC ==
    { Gate("FOOTING",
           Require("declared_total",
               Approx(Cent, Fact("declared_total"), Fact("line_sum")))),
      Gate("CURRENCY_STATED", Holds("all_currencies_stated")),
      Gate("AMOUNT_STATED", Holds("all_amounts_stated")),
      Gate("HAS_CHARGES",
           Compare("gt", Fact("charge_count"), Lit(Number(Zero)))),
      Gate("210.INVOICE_NUMBER", Holds("required_210_invoice_number")),
      Gate("210.SHIPMENT_ID", Holds("required_210_shipment_id")),
      Gate("210.SCAC", Holds("required_210_scac")),
      Gate("310.INVOICE_NUMBER", Holds("required_310_invoice_number")),
      Gate("310.REFERENCE", Holds("required_310_reference")),
      Gate("310.CONTAINER", Holds("required_310_container")),
      Gate("310.VESSEL_VOYAGE", Holds("required_310_vessel_voyage")),
      Gate("310.PORTS", Holds("required_310_ports")),
      Gate("310.CHARGE_IDENTITY", Holds("required_310_charge_identity")),
      Gate("310.CURRENCY_CODE_VALID", Holds("valid_310_currency_codes")),
      Score("NO_QUARANTINED_CODES", IsZero("quarantined_count")),
      Score("FUEL_PRESENT", Holds("has_fuel_category")),
      Score("DUPLICATE_INVOICE",
            Require("duplicate_invoice",
                Compare("eq", Fact("duplicate_invoice"), Lit(Bool(FALSE))))),
      Score("SHIPMENT_REFERENCE_MATCH",
            Require("shipment_reference_match", Holds("shipment_reference_match"))),
      Score("RATE_BASIS_ARITHMETIC",
            Require("rate_basis_arithmetic_matches",
                Holds("rate_basis_arithmetic_matches"))),
      Score("310.CURRENCY_CONSISTENCY", Holds("consistent_310_charge_currencies")),
      Score("SUSPICIOUS_MISSING_DATA", IsZero("suspicious_missing_data_count")) }

\* Mutant: the comparison is not behind the currencies' agreement.
RateVarianceUngated ==
    Score("RATE_VARIANCE",
        Require("billed_linehaul", Require("contract_linehaul_rate",
            Approx(Cent, Fact("billed_linehaul"), Fact("contract_linehaul_rate")))))

RateVariance ==
    Score("RATE_VARIANCE",
        Require("billed_linehaul", Require("contract_linehaul_rate",
            Require("linehaul_currencies_match",
                Approx(Cent, Fact("billed_linehaul"), Fact("contract_linehaul_rate"))))))

CONTRACT_RUBRIC == STANDARD_RUBRIC \cup {RateVariance}

ASSUME RubricAssumption == \A c \in CONTRACT_RUBRIC : c.ast \in Ast

---------------------------------------------------------------------------
(* The fact bundle: fact-bundle.ts.                                        *)

OptionalFact(b) == IF b = None THEN <<"absent">> ELSE Bool(b)
Count(S) == Number(<<Cardinality(S), 1>>)

\* A money fact of whole cents.
MoneyFact(amount, currency) ==
    CASE amount = None -> <<"absent">>
      [] amount \in {NaN, Bad} -> <<"malformed">>
      [] OTHER -> <<"money", fraction(amount, 100), currency>>

Identified(c) == c.code # None \/ c.described

\* Gaps on single charges, as <<charge index, marker code>>.
findCoverageMarkers(inv) ==
    LET charge == inv.charges
        hasRate(i) == charge[i].rate # None
        hasBasis(i) == charge[i].basis # None
        where(P(_), code) == {<<i, code>> : i \in {k \in DOMAIN charge : P(k)}}
    IN  where(LAMBDA i : hasRate(i) # hasBasis(i), "INCOMPLETE_RATE_BASIS")
        \cup where(LAMBDA i : /\ charge[i].category = "FUEL"
                              /\ ~hasRate(i) /\ ~hasBasis(i), "FUEL_WITHOUT_RATE_BASIS")
        \cup where(LAMBDA i : ~Identified(charge[i]), "MISSING_CHARGE_IDENTITY")

\* rate x basis = amount within a cent; NaN is within a cent of nothing.
RateBasisAgrees(c) ==
    /\ NaN \notin {c.rate, c.basis, c.amount}
    /\ magnitude(c.rate * c.basis - c.amount) <= 1

rateBasisArithmetic(charges) ==
    LET priced == {c \in ToSet(charges) : c.rate # None \/ c.basis # None}
    IN  IF priced = {} \/ \E c \in priced : None \in {c.rate, c.basis, c.amount}
        THEN <<"absent">>
        ELSE Bool(\A c \in priced : RateBasisAgrees(c))

\* The billed side of the rate comparison, absent unless every contributing
\* charge has one currency.
linehaulFacts(charges, row) ==
    LET contributing == {i \in DOMAIN charges :
            charges[i].category = "LINEHAUL" /\ ~charges[i].quarantined
            /\ charges[i].amount # None}
        currencies == {charges[i].currency : i \in contributing}
        consistent == Cardinality(currencies) = 1
        currency == CHOOSE x \in currencies : TRUE
    IN  [billed_linehaul |-> IF consistent
                             THEN MoneyFact(sumMoney(Restrict(Amounts(charges), contributing)), currency)
                             ELSE <<"absent">>,
         contract_linehaul_rate |-> IF row = None THEN <<"absent">>
                                    ELSE MoneyFact(row.amount, row.currency),
         linehaul_currencies_match |->
             IF consistent /\ row # None /\ currency # Unstated /\ currency = row.currency
             THEN Bool(TRUE) ELSE <<"absent">>]

noLinehaulFacts ==
    [billed_linehaul |-> <<"absent">>, contract_linehaul_rate |-> <<"absent">>,
     linehaul_currencies_match |-> <<"absent">>]

\* `inputs' are the facts resolved outside the document.
buildFactBundle(inv, inputs) ==
    LET charges == ToSet(inv.charges)
        currencies == {c.currency : c \in charges}
        requires(set, field) == Bool(inv.set # set \/ field \in inv.states)
        linehaul == IF inputs.contracted THEN linehaulFacts(inv.charges, inputs.rate)
                    ELSE noLinehaulFacts
    IN  [declared_total |-> MoneyFact(inv.declared, inv.header),
         line_sum |-> MoneyFact(inv.lineSum, inv.header),
         all_currencies_stated |-> Bool(Unstated \notin currencies),
         all_amounts_stated |-> Bool(\A c \in charges : c.amount # None),
         charge_count |-> Number(<<Len(inv.charges), 1>>),
         quarantined_count |->
             Count({i \in DOMAIN inv.charges : inv.charges[i].quarantined}),
         has_fuel_category |-> Bool(\E c \in charges : c.category = "FUEL"),
         duplicate_invoice |-> OptionalFact(inputs.duplicate),
         shipment_reference_match |-> OptionalFact(inputs.match),
         rate_basis_arithmetic_matches |-> rateBasisArithmetic(inv.charges),
         required_210_invoice_number |-> requires("210", "number"),
         required_210_shipment_id |-> requires("210", "reference"),
         required_210_scac |-> requires("210", "scac"),
         required_310_invoice_number |-> requires("310", "number"),
         required_310_reference |-> requires("310", "reference"),
         required_310_container |-> requires("310", "container"),
         required_310_vessel_voyage |-> requires("310", "vessel"),
         required_310_ports |-> requires("310", "ports"),
         required_310_charge_identity |->
             Bool(inv.set # "310" \/ \A c \in charges : Identified(c)),
         valid_310_currency_codes |-> Bool(inv.set # "310" \/ currencies \subseteq Iso),
         consistent_310_charge_currencies |->
             IF inv.set # "310" THEN <<"absent">> ELSE Bool(Cardinality(currencies) <= 1),
         suspicious_missing_data_count |-> Count(findCoverageMarkers(inv)),
         billed_linehaul |-> linehaul.billed_linehaul,
         contract_linehaul_rate |-> linehaul.contract_linehaul_rate,
         linehaul_currencies_match |-> linehaul.linehaul_currencies_match]

---------------------------------------------------------------------------
(* The evaluator: evaluate-invoice.ts.  The evaluated trees a result       *)
(* carries are a function of its rubric and facts and stand for them.      *)

\* The node below the requires that are met.
unwrapRequires(node, facts) ==
    LET bottom[n \in Ast] ==
            IF n.type = "require" /\ present(facts[n.key]) THEN bottom[n.then] ELSE n
    IN  bottom[node]

\* billed - expected of a money comparison; None for any other criterion.
moneyVarianceDelta(node, facts) ==
    LET bottom == unwrapRequires(node, facts)
        left == evaluate(bottom.args[1], facts)
        right == evaluate(bottom.args[2], facts)
    IN  IF bottom.type = "compare" /\ left[1] = "money" /\ right[1] = "money"
        THEN [delta |-> minus(left[2], right[2]), currency |-> left[3]]
        ELSE None

judge(criterion, facts) == verdict(evaluate(criterion.ast, facts))

\* The finding on a criterion that was judged `given'; `delta' prices a failure.
ChargeFinding(key, given, delta) ==
    LET priced == given = "FAIL" /\ delta # None
    IN  [key |-> key,
         result |-> CASE given = "PASS" -> "CONFORMED" [] given = "FAIL" -> "VARIANCE"
                      [] OTHER -> "UNASSESSABLE",
         amount |-> IF priced THEN delta.delta ELSE None,
         currency |-> IF priced THEN delta.currency ELSE None,
         direction |-> IF ~priced THEN "INTEGRITY_ONLY"
                       ELSE IF delta.delta[1] < 0 THEN "UNDERCHARGE" ELSE "OVERCHARGE"]

finding(criterion, facts) ==
    ChargeFinding(criterion.key, judge(criterion, facts), moneyVarianceDelta(criterion.ast, facts))

\* The sum of the absolute amounts of the findings in one direction.
Total(findings, direction) ==
    FoldFunction(plus, Zero, [f \in {g \in findings : g.direction = direction} |->
                                 absolute(f.amount)])

CountOf(findings, result) == Cardinality({f \in findings : f.result = result})

\* Mutant: an undercharge is added to the overcharges.
scorecardOfUnsigned(findings) ==
    [conformed |-> CountOf(findings, "CONFORMED"),
     variance |-> CountOf(findings, "VARIANCE"),
     unassessable |-> CountOf(findings, "UNASSESSABLE"),
     totalOvercharge |-> plus(Total(findings, "OVERCHARGE"), Total(findings, "UNDERCHARGE")),
     totalUndercharge |-> Zero]

scorecardOf(findings) ==
    [conformed |-> CountOf(findings, "CONFORMED"),
     variance |-> CountOf(findings, "VARIANCE"),
     unassessable |-> CountOf(findings, "UNASSESSABLE"),
     totalOvercharge |-> Total(findings, "OVERCHARGE"),
     totalUndercharge |-> Total(findings, "UNDERCHARGE")]

\* Gates are all collected, and an unassessable gate fails; scores only when
\* no gate failed.
evaluateInvoice(inv, rubric, inputs) ==
    LET facts == buildFactBundle(inv, inputs)
        kindOf(kind) == {c \in rubric : c.kind = kind}
        failed == {c \in kindOf("GATING") : judge(c, facts) # "PASS"}
        scored == failed = {}
        findings == IF scored THEN {finding(c, facts) : c \in kindOf("SCORING")} ELSE {}
    IN  [outcome |-> IF scored THEN "SCORED" ELSE "REJECTED_REWORK",
         gateFailures |-> {[key |-> c.key, verdict |-> judge(c, facts)] : c \in failed},
         findings |-> findings,
         scorecard |-> IF scored THEN scorecardOf(findings) ELSE None,
         coverageMarkers |-> findCoverageMarkers(inv),
         rubric |-> {c.key : c \in rubric},
         facts |-> facts]

---------------------------------------------------------------------------
(* resolve-and-evaluate.ts.                                                *)

\* The answers of detectDuplicateInvoice and resolveShipmentReferenceMatch.
AnswersTo(inv, field) == IF field \in inv.states THEN BOOLEAN ELSE {None}

\* `contract' is the request's contractVersionId: none, that of the version
\* whose rate is followed here, or one that this tenant does not have.
lookupContractRate(contract) == IF contract = "known" THEN rate ELSE None

resolvedInputs(contract, duplicate, match) ==
    [duplicate |-> duplicate, match |-> match, contracted |-> contract # "none",
     rate |-> lookupContractRate(contract)]

rubricFor(contract) == IF contract = "none" THEN STANDARD_RUBRIC ELSE CONTRACT_RUBRIC

---------------------------------------------------------------------------
(* persist.ts.                                                             *)

\* The CHECK of invoice.currency and, for scored runs, charge_fact.currency:
\* a violation rolls the whole transaction back.
Recordable(inv, result) ==
    /\ inv.header \in Iso \cup {None}
    /\ result.outcome = "SCORED" => \A i \in DOMAIN inv.charges : inv.charges[i].currency \in Iso

\* charge_fact_id of a finding: the single LINEHAUL charge of a rate variance.
attribution(inv, f) ==
    LET contributing == {i \in DOMAIN inv.charges :
            inv.charges[i].category = "LINEHAUL" /\ ~inv.charges[i].quarantined}
    IN  IF f.key = "RATE_VARIANCE" /\ Cardinality(contributing) = 1
        THEN CHOOSE i \in contributing : TRUE ELSE None

varianceFinding(inv, f) ==
    [key |-> f.key, chargeFact |-> attribution(inv, f), direction |-> f.direction,
     amount |-> f.amount, currency |-> f.currency,
     classification |-> IF f.result = "UNASSESSABLE" THEN "unassessable" ELSE "variance"]

varianceFindings(inv, findings) ==
    {varianceFinding(inv, f) : f \in {g \in findings : g.result # "CONFORMED"}}

\* generateHoldDecision or generateDoNotPayDecision.
paymentDecision(result) ==
    IF result.outcome = "REJECTED_REWORK" THEN "do_not_pay"
    ELSE IF hold THEN "hold" ELSE None

\* The manifest pins the contract versions that exist.
contractPins(contract) == IF contract = "known" THEN {"known"} ELSE {}

persistAuditRun(doc, contract, inv, inputs, result) ==
    /\ Recordable(inv, result)
    /\ run' = [document |-> doc, contract |-> contract,
               varianceFindings |-> varianceFindings(inv, result.findings),
               decision |-> paymentDecision(result),
               manifest |-> [contractVersions |-> contractPins(contract),
                             resolvedInputs |-> inputs, invoice |-> inv,
                             result |-> result]]

---------------------------------------------------------------------------
(* Actions.                                                                *)

Init == rate \in Rate \cup {None} /\ hold = TRUE /\ run = None /\ replayed = None

\* ingestInvoice or confirmInvoiceDraft: parse, resolve, evaluate, persist in
\* one transaction.  One run is followed.
ingest(doc, contract) ==
    /\ run = None
    /\ LET inv == parse(doc)
       IN  \E duplicate \in AnswersTo(inv, "number"), match \in AnswersTo(inv, "reference") :
           LET inputs == resolvedInputs(contract, duplicate, match)
               result == evaluateInvoice(inv, rubricFor(contract), inputs)
           IN  persistAuditRun(doc, contract, inv, inputs, result)
    /\ UNCHANGED <<rate, hold, replayed>>

\* createContractRate, updateContractRate or deleteContractRate.
changeContractRate(row) ==
    /\ row # rate
    /\ rate' = row
    /\ UNCHANGED <<hold, run, replayed>>

\* upsertPaymentPolicy.
upsertPaymentPolicy ==
    /\ hold' = ~hold
    /\ UNCHANGED <<rate, run, replayed>>

\* The rubric is chosen from the pinned contract versions, the facts outside
\* the document are the ones recorded.  The pinned documents and rules are
\* append-only, so verifyPins finds them as they were.
replayAuditRun ==
    LET manifest == run.manifest
        rubric == IF manifest.contractVersions # {} THEN CONTRACT_RUBRIC
                  ELSE STANDARD_RUBRIC
        result == evaluateInvoice(manifest.invoice, rubric, manifest.resolvedInputs)
    IN  /\ run # None
        /\ replayed' = IF result = manifest.result THEN "identical" ELSE "integrity_error"
        /\ UNCHANGED <<rate, hold, run>>

Next ==
    \/ \E doc \in Document, contract \in {"none", "known", "unknown"} : ingest(doc, contract)
    \/ \E row \in Rate \cup {None} : changeContractRate(row)
    \/ upsertPaymentPolicy
    \/ replayAuditRun

Spec == Init /\ [][Next]_vars

---------------------------------------------------------------------------
(* What a document itself says, independently of parser and rubric.        *)

Ints(amounts) == {i \in DOMAIN amounts : amounts[i] \notin {None, Bad, NaN}}
SumOf(amounts) == SumFunction(Restrict(amounts, Ints(amounts)))
LineAmounts(doc) == [i \in DOMAIN doc.lines |-> doc.lines[i].amount]

\* The currency a line is billed in, None if the document does not say.
BilledIn(doc, line) ==
    CASE doc.set = "210" -> "USD"
      [] doc.set = "310" /\ line.currency = None -> doc.header
      [] OTHER -> line.currency

\* The total agrees with the lines; for a corrected payload, with the sum that
\* the payload states.
AddsUp(doc) ==
    /\ doc.declared \notin {None, Bad, NaN}
    /\ IF doc.corrected THEN doc.lineSum # None /\ magnitude(doc.declared - doc.lineSum) <= 1
       ELSE /\ \A l \in ToSet(doc.lines) : l.amount # NaN
            /\ magnitude(doc.declared - SumOf(LineAmounts(doc))) <= 1

RequiredFields(set) ==
    CASE set = "210" -> {<<"number", "210.INVOICE_NUMBER">>, <<"reference", "210.SHIPMENT_ID">>,
                         <<"scac", "210.SCAC">>}
      [] set = "310" -> {<<"number", "310.INVOICE_NUMBER">>, <<"reference", "310.REFERENCE">>,
                         <<"container", "310.CONTAINER">>, <<"vessel", "310.VESSEL_VOYAGE">>,
                         <<"ports", "310.PORTS">>}
      [] OTHER -> {}

\* Everything that is wrong with a document.
Defects(doc) ==
    LET lines == ToSet(doc.lines)
        when(condition, key) == IF condition THEN {key} ELSE {}
    IN  when(~AddsUp(doc), "FOOTING")
        \cup when(\E l \in lines : BilledIn(doc, l) = None, "CURRENCY_STATED")
        \cup when(\E l \in lines : l.amount \in {None, Bad}, "AMOUNT_STATED")
        \cup when(lines = {}, "HAS_CHARGES")
        \cup {f[2] : f \in {g \in RequiredFields(doc.set) : g[1] \notin doc.states}}
        \cup when(doc.set = "310" /\ \E l \in lines : l.code = None /\ ~l.described,
                "310.CHARGE_IDENTITY")
        \cup when(doc.set = "310" /\ \E l \in lines : BilledIn(doc, l) \notin Iso,
                "310.CURRENCY_CODE_VALID")

Linehaul(doc) ==
    {i \in DOMAIN doc.lines :
        IF doc.set = "PDF"
        THEN doc.lines[i].category = "LINEHAUL" /\ ~(doc.corrected /\ doc.lines[i].quarantined)
        ELSE doc.lines[i].code # None /\ Crosswalk[doc.lines[i].code] = "LINEHAUL"}

---------------------------------------------------------------------------
Result == run.manifest.result

(* The carrier is sent back every defect of its invoice and nothing else,  *)
(* and an invoice is scored exactly when it has none.  (evaluateInvoice's  *)
(* COLLECT_ALL gate phase, on top of the parsers: nothing is defaulted or  *)
(* repaired on the way.)                                                   *)
KickbackIsComplete ==
    run # None =>
        /\ {g.key : g \in Result.gateFailures} = Defects(run.document)
        /\ Result.outcome = "SCORED" <=> Defects(run.document) = {}

(* A rate variance is reported exactly when the linehaul lines, all in the *)
(* rate's currency, differ from the contracted rate by more than a cent;   *)
(* its amount and direction are that difference, and it names a charge     *)
(* only when that charge alone was compared.  (fact-bundle.ts, RATE_       *)
(* VARIANCE, and persistAuditRun's variance_finding rows.)                 *)
VarianceIsWarranted ==
    run # None /\ Result.outcome = "SCORED" =>
        LET doc == run.document
            row == run.manifest.resolvedInputs.rate
            lines == Linehaul(doc)
            difference == SumFunction(Restrict(LineAmounts(doc), lines)) - row.amount
            differs == /\ row # None /\ lines # {}
                       /\ \A i \in lines : BilledIn(doc, doc.lines[i]) = row.currency
                       /\ magnitude(difference) > 1
            reported == {v \in run.varianceFindings :
                            v.key = "RATE_VARIANCE" /\ v.classification = "variance"}
        IN  /\ differs <=> reported # {}
            /\ \A v \in reported :
                /\ v.amount = fraction(difference, 100) /\ v.currency = row.currency
                /\ v.direction = IF difference < 0 THEN "UNDERCHARGE" ELSE "OVERCHARGE"
                /\ v.chargeFact = None <=> Cardinality(lines) > 1
                /\ v.chargeFact # None => v.chargeFact \in lines

(* The scorecard and the variance_finding rows tell one story: every       *)
(* criterion is counted once, every count that is not CONFORMED has its    *)
(* row, and the rows' signed amounts add up to overcharge - undercharge.   *)
(* (evaluateInvoice's rollup against persistAuditRun's derivation.)        *)
ScorecardReconciles ==
    run # None /\ Result.outcome = "SCORED" =>
        LET card == Result.scorecard
            rows == run.varianceFindings
            signed == FoldFunction(plus, Zero, [v \in {w \in rows : w.amount # None} |-> v.amount])
            scores == {c \in rubricFor(run.contract) : c.kind = "SCORING"}
        IN  /\ card.conformed + card.variance + card.unassessable = Cardinality(scores)
            /\ card.variance + card.unassessable = Cardinality(rows)
            /\ signed = minus(card.totalOvercharge, card.totalUndercharge)

(* Every run replays to the same result.  (persist.ts: the run pins engine *)
(* and rubric "so a finding replays byte-identically".)                    *)
ReplayReproduces == replayed # "integrity_error"
=============================================================================
