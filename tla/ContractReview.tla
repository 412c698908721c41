---------------------------- MODULE ContractReview ----------------------------
(***************************************************************************)
(* A contract document from upload to a verified version: the extraction a *)
(* model made of it, the questions its abstentions raise, the answers and  *)
(* corrections of analysts, and the finalization that freezes the result.  *)
(*                                                                         *)
(* Every request is one transaction.  finalizeContractVersion reads the    *)
(* fields in one statement, the open questions in the next and inserts     *)
(* last, so corrections and questions can commit in between: three steps.  *)
(* What an extraction says is a function of its response hash.             *)
(***************************************************************************)
EXTENDS Integers, Sequences, FiniteSets, SequencesExt

CONSTANTS
    Tenant, Doc, Contract, Reader,    \* Reader: analysts
    Response,    \* extraction responses (hashes)
    Field,       \* field paths
    Confidence,  \* [Response -> [Field -> confidence, or 0 where not found]]
    Required,    \* fields the policy requires
    Value,       \* values an analyst may enter
    Finalizer,   \* finalization requests in flight
    MaxEntries,  \* bound on corrections and answers
    Unset

ASSUME ContractReviewAssumption ==
    /\ Required \subseteq Field
    /\ Confidence \in [Response -> [Field -> Nat]]
    /\ MaxEntries \in Nat
    /\ Unset \notin Tenant \cup Contract \cup Reader \cup Value

VARIABLES
    ctContract,   \* contract rows: the owning tenant
    ctVersion,    \* contract_version of a document: its contract
    ctExtracted,  \* <<doc, response>>: fields and event persisted
    ctAsked,      \* clarifying questions of <<doc, response>>: fields, once generated
    ctAnswer,     \* answer per question
    ctAnswered,   \* answers the ledger knows per question
    ctCorrection, \* correction rows per field, oldest first
    ctVerified,   \* verified_contract_version rows
    ctFinalizer,  \* finalizations between their first read and their insert
    ctEntries     \* corrections and answers so far

ctVars == <<ctContract, ctVersion, ctExtracted, ctAsked, ctAnswer, ctAnswered,
            ctCorrection, ctVerified, ctFinalizer, ctEntries>>
ctUpload == <<ctContract, ctVersion>>
ctReview == <<ctExtracted, ctAsked, ctAnswer, ctAnswered, ctCorrection>>

Source == Doc \X Response
NotAsked == [asked |-> FALSE, fields |-> {}]
NotVerified == [by |-> Unset, fields |-> <<>>]
NoFinalizer == [step |-> "idle", source |-> Unset, by |-> Unset, fields |-> <<>>,
                disturbed |-> FALSE]

ctInit ==
    /\ ctContract = [k \in Contract |-> Unset]
    /\ ctVersion = [d \in Doc |-> Unset]
    /\ ctExtracted = {}
    /\ ctAsked = [x \in Source |-> NotAsked]
    /\ ctAnswer = [x \in Source |-> [f \in Field |-> Unset]]
    /\ ctAnswered = [x \in Source |-> [f \in Field |-> {}]]
    /\ ctCorrection = [x \in Source |-> [f \in Field |-> <<>>]]
    /\ ctVerified = [x \in Source |-> NotVerified]
    /\ ctFinalizer = [q \in Finalizer |-> NoFinalizer]
    /\ ctEntries = 0

-----------------------------------------------------------------------------
(* Upload.  The bytes are owned by the first tenant that stored them and a *)
(* document has one version for ever: a retry finds it, a retry under      *)
(* another contract or by another tenant is a conflict.                    *)

uploadContractDocument(t, d, k) ==
    /\ ctVersion[d] = Unset
    /\ ctContract[k] = Unset
    /\ ctContract' = [ctContract EXCEPT ![k] = t]
    /\ ctVersion' = [ctVersion EXCEPT ![d] = k]
    /\ UNCHANGED ctReview /\ UNCHANGED <<ctVerified, ctFinalizer, ctEntries>>

uploadContractVersionDocument(t, d, k) ==
    /\ ctVersion[d] = Unset
    /\ ctContract[k] = t
    /\ ctVersion' = [ctVersion EXCEPT ![d] = k]
    /\ UNCHANGED ctContract /\ UNCHANGED ctReview
    /\ UNCHANGED <<ctVerified, ctFinalizer, ctEntries>>

-----------------------------------------------------------------------------
(* Extraction.                                                             *)

(* applyContractExtractionAbstention under a threshold: a field found with *)
(* less confidence turns ambiguous, a required field that is not there is  *)
(* added as not found; both are abstentions, as is what the model itself   *)
(* did not find.                                                           *)
Fields(r) == {f \in Field : Confidence[r][f] > 0} \cup Required
applyContractExtractionAbstention(r, minimumConfidence) ==
    {f \in Fields(r) : Confidence[r][f] < minimumConfidence \/ Confidence[r][f] = 0}

(* All fields of a response, or none: a repeat finds them all.             *)
persistContractExtraction(d, r) ==
    /\ ctVersion[d] # Unset
    /\ ctExtracted' = ctExtracted \cup {<<d, r>>}
    /\ UNCHANGED <<ctAsked, ctAnswer, ctAnswered, ctCorrection>>
    /\ UNCHANGED ctUpload /\ UNCHANGED <<ctVerified, ctFinalizer, ctEntries>>

(* One question per field the extraction abstained on.                     *)
generateClarifyingQuestions(r, minimumConfidence) ==
    applyContractExtractionAbstention(r, minimumConfidence)

(* One set of questions per response: the event holds their hashes, so     *)
(* another policy's set conflicts.  A finalization does not stop it.       *)
persistClarifyingQuestions(d, r, minimumConfidence) ==
    LET questions == generateClarifyingQuestions(r, minimumConfidence) IN
    /\ <<d, r>> \in ctExtracted
    /\ ctAsked[<<d, r>>] = NotAsked
    /\ ctAsked' = [ctAsked EXCEPT ![<<d, r>>] = [asked |-> TRUE, fields |-> questions]]
    /\ ctFinalizer' = [q \in Finalizer |->
         [ctFinalizer[q] EXCEPT !.disturbed = @ \/ ctFinalizer[q].source = <<d, r>>]]
    /\ UNCHANGED <<ctExtracted, ctAnswer, ctAnswered, ctCorrection>>
    /\ UNCHANGED ctUpload /\ UNCHANGED <<ctVerified, ctEntries>>

(* The row is locked; the same answer again changes nothing, an answer the *)
(* question had before is refused (its event is there already).            *)
answerClarifyingQuestion(x, f, answer) ==
    /\ f \in ctAsked[x].fields
    /\ ctAnswer[x][f] # answer
    /\ answer \notin ctAnswered[x][f]
    /\ ctEntries < MaxEntries
    /\ ctAnswer' = [ctAnswer EXCEPT ![x][f] = answer]
    /\ ctAnswered' = [ctAnswered EXCEPT ![x][f] = @ \cup {answer}]
    /\ ctEntries' = ctEntries + 1
    /\ UNCHANGED <<ctExtracted, ctAsked, ctCorrection>>
    /\ UNCHANGED ctUpload /\ UNCHANGED <<ctVerified, ctFinalizer>>

(* A correction is a new row keyed by field and value.  The value a field  *)
(* was once corrected to is found again for its author, and its place in   *)
(* the order of rows stays where it was; for anybody else it is a conflict.*)
persistExtractionFieldCorrection(a, x, f, v) ==
    /\ x \in ctExtracted /\ f \in Fields(x[2])
    /\ ctEntries < MaxEntries
    /\ \A i \in DOMAIN ctCorrection[x][f] : ctCorrection[x][f][i].value # v
    /\ ctCorrection' = [ctCorrection EXCEPT ![x][f] = Append(@, [value |-> v, by |-> a])]
    /\ ctFinalizer' = [q \in Finalizer |->
         [ctFinalizer[q] EXCEPT !.disturbed = @ \/ ctFinalizer[q].source = x]]
    /\ ctEntries' = ctEntries + 1
    /\ UNCHANGED <<ctExtracted, ctAsked, ctAnswer, ctAnswered>>
    /\ UNCHANGED ctUpload /\ UNCHANGED ctVerified

-----------------------------------------------------------------------------
(* Finalization.                                                           *)

(* Mutant: the first correction of a field counts.                         *)
effectiveFirst(x, f) ==
    IF ctCorrection[x][f] = <<>> THEN Unset ELSE Head(ctCorrection[x][f]).value

(* The newest correction row, or what the model said (Unset here).       *)
effectiveValue(x, f) ==
    IF ctCorrection[x][f] = <<>> THEN Unset ELSE Last(ctCorrection[x][f]).value

readFields(q, a, x) ==
    /\ ctFinalizer[q].step = "idle"
    /\ ctVersion[x[1]] # Unset
    /\ x \in ctExtracted /\ Fields(x[2]) # {}
    /\ ctFinalizer' = [ctFinalizer EXCEPT ![q] =
         [step |-> "fields", source |-> x, by |-> a, disturbed |-> FALSE,
          fields |-> [f \in Fields(x[2]) |-> effectiveValue(x, f)]]]
    /\ UNCHANGED ctUpload /\ UNCHANGED ctReview /\ UNCHANGED <<ctVerified, ctEntries>>

unanswered(x) == \E f \in ctAsked[x].fields : ctAnswer[x][f] = Unset

readQuestions(q) ==
    /\ ctFinalizer[q].step = "fields"
    /\ ctFinalizer' = [ctFinalizer EXCEPT ![q] =
         IF unanswered(ctFinalizer[q].source) THEN NoFinalizer ELSE [@ EXCEPT !.step = "insert"]]
    /\ UNCHANGED ctUpload /\ UNCHANGED ctReview /\ UNCHANGED <<ctVerified, ctEntries>>

(* The insert, or the same row again; a row with other fields or by        *)
(* another analyst is a FINALIZATION_CONFLICT.                             *)
finalizeContractVersion(q) ==
    LET x == ctFinalizer[q].source
        row == [by |-> ctFinalizer[q].by, fields |-> ctFinalizer[q].fields] IN
    /\ ctFinalizer[q].step = "insert"
    /\ ctVerified' = IF ctVerified[x] = NotVerified
                     THEN [ctVerified EXCEPT ![x] = row] ELSE ctVerified
    /\ ctFinalizer' = [ctFinalizer EXCEPT ![q] = NoFinalizer]
    /\ UNCHANGED ctUpload /\ UNCHANGED ctReview /\ UNCHANGED ctEntries

-----------------------------------------------------------------------------
ctNext ==
    \/ \E t \in Tenant, d \in Doc, k \in Contract :
         \/ uploadContractDocument(t, d, k) \/ uploadContractVersionDocument(t, d, k)
    \/ \E d \in Doc, r \in Response :
         \/ persistContractExtraction(d, r)
         \/ \E c \in 1..3 : persistClarifyingQuestions(d, r, c)
    \/ \E x \in Source, f \in Field, v \in Value :
         \/ answerClarifyingQuestion(x, f, v)
         \/ \E a \in Reader : persistExtractionFieldCorrection(a, x, f, v)
    \/ \E q \in Finalizer :
         \/ readQuestions(q) \/ finalizeContractVersion(q)
         \/ \E a \in Reader, x \in Source : readFields(q, a, x)

ctSpec == ctInit /\ [][ctNext]_ctVars

-----------------------------------------------------------------------------
(* Whatever the order of questions, answers, corrections and competing     *)
(* finalizations: a version is verified once and never rewritten; and      *)
(* unless a correction or the questions themselves arrived while the       *)
(* finalization was running, no question is open when it is verified and   *)
(* the fields it freezes are the ones an analyst would read at that moment.*)
VerifiedAsReviewed ==
    [][\A x \in Source : ctVerified'[x] # ctVerified[x] =>
         /\ ctVerified[x] = NotVerified
         /\ \E q \in Finalizer :
              /\ ctFinalizer[q].source = x /\ ctFinalizer'[q] = NoFinalizer
              /\ ~ctFinalizer[q].disturbed =>
                   /\ \A f \in ctAsked[x].fields : ctAnswer[x][f] # Unset
                   /\ \A f \in Fields(x[2]) :
                        ctVerified'[x].fields[f] =
                          IF ctCorrection[x][f] = <<>> THEN Unset
                          ELSE ctCorrection[x][f][Len(ctCorrection[x][f])].value]_ctVars
===============================================================================
