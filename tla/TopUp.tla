------------------------------- MODULE TopUp --------------------------------
(***************************************************************************)
(* `lium topup card` (src/lium/cli/topup/command.py) over Lium.topup_card  *)
(* and wait_for_credit (sdk/client.py): a POST that charges a saved card,  *)
(* sent once with a key, whose answer may be lost; with --wait the balance *)
(* is followed until it rises.  Beside it the payer, who wants one payment *)
(* and runs the command again as its exits say, all within the 24 hours    *)
(* for which the API remembers a key.                                      *)
(***************************************************************************)
EXTENDS Integers, FiniteSets

CONSTANTS
  CardRuns,  \* bound on the runs of the command, which also name the fresh keys
  NoKey,     \* none typed
  NoExit,    \* the command runs
  Unread     \* no balance was read

CardExits ==
  {"declined", "unreadable", "unknown", "pending", "step_up", "failed", "api", "not_seen",
   "interrupted", "ok"}

ASSUME CardAssumption ==
  CardRuns \in Nat \ {0} /\ NoKey \notin Nat /\ Unread \notin Nat /\ NoExit \notin CardExits

VARIABLES
  cardRun,   \* number of this run
  typedKey,  \* --idempotency-key
  sentKey,   \* key
  cardWait,  \* --wait
  cardStep,  \* next step of the run
  cardExit,  \* how it ended
  baseline,  \* baseline
  lastRead,  \* balance of the wait's outcome
  atPost,    \* history: the balance when this run's request left
  post,      \* run -> its request, or what the API answered to it
  postKey,   \* run -> the key it went under
  charge,    \* key -> the payment under it
  others     \* credits of other payments

cardRunVars == <<cardRun, typedKey, sentKey, cardWait, baseline, lastRead, atPost>>
apiVars == <<post, postKey, charge, others>>
cardVars == <<cardRunVars, cardStep, cardExit, apiVars>>

Keys == 1..CardRuns
Paid == {"taken", "credited"}
PayAnswers == {"pending", "taken", "open", "failed", "refused"}
PayBalance == others + Cardinality({k \in Keys : charge[k] = "credited"})

CardTypeOK ==
  /\ cardRun \in Keys /\ typedKey \in Keys \cup {NoKey} /\ sentKey \in Keys
  /\ cardWait \in BOOLEAN /\ cardExit \in CardExits \cup {NoExit}
  /\ cardStep \in {"prompt", "baseline", "post", "answer", "wait", "report", "ended"}
  /\ baseline \in Nat \cup {Unread} /\ lastRead \in Nat \cup {Unread} /\ atPost \in Nat
  /\ post \in [Keys -> {"unsent", "travels"} \cup PayAnswers] /\ postKey \in [Keys -> Keys]
  /\ charge \in [Keys -> {"none", "unsure", "open", "failed"} \cup Paid] /\ others \in 0..1
  /\ cardExit = NoExit <=> cardStep # "ended"
  /\ typedKey # NoKey => sentKey = typedKey
  /\ cardStep \in {"prompt", "baseline", "post"} => post[cardRun] = "unsent"

(* The payer types a key of his own, or lets the SDK make one.             *)
FreshRun(n) == cardRun' = n /\ sentKey' = n /\ typedKey' \in {n, NoKey}
CardInit ==
  /\ cardRun = 1 /\ sentKey = 1 /\ typedKey \in {1, NoKey} /\ cardWait \in BOOLEAN
  /\ cardStep = "prompt" /\ cardExit = NoExit
  /\ baseline = Unread /\ lastRead = Unread /\ atPost = 0
  /\ post = [r \in Keys |-> "unsent"] /\ postKey = [r \in Keys |-> 1]
  /\ charge = [k \in Keys |-> "none"] /\ others = 0

CardGoes(from, to) == cardStep = from /\ cardStep' = to /\ UNCHANGED cardExit
CardEnds(from, exit) == cardStep = from /\ cardStep' = "ended" /\ cardExit' = exit
CardSame == UNCHANGED <<cardRunVars, apiVars>>

-----------------------------------------------------------------------------
(* A run of card_command.                                                  *)

CardPrompt ==
  /\ CardGoes("prompt", "baseline") \/ CardEnds("prompt", "declined")
  /\ CardSame

(* baseline_or_fail: with --wait nothing is charged unless the balance is  *)
(* read first.                                                             *)
ReadBaseline ==
  /\ \/ cardWait /\ CardGoes("baseline", "post") /\ baseline' = PayBalance
     \/ cardWait /\ CardEnds("baseline", "unreadable") /\ UNCHANGED baseline
     \/ ~cardWait /\ CardGoes("baseline", "post") /\ UNCHANGED baseline
  /\ UNCHANGED <<cardRun, typedKey, sentKey, cardWait, lastRead, atPost, apiVars>>

PostCharge ==
  /\ CardGoes("post", "answer") /\ atPost' = PayBalance
  /\ post' = [post EXCEPT ![cardRun] = "travels"]
  /\ postKey' = [postKey EXCEPT ![cardRun] = sentKey]
  /\ UNCHANGED <<cardRun, typedKey, sentKey, cardWait, baseline, lastRead, charge, others>>

(* A timeout, a dropped connection, or a 5xx that does not say the card    *)
(* was left alone, wherever the request is.                                *)
ChargeOutcomeUnknown == CardEnds("answer", "unknown") /\ CardSame

(* topup_card's answer.  "pending" is a 202 without a payment intent.      *)
(* "refused" left this key's payment alone: a budget, a scope, a rate      *)
(* limit, or a 5xx of CARD_TOPUP_NOT_CHARGED_CODES.  Faulty: the bank's    *)
(* wish for a confirmation is one more failure.                            *)
ExitOfFaulty ==
  [pending |-> "pending", open |-> "failed", failed |-> "failed", refused |-> "api"]
ExitOf ==
  [pending |-> "pending", open |-> "step_up", failed |-> "failed", refused |-> "api"]
ChargeAnswered ==
  /\ \/ post[cardRun] = "taken" /\ CardGoes("answer", IF cardWait THEN "wait" ELSE "report")
     \/ post[cardRun] \in DOMAIN ExitOf /\ CardEnds("answer", ExitOf[post[cardRun]])
  /\ CardSame

(* Without --wait the balance is read for the report; a failure is not one *)
(* of the command.                                                         *)
ReportCharge == CardEnds("report", "ok") /\ CardSame

(* wait_for_credit ends at the first read above the baseline, or at the    *)
(* deadline; its reads may all have failed.                                *)
WaitForCredit ==
  /\ \/ /\ CardEnds("wait", IF PayBalance > baseline THEN "ok" ELSE "not_seen")
        /\ lastRead' = PayBalance
     \/ CardEnds("wait", "not_seen") /\ lastRead' = Unread
  /\ UNCHANGED <<cardRun, typedKey, sentKey, cardWait, baseline, atPost, apiVars>>

(* Ctrl-C.  Only the wait was preceded by the key (announce).              *)
InterruptCard ==
  /\ cardStep \notin {"prompt", "ended"} /\ CardEnds(cardStep, "interrupted")
  /\ typedKey' = IF cardStep = "wait" THEN sentKey ELSE typedKey
  /\ UNCHANGED <<cardRun, sentKey, cardWait, baseline, lastRead, atPost, apiVars>>

-----------------------------------------------------------------------------
(* The API and Stripe.                                                     *)

(* The first request under a key makes its payment, or is refused before   *)
(* that; a repeat gets that payment's state, or is refused.                *)
PayAnswer(state) ==
  [none |-> "refused", unsure |-> "pending", taken |-> "taken", credited |-> "taken",
   open |-> "open", failed |-> "failed"][state]
TakeCharge(r) ==
  LET k == postKey[r]
      made == IF charge[k] = "none" THEN {"none", "unsure", "taken", "open", "failed"}
              ELSE {charge[k]}
  IN /\ post[r] = "travels"
     /\ \E state \in made :
          /\ charge' = [charge EXCEPT ![k] = state]
          /\ post' \in {[post EXCEPT ![r] = a] :
                          a \in IF charge[k] = "none" THEN {PayAnswer(state)}
                                ELSE {PayAnswer(state), "refused"}}
     /\ UNCHANGED <<cardRunVars, cardStep, cardExit, postKey, others>>

(* Stripe's word on an unsure payment, the cardholder's on an open one,    *)
(* the webhook of a taken one; another payment of the account.             *)
Settle ==
  /\ \/ /\ UNCHANGED others
        /\ \E k \in Keys, state \in Paid \cup {"failed"} :
             /\ IF charge[k] = "taken" THEN state = "credited"
                ELSE charge[k] \in {"unsure", "open"} /\ state \in {"taken", "failed"}
             /\ charge' = [charge EXCEPT ![k] = state]
     \/ others = 0 /\ others' = 1 /\ UNCHANGED charge
  /\ UNCHANGED <<cardRunVars, cardStep, cardExit, post, postKey>>

-----------------------------------------------------------------------------
(* The payer.                                                              *)

RunAgain ==
  /\ cardStep = "ended" /\ cardRun < CardRuns /\ cardStep' = "prompt" /\ cardExit' = NoExit
  /\ cardWait' \in BOOLEAN /\ baseline' = Unread /\ lastRead' = Unread
  /\ UNCHANGED <<atPost, apiVars>>

(* The key of the run that ended, which it printed or he had typed.        *)
SameKey ==
  /\ RunAgain /\ cardRun' = cardRun + 1 /\ UNCHANGED sentKey /\ typedKey' = sentKey
  /\ \/ cardExit \in {"unknown", "pending", "step_up", "not_seen"}
     \/ cardExit \in {"declined", "unreadable", "api", "interrupted"} /\ typedKey # NoKey

(* A new key, or none: after a final answer of the card; where no key was  *)
(* typed and nothing was charged.                                          *)
NewKey ==
  /\ RunAgain /\ FreshRun(cardRun + 1)
  /\ \/ cardExit = "failed"
     \/ cardExit \in {"declined", "unreadable", "api"} /\ typedKey = NoKey

(* `lium topup wait --above BASELINE`, as the exit "credit_not_seen" says. *)
ResumeWait ==
  /\ cardExit = "not_seen" /\ cardStep' = "wait" /\ cardExit' = NoExit /\ CardSame

CardNext ==
  \/ CardPrompt \/ ReadBaseline \/ PostCharge \/ ChargeOutcomeUnknown \/ ChargeAnswered
  \/ ReportCharge \/ WaitForCredit \/ InterruptCard
  \/ (\E r \in Keys : TakeCharge(r)) \/ Settle \/ SameKey \/ NewKey \/ ResumeWait
CardSpec == CardInit /\ [][CardNext]_cardVars

-----------------------------------------------------------------------------
(* Who follows the exits never has two payments that are or may yet be     *)
(* taken, whichever answers were lost and however late a request arrives.  *)
StillOpen(k) == charge[k] \in Paid \cup {"unsure", "open"}
PaidOnce == \A k, l \in Keys : StillOpen(k) /\ StillOpen(l) => k = l

(* What the exit says of the card is so, and stays so: charged; nothing    *)
(* charged under a key that only this run knew, nor will be.               *)
ExitIsTrue ==
  /\ cardExit \in {"ok", "not_seen"} => charge[sentKey] \in Paid
  /\ cardExit = "failed" => charge[sentKey] = "failed"
  /\ cardExit \in {"declined", "unreadable", "api"} /\ typedKey = NoKey =>
       /\ charge[sentKey] = "none"
       /\ \A r \in Keys : post[r] = "travels" => postKey[r] # sentKey

(* A wait whose last read worked gives up only if nothing was credited     *)
(* since this run's request left.                                          *)
WaitSeesTheCredit == cardExit = "not_seen" /\ lastRead # Unread => lastRead <= atPost

(* The payer can rely on the exits of `topup card` and on its wait.        *)
TopUpKeepsItsWord == PaidOnce /\ ExitIsTrue /\ WaitSeesTheCredit
==============================================================================
