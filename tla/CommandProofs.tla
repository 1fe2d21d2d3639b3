---------------------------- MODULE CommandProofs ----------------------------
(***************************************************************************)
(* Commands that spend money and promise something of how they end         *)
(* (MCPodHolders), each for every value of its constants: the card top-up  *)
(* (TopUp), `fund` (Fund), a job with a deadline (BoundedJob), `lium up`   *)
(* (UpCommand), the readiness wait (ReadyWait), `rm` with `ps`             *)
(* (PodTargets); and that each keeps its types.                            *)
(***************************************************************************)
EXTENDS MCPodHolders, FiniteSetTheorems, TLAPS

(* `topup card` (TopUp).  Every key but the one in use is dead: a key is   *)
(* left for a new one only where its payment has failed, or where it was   *)
(* known to one run alone (Lone) and that run's answer says that nothing   *)
(* was made.                                                               *)

(* Keys and requests of runs to come are unused.                           *)
Order ==
  /\ sentKey <= cardRun
  /\ \A r \in Keys : post[r] # "unsent" => r <= cardRun /\ postKey[r] <= cardRun
  /\ \A k \in Keys : k > cardRun => charge[k] = "none"

(* The request of this run went under the key in use.                      *)
KeyInUse == post[cardRun] # "unsent" => postKey[cardRun] = sentKey

(* An answer that is final says what the payment is.                       *)
CardAnswers ==
  \A r \in Keys :
    /\ post[r] = "taken" => charge[postKey[r]] \in Paid
    /\ post[r] = "failed" => charge[postKey[r]] = "failed"

(* No payment is, or will be, made under this key.                         *)
Dead(k) ==
  \/ charge[k] = "failed"
  \/ charge[k] = "none" /\ \A r \in Keys : post[r] = "travels" => postKey[r] # k
OthersDead == \A k \in Keys : k # sentKey => Dead(k)

(* A key that was not typed is known to this run alone, and its payment is *)
(* made by this run's request or not at all.                               *)
Lone ==
  typedKey = NoKey =>
    /\ \A r \in Keys : post[r] = "travels" /\ postKey[r] = sentKey => r = cardRun
    /\ post[cardRun] \in {"unsent", "travels", "refused"} => charge[sentKey] = "none"

(* How far the run has come, and what it has been told.                    *)
Steps ==
  /\ cardStep \in {"wait", "report"} \/ cardExit \in {"ok", "not_seen"} => charge[sentKey] \in Paid
  /\ cardStep \in {"answer", "wait", "report"} \/ cardExit = "not_seen" => post[cardRun] # "unsent"
  /\ cardExit = "failed" => charge[sentKey] = "failed"
  /\ cardExit \in {"declined", "unreadable"} => post[cardRun] = "unsent"
  /\ cardExit = "api" => post[cardRun] = "refused"

(* The baseline was read before the request left.                          *)
Reads ==
  /\ cardStep = "wait" \/ cardExit = "not_seen" => cardWait
  /\ cardWait =>
       /\ cardStep = "post" => baseline \in Nat /\ baseline <= PayBalance
       /\ cardStep \in {"answer", "wait"} \/ cardExit = "not_seen" =>
            baseline \in Nat /\ baseline <= atPost
  /\ cardExit = "not_seen" /\ lastRead # Unread => lastRead <= atPost

CardInv == CardTypeOK /\ Order /\ KeyInUse /\ CardAnswers /\ OthersDead /\ Lone /\ Steps /\ Reads

-----------------------------------------------------------------------------
Charges == {"none", "unsure", "open", "failed"} \cup Paid

(* The exit of each answer but a taken charge.                             *)
LEMMA ExitOfValues ==
  /\ DOMAIN ExitOf = {"pending", "open", "failed", "refused"}
  /\ ExitOf["pending"] = "pending" /\ ExitOf["open"] = "step_up"
  /\ ExitOf["failed"] = "failed" /\ ExitOf["refused"] = "api"
BY DEF ExitOf

(* What an answer tells of the payment.                                    *)
LEMMA PayAnswerValues ==
  ASSUME NEW state \in Charges
  PROVE  /\ PayAnswer(state) \in PayAnswers
         /\ PayAnswer(state) = "taken" <=> state \in Paid
         /\ PayAnswer(state) = "failed" <=> state = "failed"
         /\ PayAnswer(state) = "refused" <=> state = "none"
BY DEF PayAnswer, PayAnswers, Charges, Paid

(* More credited payments are no smaller balance.                          *)
LEMMA BalanceGrows ==
  ASSUME NEW S \in SUBSET Keys, NEW T \in SUBSET Keys, S \subseteq T
  PROVE  Cardinality(S) \in Nat /\ Cardinality(T) \in Nat /\ Cardinality(S) <= Cardinality(T)
<1>1. IsFiniteSet(Keys)
  BY CardAssumption, FS_Interval DEF Keys
<1>2. IsFiniteSet(S) /\ IsFiniteSet(T)
  BY <1>1, FS_Subset
<1> QED
  BY <1>2, FS_Subset, FS_CardinalityType

-----------------------------------------------------------------------------
(* One lemma per action: it keeps the invariant.                           *)

(* The invariant holds before the first run.                               *)
LEMMA CardInitInv == CardInit => CardInv
<1> SUFFICES ASSUME CardInit PROVE CardInv
  OBVIOUS
<1> USE CardAssumption
<1>1. CardTypeOK
  BY DEF CardInit, CardTypeOK, Keys, CardExits, PayAnswers
<1>2. Order /\ KeyInUse /\ CardAnswers /\ OthersDead /\ Lone
  BY DEF CardInit, Order, KeyInUse, CardAnswers, OthersDead, Dead, Lone, Keys
<1>3. Steps /\ Reads
  BY DEF CardInit, Steps, Reads, CardExits
<1> QED BY <1>1, <1>2, <1>3 DEF CardInv

(* A step of the command that sends nothing keeps what is known of keys.   *)
LEMMA RunStep ==
  ASSUME CardInv, UNCHANGED <<cardRun, sentKey, apiVars>>,
         typedKey' = typedKey \/ typedKey' = sentKey
  PROVE  Order' /\ KeyInUse' /\ CardAnswers' /\ OthersDead' /\ Lone'
<1> USE CardAssumption DEF CardInv, CardTypeOK, apiVars, Keys
<1>1. Order' /\ KeyInUse' /\ CardAnswers'
  BY DEF Order, KeyInUse, CardAnswers, Paid
<1>2. OthersDead' /\ Lone'
  BY DEF OthersDead, Dead, Lone
<1> QED BY <1>1, <1>2

(* The prompt.                                                             *)
LEMMA PromptInv == ASSUME CardInv, CardPrompt PROVE CardInv'
<1> USE CardAssumption DEF CardPrompt, CardGoes, CardEnds, CardSame, cardRunVars, apiVars
<1>1. Order' /\ KeyInUse' /\ CardAnswers' /\ OthersDead' /\ Lone'
  BY RunStep
<1>2. CardTypeOK'
  BY DEF CardInv, CardTypeOK, CardExits, Keys
<1>3. Steps' /\ Reads'
  BY DEF CardInv, CardTypeOK, CardExits, Keys, Steps, Reads, PayBalance
<1> QED BY <1>1, <1>2, <1>3 DEF CardInv

(* The balance is a number.                                                *)
LEMMA BalanceIsNat == ASSUME CardTypeOK PROVE PayBalance \in Nat
BY BalanceGrows, SMT DEF PayBalance, CardTypeOK

(* The read before the charge.                                             *)
LEMMA BaselineInv == ASSUME CardInv, ReadBaseline PROVE CardInv'
<1> USE CardAssumption DEF ReadBaseline, CardGoes, CardEnds, cardRunVars, apiVars
<1>1. Order' /\ KeyInUse' /\ CardAnswers' /\ OthersDead' /\ Lone'
  BY RunStep
<1>2. PayBalance \in Nat /\ PayBalance' = PayBalance
  BY BalanceIsNat DEF CardInv, PayBalance
<1>3. CardTypeOK'
  BY <1>2 DEF CardInv, CardTypeOK, CardExits, Keys
<1>4. Steps'
  BY DEF CardInv, CardTypeOK, CardExits, Steps, Paid
<1>5. Reads'
  <2>1. CASE cardWait /\ cardStep' = "post" /\ baseline' = PayBalance
    BY <1>2, <2>1 DEF CardInv, CardTypeOK, CardExits, Reads
  <2>2. CASE cardWait /\ cardExit' = "unreadable" /\ cardStep' = "ended"
    BY <2>2 DEF CardInv, CardTypeOK, CardExits, Reads
  <2>3. CASE ~cardWait
    BY <2>3 DEF CardInv, CardTypeOK, CardExits, Reads
  <2> QED BY <2>1, <2>2, <2>3
<1> QED BY <1>1, <1>3, <1>4, <1>5 DEF CardInv

(* The request leaves.                                                     *)
LEMMA PostInv == ASSUME CardInv, PostCharge PROVE CardInv'
<1> USE CardAssumption DEF PostCharge, CardGoes, Keys
<1>1. PayBalance \in Nat /\ PayBalance' = PayBalance
  BY BalanceIsNat DEF CardInv, PayBalance
<1>2. CardTypeOK'
  BY <1>1 DEF CardInv, CardTypeOK, CardExits, PayAnswers
<1>3. /\ cardRun \in Keys /\ sentKey \in Keys
      /\ post'[cardRun] = "travels" /\ postKey'[cardRun] = sentKey
      /\ \A r \in Keys : r # cardRun => post'[r] = post[r] /\ postKey'[r] = postKey[r]
  BY DEF CardInv, CardTypeOK
<1>4. Order' /\ KeyInUse'
  <2>1. sentKey <= cardRun /\ \A k \in Keys : k > cardRun => charge[k] = "none"
    BY DEF CardInv, Order
  <2>2. ASSUME NEW r \in Keys, post'[r] # "unsent" PROVE r <= cardRun /\ postKey'[r] <= cardRun
    <3>1. CASE r = cardRun
      BY <1>3, <2>1, <3>1 DEF CardInv, CardTypeOK
    <3>2. CASE r # cardRun
      BY <1>3, <2>2, <3>2 DEF CardInv, Order
    <3> QED BY <3>1, <3>2
  <2> QED BY <1>3, <2>1, <2>2 DEF Order, KeyInUse
<1>6. CardAnswers'
  BY <1>3 DEF CardInv, CardAnswers
<1>7. OthersDead'
  BY <1>3 DEF CardInv, CardTypeOK, OthersDead, Dead
<1>8. Lone'
  BY <1>3 DEF CardInv, CardTypeOK, Lone
<1>5. Steps' /\ Reads'
  BY <1>1 DEF CardInv, CardTypeOK, CardExits, Steps, Reads, PayAnswers
<1> QED BY <1>2, <1>4, <1>5, <1>6, <1>7, <1>8 DEF CardInv

(* The answer is lost.                                                     *)
LEMMA UnknownInv == ASSUME CardInv, ChargeOutcomeUnknown PROVE CardInv'
<1> USE CardAssumption DEF ChargeOutcomeUnknown, CardEnds, CardSame, cardRunVars, apiVars
<1>1. Order' /\ KeyInUse' /\ CardAnswers' /\ OthersDead' /\ Lone'
  BY RunStep
<1>2. CardTypeOK'
  BY DEF CardInv, CardTypeOK, CardExits, Keys
<1>3. Steps' /\ Reads'
  BY DEF CardInv, CardTypeOK, CardExits, Keys, Steps, Reads, PayBalance
<1> QED BY <1>1, <1>2, <1>3 DEF CardInv

(* The answer arrives.                                                     *)
LEMMA AnsweredInv == ASSUME CardInv, ChargeAnswered PROVE CardInv'
<1> USE CardAssumption
<1>1. UNCHANGED <<cardRun, typedKey, sentKey, cardWait, baseline, lastRead, atPost,
                  post, postKey, charge, others>>
  BY DEF ChargeAnswered, CardSame, cardRunVars, apiVars
<1>2. Order' /\ KeyInUse' /\ CardAnswers' /\ OthersDead' /\ Lone'
  BY <1>1, RunStep DEF apiVars
<1>3. /\ cardStep = "answer" /\ cardStep' \in {"wait", "report", "ended"}
      /\ cardStep' = "wait" => cardWait
      /\ cardStep' # "ended" => post[cardRun] = "taken" /\ cardExit' = NoExit
      /\ cardStep' = "ended" => cardExit' \in {"pending", "step_up", "failed", "api"}
      /\ cardStep' = "ended" /\ cardExit' = "failed" => post[cardRun] = "failed"
      /\ cardStep' = "ended" /\ cardExit' = "api" => post[cardRun] = "refused"
  BY ExitOfValues DEF ChargeAnswered, CardGoes, CardEnds, CardInv, CardTypeOK
<1>4. /\ post[cardRun] = "taken" => charge[sentKey] \in Paid
      /\ post[cardRun] = "failed" => charge[sentKey] = "failed"
  BY DEF CardInv, CardTypeOK, CardAnswers, KeyInUse
<1>5. CASE cardStep' # "ended"
  <2>1. CardTypeOK'
    BY <1>1, <1>3, <1>5 DEF CardInv, CardTypeOK
  <2>2. Steps'
    BY <1>1, <1>3, <1>4, <1>5 DEF Steps, CardExits
  <2>3. Reads'
    BY <1>1, <1>3, <1>5 DEF CardInv, Reads, CardExits
  <2> QED BY <1>2, <2>1, <2>2, <2>3 DEF CardInv
<1>6. CASE cardStep' = "ended"
  <2>1. CardTypeOK'
    BY <1>1, <1>3, <1>6 DEF CardInv, CardTypeOK, CardExits
  <2>2. Steps'
    BY <1>1, <1>3, <1>4, <1>6 DEF Steps
  <2>3. Reads'
    BY <1>1, <1>3, <1>6 DEF CardInv, Reads
  <2> QED BY <1>2, <2>1, <2>2, <2>3 DEF CardInv
<1> QED BY <1>5, <1>6

(* The report.                                                             *)
LEMMA ReportInv == ASSUME CardInv, ReportCharge PROVE CardInv'
<1> USE CardAssumption DEF ReportCharge, CardEnds, CardSame, cardRunVars, apiVars
<1>1. Order' /\ KeyInUse' /\ CardAnswers' /\ OthersDead' /\ Lone'
  BY RunStep
<1>2. CardTypeOK'
  BY DEF CardInv, CardTypeOK, CardExits, Keys
<1>3. Steps' /\ Reads'
  BY DEF CardInv, CardTypeOK, CardExits, Keys, Steps, Reads, PayBalance
<1> QED BY <1>1, <1>2, <1>3 DEF CardInv

(* The wait ends.                                                          *)
LEMMA CreditWaitInv == ASSUME CardInv, WaitForCredit PROVE CardInv'
<1> USE CardAssumption DEF WaitForCredit, CardEnds, cardRunVars, apiVars
<1>1. Order' /\ KeyInUse' /\ CardAnswers' /\ OthersDead' /\ Lone'
  BY RunStep
<1>2. PayBalance \in Nat
  BY BalanceIsNat DEF CardInv
<1>3. CardTypeOK'
  BY <1>2 DEF CardInv, CardTypeOK, CardExits, Keys
<1>4. Steps'
  BY DEF CardInv, CardTypeOK, CardExits, Steps
<1>5. Reads'
  BY <1>2 DEF CardInv, CardTypeOK, CardExits, Reads
<1> QED BY <1>1, <1>3, <1>4, <1>5 DEF CardInv

(* Ctrl-C.                                                                 *)
LEMMA InterruptInv == ASSUME CardInv, InterruptCard PROVE CardInv'
<1> USE CardAssumption DEF InterruptCard, CardEnds, cardRunVars, apiVars
<1>1. Order' /\ KeyInUse' /\ CardAnswers' /\ OthersDead' /\ Lone'
  BY RunStep
<1>2. CardTypeOK'
  BY DEF CardInv, CardTypeOK, CardExits, Keys
<1>3. Steps' /\ Reads'
  BY DEF CardInv, CardTypeOK, CardExits, Keys, Steps, Reads, PayBalance
<1> QED BY <1>1, <1>2, <1>3 DEF CardInv

(* `topup wait` after a wait that gave up.                                 *)
LEMMA ResumeInv == ASSUME CardInv, ResumeWait PROVE CardInv'
<1> USE CardAssumption DEF ResumeWait, CardSame, cardRunVars, apiVars
<1>1. Order' /\ KeyInUse' /\ CardAnswers' /\ OthersDead' /\ Lone'
  BY RunStep
<1>2. CardTypeOK'
  BY DEF CardInv, CardTypeOK, CardExits, Keys
<1>3. Steps' /\ Reads'
  BY DEF CardInv, CardTypeOK, CardExits, Keys, Steps, Reads, PayBalance
<1> QED BY <1>1, <1>2, <1>3 DEF CardInv

(* Stripe, the cardholder, the webhook.                                    *)
LEMMA SettleInv == ASSUME CardInv, Settle PROVE CardInv'
<1> USE CardAssumption DEF Settle, cardRunVars
<1>1. CASE others = 0 /\ others' = 1 /\ UNCHANGED charge
  <2>1. PayBalance \in Nat /\ PayBalance' \in Nat /\ PayBalance <= PayBalance'
    BY <1>1, BalanceIsNat, BalanceGrows DEF CardInv, CardTypeOK, PayBalance
  <2>2. CardTypeOK'
    BY <1>1 DEF CardInv, CardTypeOK, Keys
  <2>3. Order' /\ KeyInUse' /\ CardAnswers' /\ OthersDead' /\ Lone' /\ Steps'
    BY <1>1 DEF CardInv, Order, KeyInUse, CardAnswers, OthersDead, Dead, Lone, Steps
  <2>4. Reads'
    BY <1>1, <2>1 DEF CardInv, CardTypeOK, Reads
  <2> QED BY <2>2, <2>3, <2>4 DEF CardInv
<1>2. CASE UNCHANGED others
  <2>1. PICK k \in Keys, state \in Paid \cup {"failed"} :
           /\ charge[k] = "taken" => state = "credited"
           /\ charge[k] # "taken" => charge[k] \in {"unsure", "open"}
              /\ state \in {"taken", "failed"}
           /\ charge' = [charge EXCEPT ![k] = state]
    BY <1>2 DEF CardInv, CardTypeOK
  <2>2. /\ charge[k] \in {"taken", "unsure", "open"}
        /\ charge'[k] = state
        /\ \A l \in Keys : l # k => charge'[l] = charge[l]
    BY <2>1 DEF CardInv, CardTypeOK
  <2>3. CardTypeOK'
    BY <1>2, <2>1 DEF CardInv, CardTypeOK, Paid
  <2>4. Order' /\ KeyInUse'
    BY <2>2 DEF CardInv, CardTypeOK, Order, KeyInUse
  <2>5. CardAnswers'
    BY <2>1, <2>2 DEF CardInv, CardTypeOK, CardAnswers, Paid
  <2>6. OthersDead'
    BY <2>2 DEF CardInv, CardTypeOK, OthersDead, Dead
  <2>7. Lone'
    BY <2>2 DEF CardInv, CardTypeOK, Lone
  <2>8. Steps'
    BY <2>1, <2>2 DEF CardInv, CardTypeOK, Steps, Paid
  <2>9. PayBalance \in Nat /\ PayBalance' \in Nat /\ PayBalance <= PayBalance'
    <3>1. {l \in Keys : charge[l] = "credited"} \subseteq {l \in Keys : charge'[l] = "credited"}
      BY <2>2
    <3> QED BY <3>1, <1>2, BalanceGrows DEF CardInv, CardTypeOK, PayBalance
  <2>10. Reads'
    BY <2>9 DEF CardInv, CardTypeOK, Reads
  <2> QED BY <2>3, <2>4, <2>5, <2>6, <2>7, <2>8, <2>10 DEF CardInv
<1> QED BY <1>1, <1>2

(* A request reaches the API.                                              *)
LEMMA TakeInv == ASSUME CardInv, NEW r \in Keys, TakeCharge(r) PROVE CardInv'
<1> USE CardAssumption DEF cardRunVars
<1> DEFINE k == postKey[r]
<1>1. PICK state \in Charges, a \in PayAnswers :
         /\ post[r] = "travels"
         /\ charge[k] # "none" => state = charge[k]
         /\ charge' = [charge EXCEPT ![k] = state]
         /\ post' = [post EXCEPT ![r] = a]
         /\ a = "taken" => state \in Paid
         /\ a = "failed" => state = "failed"
         /\ charge[k] = "none" /\ a = "refused" => state = "none"
  <2>1. PICK state \in IF charge[k] = "none" THEN {"none", "unsure", "taken", "open", "failed"}
                       ELSE {charge[k]} :
           /\ charge' = [charge EXCEPT ![k] = state]
           /\ post' \in {[post EXCEPT ![r] = a] :
                           a \in IF charge[k] = "none" THEN {PayAnswer(state)}
                                 ELSE {PayAnswer(state), "refused"}}
    BY DEF TakeCharge
  <2>2. post[r] = "travels" /\ k \in Keys /\ charge[k] \in Charges /\ state \in Charges
    BY <2>1 DEF TakeCharge, CardInv, CardTypeOK, Charges, Paid
  <2>3. PICK a \in {PayAnswer(state), "refused"} :
           /\ post' = [post EXCEPT ![r] = a]
           /\ charge[k] = "none" => a = PayAnswer(state)
    BY <2>1
  <2>4. a \in PayAnswers
    BY <2>2, <2>3, PayAnswerValues DEF PayAnswers
  <2>5. /\ a = "taken" => state \in Paid
        /\ a = "failed" => state = "failed"
        /\ charge[k] = "none" /\ a = "refused" => state = "none"
    BY <2>2, <2>3, PayAnswerValues
  <2> QED BY <2>1, <2>2, <2>3, <2>4, <2>5
<1>2. /\ k \in Keys /\ charge'[k] = state /\ post'[r] = a
      /\ \A l \in Keys : l # k => charge'[l] = charge[l]
      /\ \A s \in Keys : s # r => post'[s] = post[s]
  BY <1>1 DEF CardInv, CardTypeOK
<1>3. UNCHANGED <<cardRun, typedKey, sentKey, cardWait, baseline, lastRead, atPost,
                  cardStep, cardExit, postKey, others>>
  BY DEF TakeCharge
<1>4. CardTypeOK'
  BY <1>1, <1>3 DEF CardInv, CardTypeOK, Charges, PayAnswers
<1>5. Order' /\ KeyInUse'
  <2>1. k <= cardRun /\ r <= cardRun
    BY <1>1 DEF CardInv, Order
  <2>2. ASSUME NEW l \in Keys, l > cardRun PROVE charge'[l] = "none"
    <3>1. l # k
      BY <2>1, <2>2, <1>2 DEF CardInv, CardTypeOK, Keys
    <3> QED BY <1>2, <2>2, <3>1 DEF CardInv, Order
  <2>3. ASSUME NEW s \in Keys, post'[s] # "unsent" PROVE s <= cardRun /\ postKey[s] <= cardRun
    BY <1>1, <1>2, <2>3 DEF CardInv, Order
  <2>4. KeyInUse'
    BY <1>1, <1>2, <1>3 DEF CardInv, CardTypeOK, KeyInUse
  <2> QED BY <1>3, <2>2, <2>3, <2>4 DEF CardInv, Order
<1>6. CardAnswers'
  BY <1>1, <1>2, <1>3 DEF CardInv, CardTypeOK, CardAnswers, Paid
<1>7. OthersDead'
  BY <1>1, <1>2, <1>3 DEF CardInv, CardTypeOK, OthersDead, Dead, PayAnswers
<1>8. Lone'
  BY <1>1, <1>2, <1>3 DEF CardInv, CardTypeOK, Lone, KeyInUse, PayAnswers
<1>9. Steps'
  BY <1>1, <1>2, <1>3 DEF CardInv, CardTypeOK, Steps, Paid, PayAnswers, CardExits
<1>10. PayBalance \in Nat /\ PayBalance' \in Nat /\ PayBalance <= PayBalance'
  <2>1. {l \in Keys : charge[l] = "credited"} \subseteq {l \in Keys : charge'[l] = "credited"}
    BY <1>1, <1>2
  <2> QED BY <2>1, <1>3, BalanceGrows DEF CardInv, CardTypeOK, PayBalance
<1>11. Reads'
  BY <1>3, <1>10 DEF CardInv, CardTypeOK, Reads
<1> QED BY <1>4, <1>5, <1>6, <1>7, <1>8, <1>9, <1>11 DEF CardInv

(* The order of runs and keys stands when the next run begins.             *)
LEMMA RunsOn ==
  ASSUME CardTypeOK, Order, cardRun' \in Keys, cardRun' = cardRun + 1,
         sentKey' \in {sentKey, cardRun'}, UNCHANGED <<post, postKey, charge>>
  PROVE  Order'
<1>1. cardRun \in Nat /\ sentKey \in Nat /\ Keys \subseteq Nat
  BY CardAssumption DEF CardTypeOK, Keys
<1>2. sentKey' <= cardRun'
  BY <1>1 DEF Order
<1>3. ASSUME NEW r \in Keys, post'[r] # "unsent" PROVE r <= cardRun' /\ postKey'[r] <= cardRun'
  <2>1. r <= cardRun /\ postKey[r] <= cardRun
    BY <1>3 DEF Order
  <2>2. r \in Nat /\ postKey[r] \in Nat
    BY <1>1 DEF CardTypeOK
  <2> QED BY <1>1, <2>1, <2>2
<1>4. ASSUME NEW k \in Keys, k > cardRun' PROVE charge'[k] = "none"
  <2>1. k > cardRun
    BY <1>1, <1>4
  <2> QED BY <2>1 DEF Order
<1> QED BY <1>2, <1>3, <1>4 DEF Order

(* The payer repeats with the key.                                         *)
LEMMA SameKeyInv == ASSUME CardInv, SameKey PROVE CardInv'
<1> USE CardAssumption DEF SameKey, RunAgain, apiVars
<1>1. cardRun' \in Keys /\ cardRun' = cardRun + 1 /\ sentKey' = sentKey /\ typedKey' = sentKey
  BY DEF CardInv, CardTypeOK, Keys
<1>2. post[cardRun'] = "unsent"
  BY <1>1 DEF CardInv, CardTypeOK, Order, Keys
<1>3. CardTypeOK'
  BY <1>1, <1>2 DEF CardInv, CardTypeOK
<1>4. Order' /\ KeyInUse'
  BY <1>1, <1>2, RunsOn DEF CardInv, KeyInUse
<1>5. CardAnswers' /\ OthersDead'
  BY <1>1 DEF CardInv, CardAnswers, OthersDead, Dead
<1>6. Lone'
  BY <1>1 DEF CardInv, CardTypeOK, Lone, Keys
<1>7. Steps' /\ Reads'
  BY DEF Steps, Reads, CardExits
<1> QED BY <1>3, <1>4, <1>5, <1>6, <1>7 DEF CardInv

(* The payer takes a new key: the old one is dead.                         *)
LEMMA NewKeyInv == ASSUME CardInv, NewKey PROVE CardInv'
<1> USE CardAssumption DEF NewKey, RunAgain, FreshRun, apiVars
<1>1. /\ cardRun' \in Keys /\ cardRun' = cardRun + 1 /\ sentKey' = cardRun'
      /\ typedKey' \in {cardRun', NoKey}
  BY DEF CardInv, CardTypeOK, Keys
<1>2. /\ post[cardRun'] = "unsent" /\ charge[cardRun'] = "none"
      /\ \A r \in Keys : post[r] # "unsent" => postKey[r] # cardRun'
  BY <1>1 DEF CardInv, CardTypeOK, Order, Keys
<1>3. CardTypeOK'
  BY <1>1, <1>2 DEF CardInv, CardTypeOK
<1>4. Order' /\ KeyInUse'
  BY <1>1, <1>2, RunsOn DEF CardInv, KeyInUse
<1>5. Dead(sentKey)
  <2>1. CASE cardExit = "failed"
    BY <2>1 DEF CardInv, Steps, Dead
  <2>2. CASE cardExit \in {"declined", "unreadable", "api"} /\ typedKey = NoKey
    BY <2>2 DEF CardInv, CardTypeOK, Steps, Lone, Dead
  <2> QED BY <2>1, <2>2
<1>6. OthersDead'
  BY <1>1, <1>5 DEF CardInv, OthersDead, Dead
<1>7. CardAnswers' /\ Lone'
  BY <1>1, <1>2 DEF CardInv, CardTypeOK, CardAnswers, Lone
<1>8. Steps' /\ Reads'
  BY DEF Steps, Reads, CardExits
<1> QED BY <1>3, <1>4, <1>6, <1>7, <1>8 DEF CardInv

-----------------------------------------------------------------------------
LEMMA CardNextInv == CardInv /\ [CardNext]_cardVars => CardInv'
<1> SUFFICES ASSUME CardInv, [CardNext]_cardVars PROVE CardInv'
  OBVIOUS
<1>1. CASE CardNext
  BY <1>1, PromptInv, BaselineInv, PostInv, UnknownInv, AnsweredInv, ReportInv, CreditWaitInv,
     InterruptInv, TakeInv, SettleInv, SameKeyInv, NewKeyInv, ResumeInv DEF CardNext
<1>2. CASE UNCHANGED cardVars
  BY <1>2 DEF cardVars, cardRunVars, apiVars, CardInv, CardTypeOK, Order, KeyInUse, CardAnswers,
     OthersDead, Dead, Lone, Steps, Reads, PayBalance
<1> QED BY <1>1, <1>2

(* Nobody who follows the exits of `topup card` pays twice, the exits are  *)
(* true, and a wait does not miss its credit.                              *)
THEOREM TopUpIsKept == CardSpec => []TopUpKeepsItsWord
<1>1. CardInv => PaidOnce
  BY DEF CardInv, CardTypeOK, OthersDead, Dead, PaidOnce, StillOpen, Paid
<1>2. CardInv => ExitIsTrue
  BY CardAssumption DEF CardInv, CardTypeOK, Steps, Lone, ExitIsTrue
<1>3. CardInv => WaitSeesTheCredit
  BY DEF CardInv, Reads, WaitSeesTheCredit
<1> QED BY <1>1, <1>2, <1>3, CardInitInv, CardNextInv, PTL DEF CardSpec, TopUpKeepsItsWord

----------------------------------------------------------------------------

(* Only this run has a transfer, and its exit tells of it.                 *)
OnlyThisRun ==
  /\ \A r \in FundRunIds : r # fundRun => extrinsic[r] = "none"
  /\ extrinsic[fundRun] # "none" =>
       fundStep = "sent" \/ fundExit \in {"ok", "transfer_failed", "interrupted"}
  /\ fundExit = "ok" => extrinsic[fundRun] = "landed"

(* TAO has no target but the built-in address.                             *)
TaoPath ==
  ~alphaFlow =>
    /\ target = NoTarget /\ agreed = NoTarget /\ wantedNet = NoNet
    /\ fundStep \in {"client", "confirm", "register", "send", "sent", "ended"}
    /\ fundStep = "send" => registered

(* The target of alpha stands from the quote on.                           *)
AlphaPath ==
  alphaFlow =>
    /\ fundStep \in {"quote", "check", "confirm", "requote", "gate", "send"} =>
         target \in Targets /\ registered
    /\ fundStep = "address" => registered
    /\ fundStep \in {"check", "confirm", "requote", "gate", "send"} /\ wantedNet # NoNet =>
         target.net = wantedNet
    /\ fundStep \in {"requote", "gate", "send"} => agreed = target

(* What a transfer of this run was signed for.                             *)
SentFor ==
  extrinsic[fundRun] # "none" =>
    /\ registered /\ sentTo[fundRun] = agreed
    /\ wantedNet # NoNet => agreed.net = wantedNet

FundInv == FundTypeOK /\ OnlyThisRun /\ TaoPath /\ AlphaPath /\ SentFor

-----------------------------------------------------------------------------
(* The invariant holds before the first run.                               *)
LEMMA FundInitInv == FundInit => FundInv
BY FundAssumption DEF FundInit, FundInv, FundTypeOK, FundExits, FundRunIds, Sent, OnlyThisRun,
   TaoPath, AlphaPath, SentFor

(* A step of the command before the transfer.                              *)
LEMMA BeforeInv ==
  ASSUME FundInv,
         FundClient \/ CheckSubnets \/ RegisterWallet \/ ResolveAddress \/ QuoteAlpha
           \/ ShowFreeAlpha \/ ConfirmFund \/ RequoteAlpha \/ GateAlpha
  PROVE  FundInv'
<1> USE FundAssumption
     DEF FundGoes, FundEnds, FundFails, FundOnly, fundLine, runSide, chainSide, paySide
<1>1. UNCHANGED <<alphaFlow, wantedNet, fundRun, freeAlpha, extrinsic, sentTo, payAddress, primaryNet>>
  BY DEF FundClient, CheckSubnets, RegisterWallet, ResolveAddress, QuoteAlpha, ShowFreeAlpha,
     ConfirmFund, RequoteAlpha, GateAlpha
<1>2. /\ fundStep # "sent" /\ fundExit = StillFunding /\ extrinsic[fundRun] = "none"
      /\ fundStep' = "ended" => fundExit' \in {"declined", "api"}
      /\ fundStep' # "ended" => fundExit' = StillFunding /\ fundStep' # "sent"
  BY DEF FundInv, FundTypeOK, FundExits, OnlyThisRun, FundClient, CheckSubnets, RegisterWallet,
       ResolveAddress, QuoteAlpha,
     ShowFreeAlpha, ConfirmFund, RequoteAlpha, GateAlpha
<1>3. OnlyThisRun' /\ SentFor'
  BY <1>1, <1>2 DEF FundInv, OnlyThisRun, SentFor, FundExits
<1>4. FundTypeOK' /\ TaoPath' /\ AlphaPath'
  <2>1. CASE FundClient
    BY <1>1, <1>2, <2>1 DEF FundClient, FundInv, FundTypeOK, FundExits, Sent, TaoPath, AlphaPath
  <2>2. CASE CheckSubnets
    BY <1>1, <1>2, <2>2 DEF CheckSubnets, FundInv, FundTypeOK, FundExits, Sent, TaoPath, AlphaPath
  <2>3. CASE RegisterWallet
    <3>1. UNCHANGED <<target, agreed>> /\ registered' \in BOOLEAN /\ (registered => registered')
      BY <2>3 DEF RegisterWallet, FundInv, FundTypeOK
    <3>2. CASE fundStep' = "ended"
      BY <1>1, <1>2, <2>3, <3>1, <3>2 DEF FundInv, FundTypeOK, FundExits, Sent, TaoPath, AlphaPath
    <3>3. CASE /\ fundStep' = (IF alphaFlow THEN "address" ELSE "send")
               /\ registered' = TRUE
      BY <1>1, <1>2, <3>1, <3>3 DEF FundInv, FundTypeOK, FundExits, Sent, TaoPath, AlphaPath
    <3> QED BY <2>3, <3>2, <3>3 DEF RegisterWallet
  <2>4. CASE ResolveAddress
    BY <1>1, <1>2, <2>4
         DEF ResolveAddress, FundInv, FundTypeOK, FundExits, Sent, TaoPath, AlphaPath, Targets
  <2>5. CASE QuoteAlpha
    BY <1>1, <1>2, <2>5 DEF QuoteAlpha, QuotedNet, FundInv, FundTypeOK, FundExits, Sent, TaoPath,
         AlphaPath, Targets
  <2>6. CASE ShowFreeAlpha
    BY <1>1, <1>2, <2>6 DEF ShowFreeAlpha, FundInv, FundTypeOK, FundExits, Sent, TaoPath, AlphaPath
  <2>7. CASE ConfirmFund
    BY <1>1, <1>2, <2>7 DEF ConfirmFund, FundInv, FundTypeOK, FundExits, Sent, TaoPath, AlphaPath
  <2>8. CASE RequoteAlpha
    BY <1>1, <1>2, <2>8 DEF RequoteAlpha, FundInv, FundTypeOK, FundExits, Sent, TaoPath, AlphaPath
  <2>9. CASE GateAlpha
    BY <1>1, <1>2, <2>9 DEF GateAlpha, FundInv, FundTypeOK, FundExits, Sent, TaoPath, AlphaPath
  <2> QED BY <2>1, <2>2, <2>3, <2>4, <2>5, <2>6, <2>7, <2>8, <2>9
<1> QED BY <1>3, <1>4 DEF FundInv

(* The transfer is signed, or fails before that.                           *)
LEMMA SignInv == ASSUME FundInv, SignTransfer PROVE FundInv'
<1> USE FundAssumption DEF SignTransfer, FundGoes, FundEnds, fundLine, runSide, paySide
<1>1. CASE /\ FundGoes("send", "sent")
           /\ extrinsic' = [extrinsic EXCEPT ![fundRun] = "travels"]
           /\ sentTo' = [sentTo EXCEPT ![fundRun] = target]
  <2>1. /\ extrinsic'[fundRun] = "travels" /\ sentTo'[fundRun] = target
        /\ \A r \in FundRunIds : r # fundRun => extrinsic'[r] = extrinsic[r]
           /\ sentTo'[r] = sentTo[r]
    BY <1>1 DEF FundInv, FundTypeOK
  <2>2. FundTypeOK'
    BY <1>1, <2>1
         DEF FundInv, FundTypeOK, FundExits, Sent, TaoPath, AlphaPath, FundRunIds, OnlyThisRun
  <2>3. OnlyThisRun'
    BY <1>1, <2>1 DEF FundInv, OnlyThisRun, FundTypeOK, FundExits
  <2>4. TaoPath' /\ AlphaPath' /\ SentFor'
    BY <1>1, <2>1 DEF FundInv, TaoPath, AlphaPath, SentFor, FundTypeOK
  <2> QED BY <2>2, <2>3, <2>4 DEF FundInv
<1>2. CASE /\ FundEnds("send", IF alphaFlow THEN "api" ELSE "transfer_failed")
           /\ UNCHANGED <<extrinsic, sentTo>>
  BY <1>2 DEF FundInv, FundTypeOK, FundExits, Sent, OnlyThisRun, TaoPath, AlphaPath, SentFor
<1> QED BY <1>1, <1>2

(* The chain's answer, or none.                                            *)
LEMMA FundAnsweredInv == ASSUME FundInv, TransferAnswered PROVE FundInv'
<1> USE FundAssumption DEF TransferAnswered, TransferEnds, FundEnds, FundOnly, fundLine, runSide,
        chainSide, paySide
<1>1. fundStep = "sent" /\ fundStep' = "ended"
  OBVIOUS
<1>2. fundExit' \in {"ok", "transfer_failed"} /\ (fundExit' = "ok" => extrinsic[fundRun] = "landed")
  OBVIOUS
<1> QED
  BY <1>1, <1>2 DEF FundInv, FundTypeOK, FundExits, Sent, OnlyThisRun, TaoPath, AlphaPath, SentFor

(* Ctrl-C, or a kill.                                                      *)
LEMMA FundInterruptInv == ASSUME FundInv, InterruptFund PROVE FundInv'
BY FundAssumption DEF InterruptFund, FundEnds, FundOnly, fundLine, runSide, chainSide, paySide,
   FundInv, FundTypeOK, FundExits, Sent, OnlyThisRun, TaoPath, AlphaPath, SentFor

(* The chain includes a transfer, or rejects it.                           *)
LEMMA LandInv == ASSUME FundInv, NEW r \in FundRunIds, Land(r) PROVE FundInv'
<1> USE FundAssumption DEF fundLine, runSide, paySide
<1>1. UNCHANGED <<alphaFlow, wantedNet, fundRun, fundStep, fundExit, target, agreed, payAddress,
                  primaryNet, registered, sentTo>>
  BY DEF Land
<1>2. PICK end \in {"landed", "rejected"} : extrinsic' = [extrinsic EXCEPT ![r] = end]
  BY DEF Land
<1>3. extrinsic[r] = "travels" /\ r = fundRun
  BY DEF Land, FundInv, OnlyThisRun
<1>4. /\ extrinsic'[fundRun] = end
      /\ \A s \in FundRunIds : s # fundRun => extrinsic'[s] = extrinsic[s]
  BY <1>2, <1>3 DEF FundInv, FundTypeOK
<1>5. fundExit # "ok"
  BY <1>3 DEF FundInv, OnlyThisRun
<1>6. freeAlpha' \in [Nets -> 0..MaxAlpha]
  <2>1. CASE UNCHANGED freeAlpha
    BY <2>1 DEF FundInv, FundTypeOK
  <2>2. CASE /\ sentTo[r] # NoTarget /\ sentTo[r].amount <= freeAlpha[sentTo[r].net]
             /\ freeAlpha' = [freeAlpha EXCEPT ![sentTo[r].net] = @ - sentTo[r].amount]
    <3>1. sentTo[r] \in Targets
      BY <2>2 DEF FundInv, FundTypeOK
    <3>2. CASE sentTo[r].net \in Nets
      BY <2>2, <3>1, <3>2 DEF FundInv, FundTypeOK, Targets
    <3>3. CASE sentTo[r].net \notin Nets
      BY <2>2, <3>3 DEF FundInv, FundTypeOK
    <3> QED BY <3>2, <3>3
  <2> QED BY <2>1, <2>2 DEF Land
<1>7. FundTypeOK'
  BY <1>1, <1>2, <1>3, <1>4, <1>6 DEF FundInv, FundTypeOK, Sent
<1>8. OnlyThisRun' /\ TaoPath' /\ AlphaPath' /\ SentFor'
  BY <1>1, <1>3, <1>4, <1>5 DEF FundInv, OnlyThisRun, TaoPath, AlphaPath, SentFor
<1> QED BY <1>7, <1>8 DEF FundInv

(* Addresses, subnets and stakes change.                                   *)
LEMMA RotatesInv == ASSUME FundInv, Rotates PROVE FundInv'
<1> USE FundAssumption DEF Rotates, fundLine, runSide
<1>1. freeAlpha' \in [Nets -> 0..MaxAlpha] /\ payAddress' \in Addresses /\ primaryNet' \in Nets
  BY DEF FundInv, FundTypeOK
<1>2. FundTypeOK'
  BY <1>1 DEF FundInv, FundTypeOK, Sent
<1> QED BY <1>2 DEF FundInv, OnlyThisRun, TaoPath, AlphaPath, SentFor

(* The payer runs the command again.                                       *)
LEMMA FundAgainInv == ASSUME FundInv, FundAgain PROVE FundInv'
<1> USE FundAssumption DEF FundAgain, chainSide, paySide
<1>1. \A r \in FundRunIds : extrinsic[r] = "none"
  BY DEF FundInv, FundTypeOK, FundExits, OnlyThisRun
<1>2. FundTypeOK'
  BY <1>1 DEF FundInv, FundTypeOK, FundExits, FundRunIds, Sent
<1>3. OnlyThisRun' /\ TaoPath' /\ AlphaPath' /\ SentFor'
  BY <1>1, <1>2 DEF FundInv, FundTypeOK, FundExits, OnlyThisRun, TaoPath, AlphaPath, SentFor
<1> QED BY <1>2, <1>3 DEF FundInv

-----------------------------------------------------------------------------
LEMMA FundNextInv == FundInv /\ [FundNext]_fundVars => FundInv'
<1> SUFFICES ASSUME FundInv, [FundNext]_fundVars PROVE FundInv'
  OBVIOUS
<1>1. CASE FundNext
  BY <1>1, BeforeInv, SignInv, FundAnsweredInv, FundInterruptInv, LandInv, RotatesInv, FundAgainInv
     DEF FundNext
<1>2. CASE UNCHANGED fundVars
  BY <1>2 DEF fundVars, fundLine, runSide, chainSide, paySide, FundInv, FundTypeOK, Sent,
     OnlyThisRun, TaoPath, AlphaPath, SentFor
<1> QED BY <1>1, <1>2

(* Who follows the exits of `fund` funds at most once, with what he agreed *)
(* to, and a run that does not warn of it has sent nothing.                *)
THEOREM FundIsKept == FundSpec => []FundKeepsItsWord
<1>1. FundInv => FundedOnce
  BY DEF FundInv, OnlyThisRun, FundedOnce
<1>2. FundInv => SentAsAgreed
  BY FundAssumption DEF FundInv, FundTypeOK, FundExits, OnlyThisRun, SentFor, SentAsAgreed, Sent
<1> QED BY <1>1, <1>2, FundInitInv, FundNextInv, PTL DEF FundSpec, FundKeepsItsWord

-----------------------------------------------------------------------------
(* A job with a deadline (BoundedJob).                                     *)

(* The call knows its pod from the rent on; attempts are left where one is *)
(* made.                                                                   *)
JobKnows ==
  /\ jobStep \in {"schedule", "wait", "remove", "confirm", "fallback"} \cup Working => knows
  /\ acked => knows
  /\ jobStep \in {"rent", "find", "schedule", "wait"} \cup Working => left = Attempts
  /\ jobStep = "remove" => left > 0

(* A pod of a refused rent is never made, one that was deleted is on its   *)
(* way out, one that was ready does not boot again.                        *)
JobPodIs ==
  /\ jobStep = "rent" => jobPod = "none" /\ ~unsure
  /\ jobStep = "find" /\ ~unsure => jobPod = "none"
  /\ jobStep = "confirm" => jobPod \in {"removing", "gone"}
  /\ jobStep \in Working => jobPod \in {"running", "removing", "gone"}
  /\ jobListed => jobPod \in Alive \cup {"removing"}

(* What was acknowledged stands, but for a boot that came after it; what   *)
(* is done before stop_at, or with the command, is done with it standing.  *)
AcknowledgedStands ==
  /\ acked => jobPod \notin Alive \/ jobEnd = "exact" \/ lateBoot
  /\ jobStep = "done" /\ cleanup = "scheduled" => acked
  /\ jobStep = "upload" /\ era = 0 /\ jobPod \in Alive => jobEnd = "exact"

JobInv == JobTypeOK /\ JobKnows /\ JobPodIs /\ AcknowledgedStands /\ JobKeepsItsWord

LEMMA JobFlagsInit == JobInit => jobListed \in BOOLEAN /\ knows \in BOOLEAN /\ acked \in BOOLEAN
                                 /\ unsure \in BOOLEAN /\ lateBoot \in BOOLEAN
  BY Zenon DEF JobInit

LEMMA JobInitInv == JobInit => JobInv
<1> SUFFICES ASSUME JobInit PROVE JobInv
  OBVIOUS
<1>1. JobTypeOK
  BY JobFlagsInit, JobAssumption DEF JobInit, JobTypeOK
<1> QED
  BY <1>1 DEF JobInit, JobInv, JobKnows, JobPodIs, AcknowledgedStands, JobKeepsItsWord,
       ReportIsTrue, RunIsBounded,
     Alive, Working

JobFlagsOK ==
  jobListed \in BOOLEAN /\ knows \in BOOLEAN /\ acked \in BOOLEAN /\ unsure \in BOOLEAN
  /\ lateBoot \in BOOLEAN

LEMMA JobFlags == JobFlagsOK /\ [JobNext]_jobVars => JobFlagsOK'
<1> SUFFICES ASSUME JobFlagsOK, [JobNext]_jobVars PROVE JobFlagsOK'
  OBVIOUS
<1> USE DEF JobFlagsOK
<1>1. CASE Rent
  BY <1>1, Zenon DEF Rent, Rents, SameServer, SameResult, SameJob, serverVars
<1>2. CASE FindByName
  BY <1>2, Zenon DEF FindByName, SameServer, SameResult, SameJob, serverVars
<1>3. CASE Schedule
  BY <1>3, Zenon DEF Schedule, JobSchedules, Applied, SameServer, SameResult, SameJob, serverVars
<1>4. CASE WaitReady
  BY <1>4, Zenon DEF WaitReady, SameServer, SameResult, SameJob, serverVars
<1>5. CASE ScheduleAgain
  BY <1>5, Zenon
       DEF ScheduleAgain, JobSchedules, Applied, SameServer, SameResult, SameJob, serverVars
<1>6. CASE Work
  BY <1>6, Zenon DEF Work, SameServer, SameResult, SameJob, serverVars
<1>7. CASE Interrupted
  BY <1>7, Zenon DEF Interrupted, SameServer, SameResult, SameJob, serverVars
<1>8. CASE Delete
  BY <1>8, Zenon DEF Delete, Removed, NextTry, GivesUp, SameServer, SameResult, SameJob, serverVars
<1>9. CASE Confirm
  BY <1>9, Zenon DEF Confirm, GivesUp, SameServer, SameResult, SameJob, serverVars
<1>10. CASE Fallback
  BY <1>10, Zenon DEF Fallback, JobSchedules, Applied, SameServer, SameResult, SameJob, serverVars
<1>11. CASE JobKilled
  BY <1>11, Zenon DEF JobKilled, SameServer, SameResult, SameJob, serverVars
<1>12. CASE Create
  BY <1>12, Zenon DEF Create, SameServer, SameResult, SameJob, serverVars
<1>13. CASE List
  BY <1>13, Zenon DEF List, SameServer, SameResult, SameJob, serverVars
<1>14. CASE PodBoots
  BY <1>14, Zenon DEF PodBoots, SameServer, SameResult, SameJob, serverVars
<1>15. CASE BootFails
  BY <1>15, Zenon DEF BootFails, SameServer, SameResult, SameJob, serverVars
<1>16. CASE ServerRemoves
  BY <1>16, Zenon DEF ServerRemoves, SameServer, SameResult, SameJob, serverVars
<1>17. CASE PodVanishes
  BY <1>17, Zenon DEF PodVanishes, SameServer, SameResult, SameJob, serverVars
<1>18. CASE TimePasses
  BY <1>18, Zenon DEF TimePasses, SameServer, SameResult, SameJob, serverVars
<1>19. CASE UNCHANGED jobVars
  BY <1>19, Zenon DEF jobVars
<1> QED
  BY <1>1, <1>2, <1>3, <1>4, <1>5, <1>6, <1>7, <1>8, <1>9, <1>10, <1>11, <1>12, <1>13, <1>14,
       <1>15, <1>16, <1>17, <1>18, <1>19 DEF JobNext, Client, Server

LEMMA JobNextInv == JobInv /\ [JobNext]_jobVars => JobInv'
<1> SUFFICES ASSUME JobInv, [JobNext]_jobVars PROVE JobInv'
  OBVIOUS
<1>0. JobFlagsOK'
  BY JobFlags DEF JobInv, JobTypeOK, JobFlagsOK
<1> USE <1>0, JobAssumption DEF JobInv, JobTypeOK, JobFlagsOK, JobKnows, JobPodIs,
     AcknowledgedStands, JobKeepsItsWord, ReportIsTrue, RunIsBounded,
    Alive, Working, JobEnded, Does, SameServer, SameResult, SameJob, serverVars
<1>1. CASE Rent
  BY <1>1 DEF Rent, Rents
<1>2. CASE FindByName
  BY <1>2 DEF FindByName
<1>3. CASE Schedule
  BY <1>3 DEF Schedule, JobSchedules, Applied
<1>4. CASE WaitReady
  BY <1>4 DEF WaitReady
<1>5. CASE ScheduleAgain
  BY <1>5 DEF ScheduleAgain, JobSchedules, Applied
<1>6. CASE Work
  BY <1>6 DEF Work
<1>7. CASE Interrupted
  BY <1>7 DEF Interrupted
<1>8. CASE Delete
  BY <1>8 DEF Delete, Removed, NextTry, GivesUp
<1>9. CASE Confirm
  BY <1>9 DEF Confirm, GivesUp
<1>10. CASE Fallback
  BY <1>10 DEF Fallback, JobSchedules, Applied
<1>11. CASE JobKilled
  BY <1>11 DEF JobKilled
<1>12. CASE Create
  BY <1>12 DEF Create
<1>13. CASE List
  BY <1>13 DEF List
<1>14. CASE PodBoots
  <2>1. acked' => lateBoot'
    BY <1>14, Zenon DEF PodBoots
  <2>2. /\ UNCHANGED <<jobListed, era, sent, jobStep, knows, acked, unsure, left, cleanup>>
        /\ jobPod = "deploying" /\ jobPod' = "running" /\ jobEnd' \in {"hours", jobEnd}
    BY <1>14 DEF PodBoots
  <2> QED
    BY <2>1, <2>2
<1>15. CASE BootFails
  BY <1>15 DEF BootFails
<1>16. CASE ServerRemoves
  BY <1>16 DEF ServerRemoves
<1>17. CASE PodVanishes
  BY <1>17 DEF PodVanishes
<1>18. CASE TimePasses
  BY <1>18 DEF TimePasses
<1>19. CASE UNCHANGED jobVars
  BY <1>19 DEF jobVars
<1> QED
  BY <1>1, <1>2, <1>3, <1>4, <1>5, <1>6, <1>7, <1>8, <1>9, <1>10, <1>11, <1>12, <1>13, <1>14,
       <1>15, <1>16, <1>17, <1>18, <1>19 DEF JobNext, Client, Server

(* A command that lium run-job runs is on a pod whose removal is set for   *)
(* stop_at, and what its result says of the pod is so, for any number of   *)
(* DELETE attempts, whatever requests fail and whenever the server boots,  *)
(* lists or removes the pod (run_job and its cleanup, bounded_job.py).     *)
THEOREM JobWordIsKept == JobSpec => []JobKeepsItsWord
<1>1. JobInv => JobKeepsItsWord
  BY DEF JobInv
<1>2. JobSpec => []JobInv
  BY JobInitInv, JobNextInv, PTL DEF JobSpec
<1> QED
  BY <1>1, <1>2, PTL
-----------------------------------------------------------------------------
(* `lium up` (UpCommand).                                                  *)

(* The clock and what is counted on it.                                    *)
UpClock ==
  /\ upBorn <= UpHorizon /\ upDeadline <= upAsk.timeout + upNow
  /\ upAsk \in UpAskType

(* Nothing is set before the rent; after it there has been a pod.          *)
UpRentFirst ==
  /\ upStep = "prompt" => upVolume = "none"
  /\ upStep \in UpAfter => upPod # "none"
  /\ upStep \in UpBefore \cup {"schedule"} => upEnd = NoEnd /\ ~scheduled
  /\ upStep \in UpBefore \cup {"schedule", "wait", "cap"} => ~uncapped

(* What the plan is at each step, and what the server has of it: until the *)
(* cap it is the end asked for, after it the earliest of all.              *)
PlanIs ==
  /\ upStep \in {"schedule", "wait", "cap"} => plan = asked
  /\ upStep = "reschedule" => plan = Wanted
  /\ upStep \in {"wait", "cap", "reschedule"} /\ plan = NoEnd => upEnd = NoEnd /\ ~scheduled
  /\ upStep \in {"wait", "cap", "reschedule"} /\ scheduled => upEnd = plan
  /\ upStep \in {"gpus", "strict", "jupyter", "session"} => upEnd = Wanted

UpInv == UpTypeOK /\ UpClock /\ UpRentFirst /\ PlanIs /\ UpKeepsItsWord

LEMMA UpFlagsInit == UpInit => scheduled \in BOOLEAN /\ uncapped \in BOOLEAN
  BY Zenon DEF UpInit

LEMMA UpInitInv == UpInit => UpInv
<1> SUFFICES ASSUME UpInit PROVE UpInv
  OBVIOUS
<1>1. upAsk \in UpAskType
  BY UpAssumption DEF UpInit
<1>2. UpTypeOK
  BY <1>1, UpFlagsInit, UpAssumption
       DEF UpInit, UpTypeOK, UpAskType, UpEnds, UpTimes, UpSpans, UpBefore, UpBilling
<1> QED
  BY <1>1, <1>2, UpAssumption
       DEF UpInit, UpInv, UpClock, UpRentFirst, PlanIs, UpKeepsItsWord, EndStands, FailureNames,
     UpBefore, UpAfter, UpAskType, UpSpans

UpFlagsOK == scheduled \in BOOLEAN /\ uncapped \in BOOLEAN

LEMMA UpFlags == UpFlagsOK /\ [UpNext]_upVars => UpFlagsOK'
<1> SUFFICES ASSUME UpFlagsOK, [UpNext]_upVars PROVE UpFlagsOK'
  OBVIOUS
<1> USE DEF UpFlagsOK
<1>1. CASE UpPrompt
  BY <1>1, Zenon DEF UpPrompt, UpGoes, UpEndsAs, UpSame, UpPlans, upServer
<1>2. CASE MakeVolume
  BY <1>2, Zenon DEF MakeVolume, UpGoes, UpEndsAs, UpSame, UpPlans, upServer
<1>3. CASE BeforeUpload
  BY <1>3, Zenon DEF BeforeUpload, CheckDeadline, Kept, UpGoes, UpEndsAs, UpSame, UpPlans, upServer
<1>4. CASE Upload
  BY <1>4, Zenon DEF Upload, Kept, UpGoes, UpEndsAs, UpSame, UpPlans, upServer
<1>5. CASE AfterUpload
  BY <1>5, Zenon DEF AfterUpload, CheckDeadline, Kept, UpGoes, UpEndsAs, UpSame, UpPlans, upServer
<1>6. CASE UpRent
  BY <1>6, Zenon DEF UpRent, Kept, UpGoes, UpEndsAs, UpSame, UpPlans, upServer
<1>7. CASE ScheduleAtRent
  BY <1>7, Zenon
       DEF ScheduleAtRent, Takes, Sets, MaySet, UpGoes, UpEndsAs, UpSame, UpPlans, upServer
<1>8. CASE UpWait
  BY <1>8, Zenon DEF UpWait, EndNote, UpGoes, UpEndsAs, UpSame, UpPlans, upServer
<1>9. CASE CapSpend
  BY <1>9, Zenon DEF CapSpend, Cap, Capped, UpGoes, UpEndsAs, UpSame, UpPlans, upServer
<1>10. CASE CutSpend
  BY <1>10, Zenon DEF CutSpend, UpDown, UpDownFails, UpGoes, UpEndsAs, UpSame, UpPlans, upServer
<1>11. CASE Reschedule
  BY <1>11, Zenon DEF Reschedule, Takes, Sets, MaySet, UpGoes, UpEndsAs, UpSame, UpPlans, upServer
<1>12. CASE CheckGpus
  BY <1>12, Zenon DEF CheckGpus, UpGoes, UpEndsAs, UpSame, UpPlans, upServer
<1>13. CASE RemoveMismatch
  BY <1>13, Zenon
       DEF RemoveMismatch, UpDown, UpDownFails, UpGoes, UpEndsAs, UpSame, UpPlans, upServer
<1>14. CASE InstallJupyter
  BY <1>14, Zenon DEF InstallJupyter, UpGoes, UpEndsAs, UpSame, UpPlans, upServer
<1>15. CASE Session
  BY <1>15, Zenon DEF Session, UpGoes, UpEndsAs, UpSame, UpPlans, upServer
<1>16. CASE UpServerStep
  BY <1>16, Zenon DEF UpServerStep, UpCommandSame, UpGoes, UpEndsAs, UpSame, UpPlans, upServer
<1>17. CASE UpTick
  BY <1>17, Zenon DEF UpTick, UpCommandSame, UpGoes, UpEndsAs, UpSame, UpPlans, upServer
<1>18. CASE UNCHANGED upVars
  BY <1>18, Zenon DEF upVars
<1> QED
  BY <1>1, <1>2, <1>3, <1>4, <1>5, <1>6, <1>7, <1>8, <1>9, <1>10, <1>11, <1>12, <1>13, <1>14,
       <1>15, <1>16, <1>17, <1>18 DEF UpNext

LEMMA UpNextInv == UpInv /\ [UpNext]_upVars => UpInv'
<1> SUFFICES ASSUME UpInv, [UpNext]_upVars PROVE UpInv'
  OBVIOUS
<1>0. UpFlagsOK'
  BY UpFlags DEF UpInv, UpTypeOK, UpFlagsOK
<1>a. /\ upAsk.ttl \in UpSpans \cup {NoEnd} /\ upAsk.budget \in UpSpans \cup {NoEnd}
      /\ upAsk.timeout \in UpSpans /\ upAsk.until \in UpEnds /\ upAsk \in UpAskType
  BY DEF UpInv, UpClock, UpAskType
<1> USE <1>0, UpAssumption DEF UpInv, UpTypeOK, UpFlagsOK, UpClock, UpRentFirst, PlanIs,
     UpKeepsItsWord, EndStands, FailureNames,
    UpBefore, UpAfter, UpBilling, UpBills, UpGoes, UpEndsAs, UpSame, UpPlans, upServer
<1>1. CASE UpPrompt
  BY <1>1, <1>a DEF UpPrompt, UpExits, UpSpans, UpTimes, UpEnds, Wanted, CapEnd, EarlierEnd
<1>2. CASE MakeVolume
  BY <1>2, <1>a DEF MakeVolume, UpExits, UpSpans, UpTimes, UpEnds, Wanted, CapEnd, EarlierEnd
<1>3. CASE BeforeUpload
  BY <1>3, <1>a DEF BeforeUpload, CheckDeadline, Kept, UpExits, UpSpans, UpTimes, UpEnds, Wanted,
       CapEnd, EarlierEnd
<1>4. CASE Upload
  BY <1>4, <1>a DEF Upload, Kept, UpExits, UpSpans, UpTimes, UpEnds, Wanted, CapEnd, EarlierEnd
<1>5. CASE AfterUpload
  BY <1>5, <1>a DEF AfterUpload, CheckDeadline, Kept, UpExits, UpSpans, UpTimes, UpEnds, Wanted,
       CapEnd, EarlierEnd
<1>6. CASE UpRent
  BY <1>6, <1>a DEF UpRent, Kept, UpExits, UpSpans, UpTimes, UpEnds, Wanted, CapEnd, EarlierEnd
<1>7. CASE ScheduleAtRent
  BY <1>7, <1>a DEF ScheduleAtRent, Takes, Sets, MaySet, UpExits, UpSpans, UpTimes, UpEnds, Wanted,
       CapEnd, EarlierEnd
<1>8. CASE UpWait
  BY <1>8, <1>a DEF UpWait, EndNote, UpExits, UpSpans, UpTimes, UpEnds, Wanted, CapEnd, EarlierEnd
<1>9. CASE CapSpend
  BY <1>9, <1>a
       DEF CapSpend, Cap, Capped, UpExits, UpSpans, UpTimes, UpEnds, Wanted, CapEnd, EarlierEnd
<1>10. CASE CutSpend
  BY <1>10, <1>a DEF CutSpend, UpDown, UpDownFails, UpExits, UpSpans, UpTimes, UpEnds, Wanted,
       CapEnd, EarlierEnd
<1>11. CASE Reschedule
  BY <1>11, <1>a DEF Reschedule, Takes, Sets, MaySet, UpExits, UpSpans, UpTimes, UpEnds, Wanted,
       CapEnd, EarlierEnd
<1>12. CASE CheckGpus
  BY <1>12, <1>a DEF CheckGpus, UpExits, UpSpans, UpTimes, UpEnds, Wanted, CapEnd, EarlierEnd
<1>13. CASE RemoveMismatch
  BY <1>13, <1>a DEF RemoveMismatch, UpDown, UpDownFails, UpExits, UpSpans, UpTimes, UpEnds,
       Wanted, CapEnd, EarlierEnd
<1>14. CASE InstallJupyter
  BY <1>14, <1>a DEF InstallJupyter, UpExits, UpSpans, UpTimes, UpEnds, Wanted, CapEnd, EarlierEnd
<1>15. CASE Session
  BY <1>15, <1>a DEF Session, UpExits, UpSpans, UpTimes, UpEnds, Wanted, CapEnd, EarlierEnd
<1>16. CASE UpServerStep
  BY <1>16, <1>a DEF UpServerStep, UpCommandSame, UpExits, UpSpans, UpTimes, UpEnds, Wanted,
       CapEnd, EarlierEnd
<1>17. CASE UpTick
  BY <1>17, <1>a
       DEF UpTick, UpCommandSame, UpExits, UpSpans, UpTimes, UpEnds, Wanted, CapEnd, EarlierEnd
<1>18. CASE UNCHANGED upVars
  BY <1>18 DEF upVars, Wanted, CapEnd
<1> QED
  BY <1>1, <1>2, <1>3, <1>4, <1>5, <1>6, <1>7, <1>8, <1>9, <1>10, <1>11, <1>12, <1>13, <1>14,
       <1>15, <1>16, <1>17, <1>18 DEF UpNext

(* Nothing runs on the pod of a `lium up`, and no caller hears of a ready  *)
(* one, but with the earliest end that was asked for set; what the command *)
(* says of that end or of a removal is so; and a failure that it catches   *)
(* names what it leaves behind (up_command, up/command.py).                *)
THEOREM UpWordIsKept == UpSpec => []UpKeepsItsWord
<1>1. UpInv => UpKeepsItsWord
  BY DEF UpInv
<1>2. UpSpec => []UpInv
  BY UpInitInv, UpNextInv, PTL DEF UpSpec
<1> QED
  BY <1>1, <1>2, PTL

-----------------------------------------------------------------------------
(* The readiness wait (ReadyWait).                                         *)

(* Below the horizon the clock is behind the timeout, but for the request  *)
(* and the sleep that this round of the loop has taken.                    *)
RoundIsShort ==
  timeout # NoTimeout =>
    /\ wait = "port" => deadline = timeout
    /\ clock < Horizon =>
         /\ wait = "listing" => clock < timeout
         /\ wait \in {"throttled", "missing", "seen"} => clock < timeout + RequestTime
         /\ wait = "port" => clock < timeout + PortPoll
         /\ wait = "cause" => clock <= timeout + Most(SlowPoll, PortPoll) + RequestTime
WaitInv == ReadyTypeOK /\ RoundIsShort /\ TimeoutIsKept

(* A sleep is a natural number, and never longer than the slowest poll.    *)
LEMMA ReadyConstants ==
  /\ Grace \in Nat /\ FirstPoll \in Nat /\ FastPoll \in Nat /\ SlowPoll \in Nat
  /\ MaxBackoff \in Nat /\ PortPoll \in Nat \ {0} /\ PortTimeout \in Nat /\ Horizon \in Nat \ {0}
  /\ FirstWindow \in Nat /\ FastWindow \in Nat /\ RequestTime \in Nat
  /\ FirstPoll <= SlowPoll /\ FastPoll <= SlowPoll
  /\ RetryAfters \subseteq Nat /\ NoTimeout \notin Nat
  /\ \A t \in Timeouts : t # NoTimeout => t \in 0..Horizon
BY ReadyAssumption
LEMMA PollDelayType == PollDelay \in Nat /\ PollDelay <= SlowPoll
BY ReadyConstants DEF PollDelay
LEMMA BackoffType ==
  ASSUME throttled \in 0..TopBackoff, NEW retryAfter \in RetryAfters
  PROVE  Most(retryAfter, Least(PollDelay * 2^throttled, MaxBackoff)) \in Nat
<1>1. 2^throttled \in Nat
  <2>1. 2^0 \in Nat /\ 2^1 \in Nat /\ 2^2 \in Nat /\ 2^3 \in Nat
    OBVIOUS
  <2>2. throttled = 0 \/ throttled = 1 \/ throttled = 2 \/ throttled = 3
    BY DEF TopBackoff
  <2> QED BY <2>1, <2>2
<1>2. PollDelay * 2^throttled \in Nat
  BY <1>1, PollDelayType
<1> QED BY <1>2, ReadyConstants DEF Most, Least

LEMMA WaitInitInv == ReadyInit => WaitInv
<1> SUFFICES ASSUME ReadyInit PROVE WaitInv
  OBVIOUS
<1>1. ReadyTypeOK
  <2>1. clock \in 0..Horizon /\ elapsed \in 0..Horizon /\ deadline \in 0..Horizon
    BY ReadyConstants DEF ReadyInit
  <2>2. /\ start \in {"hidden", "starting"} /\ port \in BOOLEAN /\ wait = "top" /\ answer = "waiting"
        /\ timeout \in Timeouts /\ wantsPort \in BOOLEAN /\ throttled = 0
        /\ lastSeen = FALSE /\ missing = FALSE
    BY DEF ReadyInit
  <2>3. throttled \in 0..TopBackoff
    BY <2>2 DEF TopBackoff
  <2> QED BY <2>1, <2>2, <2>3 DEF ReadyTypeOK, Answers, StartErrors
<1>2. RoundIsShort
  BY DEF ReadyInit, RoundIsShort
<1>3. ASSUME timeout # NoTimeout
      PROVE  clock <= timeout + Most(SlowPoll, PortPoll) + RequestTime + CauseTime
  BY <1>1, <1>3, ReadyConstants DEF ReadyInit, ReadyTypeOK, Most, CauseTime
<1> QED BY <1>1, <1>2, <1>3 DEF WaitInv, TimeoutIsKept

(* What the rounds do to the clock.                                        *)
LEMMA ThrottledRound ==
  ASSUME ReadyTypeOK, Throttled
  PROVE  /\ clock' \in 0..Horizon /\ clock <= clock'
         /\ timeout # NoTimeout /\ clock' < Horizon => clock' <= Most(clock, timeout)
<1>1. PICK retryAfter \in RetryAfters :
        clock' = After(Left(Most(retryAfter, Least(PollDelay * 2^throttled, MaxBackoff))))
  BY DEF Throttled
<1> DEFINE delay == Most(retryAfter, Least(PollDelay * 2^throttled, MaxBackoff))
<1>2. delay \in Nat
  BY BackoffType DEF ReadyTypeOK
<1> HIDE DEF delay
<1>3. clock' = Least(clock + Left(delay), Horizon) /\ clock \in 0..Horizon
  BY <1>1 DEF delay, After, ReadyTypeOK
<1>4. CASE timeout = NoTimeout
  BY <1>2, <1>3, <1>4, ReadyConstants DEF Left, Least
<1>5. CASE timeout # NoTimeout
  <2>1. timeout \in 0..Horizon
    BY <1>5, ReadyConstants DEF ReadyTypeOK
  <2>2. Left(delay) \in Nat /\ Left(delay) <= Most(0, timeout - clock)
    BY <1>2, <1>3, <1>5, <2>1, ReadyConstants DEF Left, Least, Most
  <2> QED BY <1>3, <2>1, <2>2, ReadyConstants DEF Least, Most
<1> QED BY <1>4, <1>5

LEMMA PollRound ==
  ASSUME ReadyTypeOK, clock' = After(PollDelay)
  PROVE  clock' \in 0..Horizon /\ (clock' < Horizon => clock' <= clock + SlowPoll)
BY PollDelayType, ReadyConstants DEF ReadyTypeOK, After, Least

LEMMA RequestRound ==
  ASSUME ReadyTypeOK, NEW d \in Nat
  PROVE  After(d) \in 0..Horizon /\ (After(d) < Horizon => After(d) = clock + d)
BY ReadyConstants DEF ReadyTypeOK, After, Least

LEMMA RequestTypes ==
  ASSUME ReadyTypeOK, NEW d \in 0..RequestTime
  PROVE  After(d) \in 0..Horizon /\ After(d + PortPoll) \in 0..Horizon
<1>1. d \in Nat /\ d + PortPoll \in Nat
  BY ReadyConstants
<1> QED BY <1>1, RequestRound

LEMMA LeastType ==
  ASSUME NEW n \in 0..Horizon PROVE Least(n + PortTimeout, Horizon) \in 0..Horizon
BY ReadyConstants DEF Least

LEMMA DeadlineType ==
  ASSUME ReadyTypeOK, clock' \in 0..Horizon
  PROVE  /\ Least(clock' + PortTimeout, Horizon) \in 0..Horizon
         /\ timeout # NoTimeout => timeout \in 0..Horizon
         /\ Least(throttled + 1, TopBackoff) \in 0..TopBackoff
<1>1. Least(clock' + PortTimeout, Horizon) \in 0..Horizon
  BY LeastType
<1>2. timeout # NoTimeout => timeout \in 0..Horizon
  BY ReadyConstants DEF ReadyTypeOK
<1>3. throttled \in 0..TopBackoff
  BY DEF ReadyTypeOK
<1>4. Least(throttled + 1, TopBackoff) \in 0..TopBackoff
  BY <1>3 DEF Least, TopBackoff
<1> QED BY <1>1, <1>2, <1>4

LEMMA WaitTypes == ReadyTypeOK /\ [ReadyNext]_readyVars => ReadyTypeOK'
<1> SUFFICES ASSUME ReadyTypeOK, [ReadyNext]_readyVars PROVE ReadyTypeOK'
  OBVIOUS
<1> USE DEF ReadyTypeOK, Answers, StartErrors, Answer, StartFails, Step, SameServerPod, SameWait
<1>1. CASE Top
  BY <1>1 DEF Top
<1>2. CASE Listing
  <2>1. clock' \in 0..Horizon
    BY <1>2, RequestTypes DEF Listing
  <2>2. deadline' \in 0..Horizon
    BY <1>2, <2>1, DeadlineType DEF Listing
  <2>3. throttled' \in 0..TopBackoff
    <3>1. throttled' \in {0, throttled, Least(throttled + 1, TopBackoff)}
      BY <1>2 DEF Listing
    <3>2. 0 \in 0..TopBackoff /\ Least(throttled + 1, TopBackoff) \in 0..TopBackoff
      <4> HIDE DEF ReadyTypeOK
      <4> QED BY <2>1, DeadlineType DEF TopBackoff
    <3> QED BY <3>1, <3>2
  <2>4. /\ answer' \in Answers /\ (wait' \in {"cause", "answered"} <=> answer' # "waiting")
        /\ wait' = "cause" => answer' \in StartErrors
        /\ wait' \in {"missing", "seen", "port", "throttled", "cause", "answered"}
    BY <1>2 DEF Listing
  <2>5. missing' \in BOOLEAN /\ lastSeen' \in BOOLEAN
    BY <1>2 DEF Listing
  <2>6. missing' /\ lastSeen' => wait' = "missing" \/ answer' = "disappeared"
    BY <1>2 DEF Listing
  <2>7. UNCHANGED <<start, port, timeout, wantsPort, elapsed>>
    BY <1>2 DEF Listing
  <2> QED BY <2>1, <2>2, <2>3, <2>4, <2>5, <2>6, <2>7
<1>3. CASE Throttled
  BY <1>3, ThrottledRound DEF Throttled
<1>4. CASE Missing
  BY <1>4, PollRound DEF Missing
<1>5. CASE Seen
  BY <1>5, PollRound DEF Seen
<1>6. CASE Port
  <2>1. clock' \in 0..Horizon
    BY <1>6, RequestTypes DEF Port
  <2> QED BY <1>6, <2>1 DEF Port
<1>7. CASE Appear \/ Run \/ Die \/ RowVanishes \/ Opens
  <2>1. /\ UNCHANGED <<clock, timeout, wantsPort, wait, elapsed, lastSeen, missing>>
        /\ UNCHANGED <<throttled, deadline, answer>>
    BY <1>7 DEF Appear, Run, Die, RowVanishes, Starts, Opens
  <2>2. start' \in {"hidden", "starting", "running", "dead", "vanished"} /\ port' \in BOOLEAN
    BY <1>7 DEF Appear, Run, Die, RowVanishes, Starts, Opens
  <2> QED BY <2>1, <2>2
<1>8. CASE UNCHANGED readyVars
  BY <1>8 DEF readyVars
<1>9. CASE Cause
  <2>1. clock' \in 0..Horizon
    BY <1>9, RequestTypes DEF Cause
  <2> QED BY <1>9, <2>1 DEF Cause
<1> QED
  BY <1>1, <1>2, <1>3, <1>4, <1>5, <1>6, <1>7, <1>8, <1>9 DEF ReadyNext, WaitStep

LEMMA RoundStaysShort ==
  WaitInv /\ [ReadyNext]_readyVars => RoundIsShort' /\ TimeoutIsKept'
<1> SUFFICES ASSUME WaitInv, [ReadyNext]_readyVars, timeout # NoTimeout
             PROVE  RoundIsShort' /\ TimeoutIsKept'
  BY DEF WaitInv, RoundIsShort, TimeoutIsKept, ReadyNext, readyVars, WaitStep, SameWait, Top,
         Listing, Throttled, Missing, Seen, Cause, Port, Appear, Run, Die, RowVanishes, Starts, Opens
<1>1. timeout \in 0..Horizon /\ clock \in 0..Horizon /\ ReadyTypeOK
  BY ReadyConstants DEF WaitInv, ReadyTypeOK
<1> DEFINE slack == Most(SlowPoll, PortPoll)
<1>2. slack \in Nat /\ SlowPoll <= slack /\ PortPoll <= slack
  BY ReadyConstants DEF Most
<1> HIDE DEF slack
<1>3. /\ wait = "port" => deadline = timeout
      /\ clock < Horizon =>
           /\ \/ clock <= timeout + slack + RequestTime
              \/ /\ wait = "answered" /\ answer \in StartErrors
                 /\ clock <= timeout + slack + RequestTime + RequestTime
           /\ wait = "cause" => clock <= timeout + slack + RequestTime
           /\ wait = "listing" => clock < timeout
           /\ wait \in {"throttled", "missing", "seen"} => clock < timeout + RequestTime
           /\ wait = "port" => clock < timeout + PortPoll
  <2>1. clock < Horizon => clock <= timeout + slack + RequestTime + CauseTime
    BY <1>1 DEF slack, WaitInv, TimeoutIsKept
  <2>2. CASE wait = "answered" /\ answer \in StartErrors
    BY <2>1, <2>2, <1>1 DEF slack, WaitInv, RoundIsShort, CauseTime
  <2>3. CASE ~(wait = "answered" /\ answer \in StartErrors)
    <3>1. CauseTime = 0
      BY <2>3 DEF CauseTime
    <3> QED BY <2>1, <3>1, <1>1, <1>2, ReadyConstants DEF slack, WaitInv, RoundIsShort
  <2> QED BY <2>2, <2>3
<1>4. SUFFICES /\ timeout' = timeout
               /\ wait' = "port" => deadline' = timeout
               /\ clock' < Horizon =>
                    /\ \/ clock' <= timeout + slack + RequestTime
                       \/ /\ wait' = "answered" /\ answer' \in StartErrors
                          /\ clock' <= timeout + slack + RequestTime + RequestTime
                    /\ wait' = "cause" => clock' <= timeout + slack + RequestTime
                    /\ wait' = "listing" => clock' < timeout
                    /\ wait' \in {"throttled", "missing", "seen"} => clock' < timeout + RequestTime
                    /\ wait' = "port" => clock' < timeout + PortPoll
  <2>1. clock' \in 0..Horizon
    BY <1>1, WaitTypes DEF ReadyTypeOK
  <2> QED BY <1>1, <1>2, <2>1, ReadyConstants DEF slack, RoundIsShort, TimeoutIsKept, CauseTime
<1> USE DEF Answer, StartFails, Step, SameServerPod, SameWait
<1>5. CASE Top
  <2>1. /\ UNCHANGED <<clock, timeout>> /\ wait = "top"
        /\ wait' \in {"listing", "cause", "answered"}
    BY <1>5 DEF Top
  <2>2. wait' = "listing" => ~(clock >= timeout)
    BY <1>5 DEF Top, TimeIsUp
  <2> QED BY <1>1, <1>2, <1>3, <2>1, <2>2
<1>6. CASE Listing
  <2>1. PICK d \in 0..RequestTime : clock' = After(d)
    BY <1>6 DEF Listing
  <2>2. clock' < Horizon => clock' = clock + d
    BY <1>1, <2>1, RequestRound, ReadyConstants
  <2>3. wait' = "port" => ~(clock' >= timeout) /\ deadline' = timeout
    BY <1>6 DEF Listing, TimeIsUp
  <2>4. clock' \in 0..Horizon
    BY <1>1, <2>1, RequestRound, ReadyConstants
  <2>5. /\ wait = "listing" /\ timeout' = timeout
        /\ wait' \in {"throttled", "missing", "seen", "port", "cause", "answered"}
    BY <1>6 DEF Listing
  <2>6. clock' < Horizon => clock' < timeout + RequestTime
    BY <1>1, <1>3, <2>1, <2>2, <2>5, ReadyConstants DEF After, Least
  <2> QED BY <1>1, <1>2, <2>3, <2>4, <2>5, <2>6, ReadyConstants
<1>7. CASE Throttled
  <2>1. clock' < Horizon => clock' <= Most(clock, timeout)
    BY <1>1, <1>7, ThrottledRound
  <2>2. clock' \in 0..Horizon /\ clock <= clock'
    BY <1>1, <1>7, ThrottledRound
  <2>3. clock' < Horizon => clock' <= timeout + RequestTime
    <3>1. CASE clock < Horizon
      BY <1>1, <1>3, <1>7, <2>1, <2>2, <3>1, ReadyConstants DEF Throttled, Most
    <3>2. CASE clock = Horizon
      BY <1>1, <2>1, <2>2, <3>2, ReadyConstants DEF Most
    <3> QED BY <1>1, <3>1, <3>2, ReadyConstants
  <2> QED BY <1>1, <1>2, <1>7, <2>2, <2>3, ReadyConstants DEF Throttled
<1>8. CASE Missing \/ Seen
  <2>1. clock' = clock \/ clock' = After(PollDelay)
    BY <1>8 DEF Missing, Seen
  <2>2. clock' \in 0..Horizon /\ (clock' < Horizon => clock < Horizon /\ clock' <= clock + SlowPoll)
    BY <1>1, <2>1, PollDelayType, ReadyConstants DEF After, Least
  <2>3. wait \in {"missing", "seen"} /\ wait' \in {"cause", "top"} /\ timeout' = timeout
    BY <1>8 DEF Missing, Seen
  <2> QED BY <1>1, <1>2, <1>3, <2>2, <2>3, ReadyConstants
<1>9. CASE Port
  <2>1. PICK d \in 0..RequestTime :
          \/ wait' = "answered" /\ clock' = After(d)
          \/ After(d) < deadline /\ wait' = "port" /\ clock' = After(d + PortPoll)
    <3>1. PICK d \in 0..RequestTime :
            \/ wait' = "answered" /\ clock' = After(d)
            \/ ~(After(d) >= deadline) /\ wait' = "port" /\ clock' = After(d + PortPoll)
      BY <1>9 DEF Port
    <3>2. After(d) \in Int /\ deadline \in Int
      BY <1>1, <3>1, RequestRound, ReadyConstants DEF ReadyTypeOK
    <3> QED BY <3>1, <3>2
  <2>2. wait = "port" /\ deadline = timeout /\ deadline' = deadline /\ timeout' = timeout
    BY <1>3, <1>9 DEF Port
  <2>3. d \in Nat /\ d <= RequestTime /\ clock + d \in Nat
    BY <1>1, <2>1, ReadyConstants
  <2> HIDE DEF Answer, Step
  <2>4. CASE wait' = "answered" /\ clock' = After(d)
    BY <1>1, <1>2, <1>3, <2>2, <2>3, <2>4, ReadyConstants DEF After, Least
  <2>5. CASE After(d) < deadline /\ wait' = "port" /\ clock' = After(d + PortPoll)
    BY <1>1, <1>2, <1>3, <2>2, <2>3, <2>5, ReadyConstants DEF After, Least
  <2> QED BY <2>1, <2>4, <2>5
<1>10. CASE Appear \/ Run \/ Die \/ RowVanishes \/ Opens \/ UNCHANGED readyVars
  <2>1. UNCHANGED <<wait, clock, deadline, timeout, answer>>
    BY <1>10 DEF Appear, Run, Die, RowVanishes, Starts, Opens, readyVars
  <2> QED BY <1>3, <2>1
<1>11. CASE Cause
  <2>1. PICK d \in 0..RequestTime : clock' = After(d)
    BY <1>11 DEF Cause
  <2>2. clock' \in 0..Horizon /\ (clock' < Horizon => clock < Horizon /\ clock' <= clock + RequestTime)
    BY <1>1, <2>1, ReadyConstants DEF After, Least
  <2>3. /\ wait = "cause" /\ wait' = "answered" /\ timeout' = timeout
        /\ answer' \in StartErrors
    BY <1>1, <1>11 DEF Cause, ReadyTypeOK
  <2> QED BY <1>1, <1>2, <1>3, <2>2, <2>3, ReadyConstants
<1> QED
  BY <1>5, <1>6, <1>7, <1>8, <1>9, <1>10, <1>11 DEF ReadyNext, WaitStep

LEMMA WaitNextInv == WaitInv /\ [ReadyNext]_readyVars => WaitInv'
BY WaitTypes, RoundStaysShort DEF WaitInv

(* A timeout that is given is kept but for one request and one poll, and   *)
(* before a PodStartError the request for its cause; whatever the server   *)
(* answers and however long its Retry-After is (wait_ready, wait_for_port, *)
(* pod_failure_cause).                                                     *)
THEOREM TimeoutStaysKept == ReadySpec => []TimeoutIsKept
<1>1. WaitInv => TimeoutIsKept
  BY DEF WaitInv
<1> QED BY <1>1, WaitInitInv, WaitNextInv, PTL DEF ReadySpec

-----------------------------------------------------------------------------
(* `lium rm` and `lium ps` (PodTargets).                                   *)

(* What `ps` stores and shows has been listed.                             *)
PsKnowsRows == psStep # "idle" => psRows \in PodRows

(* The plan is made once, of listed pods; nothing is tried before.         *)
PlanIsListed ==
  /\ rmStep # "idle" \/ rmExit # "none" => rmLine \in RmLines
  /\ rmStep \in {"list", "resolve"} => rmPlan = <<>>
  /\ rmStep \in {"list", "resolve", "approve"} => rmDone = 0
  /\ rmDone = 0 => failed = {} /\ overspent = {} /\ touched = {}
  /\ Chosen \subseteq rmListed

(* Only what was tried is touched, and of each pod that was tried it is    *)
(* known what became of it.                                                *)
Tried == {rmPlan[i].pod : i \in 1..rmDone}
TriedAreTouched ==
  /\ touched \subseteq Tried
  /\ \A p \in Tried :
       \/ p \in failed \cup overspent \/ podLife[p] = "gone"
       \/ rmLine.later /\ p \in podEnds

(* Who tries may: nobody is asked any more after the plan is agreed to.    *)
Trying == rmStep = "act" \/ rmExit \in {"ok", "failed", "budget"}
ActsAgreed ==
  Trying =>
    /\ rmLine.mode # "piped"
    /\ rmLine.mode = "terminal" /\ Asked => consent = Chosen

(* A report is of the whole plan.                                          *)
ExitIsDone ==
  /\ rmExit \in {"ok", "failed", "budget"} =>
       /\ rmDone = Len(rmPlan)
       /\ rmExit = "ok" => failed = {} /\ overspent = {}
       /\ rmExit = "failed" => overspent = {}
  /\ rmDone > 0 => Trying

RowsInv ==
  /\ TargetTypeOK /\ PsKnowsRows /\ PlanIsListed /\ TriedAreTouched /\ ActsAgreed /\ ExitIsDone

(* What resolve_targets makes of one word: a pod that is listed; and where *)
(* the file holds what the shell was shown, the one that was seen there.   *)
LEMMA RowIsPod ==
  ASSUME TargetTypeOK, NEW word \in Rows, IsRow(word)
  PROVE  /\ word \in DOMAIN rowsFile.rows /\ rowsFile.rows[word] \in UserPods
         /\ rowsFile # NoRows /\ rowsFile.fresh
<1>1. rowsFile # NoRows /\ rowsFile.fresh /\ word <= Len(rowsFile.rows)
  BY DEF IsRow, Usable
<1>2. rowsFile.rows \in PodRows
  BY <1>1 DEF TargetTypeOK, Listings
<1>3. PICK n \in 0..2 : rowsFile.rows \in [1..n -> UserPods]
  BY <1>2 DEF PodRows
<1>4. Len(rowsFile.rows) = n
  BY <1>3
<1>5. word \in 1..n
  BY <1>1, <1>4, RowsAssumption
<1> QED BY <1>1, <1>3, <1>5

LEMMA ChoiceIsListed ==
  ASSUME TargetTypeOK, rmLine \in RmLines, NEW word \in Words, NEW x \in Choice(word)
  PROVE  /\ x \in RmChoices /\ x.pod \in rmListed /\ x.word = word
         /\ rowsFile = screen => NumberMeansWhatWasSeen(x)
<1>1. rmListed \subseteq UserPods
  BY DEF TargetTypeOK
<1>2. CASE ReadAsRow(word)
  <2>1. x = [pod |-> rowsFile.rows[word], word |-> word, via |-> TRUE]
    BY <1>2 DEF Choice
  <2>2. /\ word \in Rows /\ IsRow(word) /\ rowsFile.rows[word] \in rmListed
    BY <1>2 DEF ReadAsRow, Untrusted
  <2>3. rowsFile # NoRows /\ rowsFile.fresh /\ word <= Len(rowsFile.rows)
    BY <2>2 DEF IsRow, Usable
  <2>4. rowsFile = screen => SeenAt(word) = {rowsFile.rows[word]}
    BY <2>3 DEF SeenAt
  <2> QED BY <1>1, <2>1, <2>2, <2>4 DEF RmChoices, NumberMeansWhatWasSeen
<1>3. CASE ~ReadAsRow(word)
  <2>1. PICK p \in NamedBy(word) : x = [pod |-> p, word |-> word, via |-> FALSE]
    BY <1>3 DEF Choice
  <2>2. p \in rmListed
    BY DEF NamedBy
  <2>3. ASSUME rowsFile = screen, word \in Rows, rmLine.numbers
        PROVE  SeenAt(word) \cap rmListed = {}
    BY <1>3, <2>3 DEF SeenAt, ReadAsRow, Untrusted, IsRow, Usable
  <2> QED BY <1>1, <2>1, <2>2, <2>3 DEF RmChoices, NumberMeansWhatWasSeen
<1> QED BY <1>2, <1>3

LEMMA PlanMeans ==
  ASSUME TargetTypeOK, rmLine \in RmLines, NEW chosen \in ResolvedPlans
  PROVE  /\ chosen \in Seq(RmChoices)
         /\ \A i \in DOMAIN chosen :
              chosen[i].pod \in rmListed
                /\ (rowsFile = screen => NumberMeansWhatWasSeen(chosen[i]))
<1> DEFINE Fits(x) == /\ x \in RmChoices /\ x.pod \in rmListed
                      /\ rowsFile = screen => NumberMeansWhatWasSeen(x)
<1>1. SUFFICES \E n \in Nat : DOMAIN chosen = 1..n /\ chosen = [i \in 1..n |-> chosen[i]]
                              /\ \A i \in 1..n : Fits(chosen[i])
  OBVIOUS
<1>2. CASE rmLine.all = "no"
  <2>1. rmLine.words \in Seq(Words)
    BY RowsAssumption DEF RmLineType
  <2>2. Cardinality(Meant) \in Nat
    <3>1. IsFiniteSet(1..Len(rmLine.words))
      BY <2>1, FS_Interval
    <3>2. Meant \subseteq 1..Len(rmLine.words)
      BY <2>1 DEF Meant
    <3> QED BY <3>1, <3>2, FS_Subset, FS_CardinalityType
  <2>3. chosen \in [1..Cardinality(Meant) -> UNION {Choice(w) : w \in ToSet(rmLine.words)}]
    BY <1>2 DEF ResolvedPlans, Plans
  <2>4. \A i \in 1..Cardinality(Meant) : Fits(chosen[i])
    <3> TAKE i \in 1..Cardinality(Meant)
    <3>1. PICK w \in ToSet(rmLine.words) : chosen[i] \in Choice(w)
      BY <2>3
    <3>2. w \in Words
      BY <2>1 DEF ToSet
    <3> QED BY <3>1, <3>2, ChoiceIsListed
  <2> QED BY <2>2, <2>3, <2>4
<1>3. CASE rmLine.all # "no"
  <2>1. Cardinality(rmListed) \in Nat
    BY RowsAssumption, FS_Subset, FS_CardinalityType DEF TargetTypeOK
  <2>2. chosen \in [1..Cardinality(rmListed) -> [pod : rmListed, word : {NoWord}, via : {FALSE}]]
    BY <1>3 DEF ResolvedPlans, EveryPod
  <2>3. \A i \in 1..Cardinality(rmListed) : Fits(chosen[i])
    BY <2>2, RowsAssumption DEF RmChoices, NumberMeansWhatWasSeen, TargetTypeOK, Words
  <2> QED BY <2>1, <2>2, <2>3
<1> QED BY <1>2, <1>3

LEMMA ChosenArePods ==
  ASSUME TargetTypeOK
  PROVE  /\ rmDone \in 0..Len(rmPlan) /\ Len(rmPlan) \in Nat /\ DOMAIN rmPlan = 1..Len(rmPlan)
         /\ Tried \subseteq Chosen /\ Chosen \subseteq UserPods
<1>1. rmDone \in 0..Len(rmPlan) /\ Len(rmPlan) \in Nat /\ DOMAIN rmPlan = 1..Len(rmPlan)
  BY DEF TargetTypeOK
<1>2. \A i \in DOMAIN rmPlan : rmPlan[i] \in RmChoices
  BY DEF TargetTypeOK
<1>3. \A x \in RmChoices : x.pod \in UserPods
  BY DEF RmChoices
<1>4. 1..rmDone \subseteq DOMAIN rmPlan
  BY <1>1
<1> QED BY <1>1, <1>2, <1>3, <1>4 DEF Tried, Chosen

LEMMA RowsInitInv == TargetInit => RowsInv
<1> SUFFICES ASSUME TargetInit PROVE RowsInv
  OBVIOUS
<1>1. /\ rmPlan = <<>> /\ rmDone = 0 /\ Len(rmPlan) = 0 /\ DOMAIN rmPlan = {}
      /\ rmStep = "idle" /\ rmExit = "none" /\ failed = {} /\ overspent = {} /\ touched = {}
  BY DEF TargetInit
<1>2. Chosen = {} /\ Tried = {}
  BY <1>1 DEF Chosen, Tried
<1>3. TargetTypeOK
  <2>1. podName \in [UserPods -> Rows \cup PlainNames] /\ podLife \in [UserPods -> {"none", "listed", "gone"}]
    BY DEF TargetInit
  <2>2. rmPlan \in Seq(RmChoices)
    BY <1>1
  <2> QED BY <1>1, <2>1, <2>2, RowsAssumption DEF TargetInit, TargetTypeOK, Listings, RmExits
<1>4. PsKnowsRows /\ ActsAgreed /\ ExitIsDone
  BY <1>1 DEF TargetInit, PsKnowsRows, ActsAgreed, ExitIsDone, Trying
<1> QED BY <1>1, <1>2, <1>3, <1>4 DEF RowsInv, PlanIsListed, TriedAreTouched

(* The shell and the other clients leave an `rm` alone.                    *)
RmStays == UNCHANGED <<rmSide, rmStep, rmWork, consent, rmExit>>
LEMMA OthersInv ==
  ASSUME RowsInv, RmStays, podEnds' = podEnds,
         \A p \in UserPods : podLife[p] = "gone" => podLife'[p] = "gone"
  PROVE  PlanIsListed' /\ TriedAreTouched' /\ ActsAgreed' /\ ExitIsDone'
<1> USE DEF RowsInv, RmStays, rmSide, rmWork
<1>1. Chosen' = Chosen /\ Tried' = Tried /\ Asked' = Asked /\ Trying' = Trying
  BY DEF Chosen, Tried, Asked, Trying
<1>2. Tried \subseteq UserPods
  BY ChosenArePods
<1>3. PlanIsListed'
  BY <1>1 DEF PlanIsListed
<1>4. TriedAreTouched'
  BY <1>1, <1>2 DEF TriedAreTouched
<1>5. ActsAgreed' /\ ExitIsDone'
  BY <1>1 DEF ActsAgreed, ExitIsDone
<1> QED BY <1>3, <1>4, <1>5

LEMMA ShellInv ==
  ASSUME RowsInv, PsLoads \/ PsOpens \/ PsWrites \/ PsShows \/ TenMinutes \/ Pruned \/ NumberReused
  PROVE  RowsInv'
<1> USE DEF AChange
<1>1. RmStays /\ UNCHANGED apiSide /\ changes' \in 0..MaxChanges
  BY RowsAssumption
     DEF PsLoads, PsOpens, PsWrites, PsShows, TenMinutes, Pruned, NumberReused, RmStays, RowsInv,
         TargetTypeOK
<1>2. PlanIsListed' /\ TriedAreTouched' /\ ActsAgreed' /\ ExitIsDone'
  BY <1>1, OthersInv DEF apiSide
<1>3. /\ psStep' \in {"idle", "store", "write", "show"} /\ PsKnowsRows'
      /\ psRows' \in PodRows \cup {NoRows}
  BY DEF PsLoads, PsOpens, PsWrites, PsShows, TenMinutes, Pruned, NumberReused, RowsInv, PsKnowsRows,
         TargetTypeOK, PodRows
<1>4. ASSUME NEW l \in Listings PROVE Older(l) \in Listings
  BY <1>4 DEF Older, Listings
<1>5. rowsFile' \in Listings /\ screen' \in Listings
  <2>1. rowsFile \in Listings /\ screen \in Listings /\ NoRows \in Listings
    BY DEF RowsInv, TargetTypeOK, Listings
  <2>2. psStep # "idle" => [rows |-> psRows, fresh |-> TRUE] \in Listings
    BY DEF RowsInv, PsKnowsRows, Listings
  <2>3. Older(rowsFile) \in Listings /\ Older(screen) \in Listings
    BY <1>4, <2>1
  <2> QED
    BY <2>1, <2>2, <2>3
       DEF PsLoads, PsOpens, PsWrites, PsShows, TenMinutes, Pruned, NumberReused
<1>6. TargetTypeOK'
  BY <1>1, <1>3, <1>5 DEF RowsInv, TargetTypeOK, RmStays, apiSide, rmSide, rmWork, Chosen
<1> QED BY <1>2, <1>3, <1>6 DEF RowsInv

LEMMA ClientsInv ==
  ASSUME RowsInv, NEW p \in UserPods, PodComes(p) \/ PodRenamed(p) \/ PodLeaves(p)
  PROVE  RowsInv'
<1> USE DEF AChange
<1>1. RmStays /\ UNCHANGED <<shellSide, podEnds>> /\ changes' \in 0..MaxChanges
  BY RowsAssumption DEF PodComes, PodRenamed, PodLeaves, Elsewhere, RmStays, RowsInv, TargetTypeOK
<1>2. \A q \in UserPods : podLife[q] = "gone" => podLife'[q] = "gone"
  BY DEF PodComes, PodRenamed, PodLeaves, RowsInv, TargetTypeOK
<1>3. PlanIsListed' /\ TriedAreTouched' /\ ActsAgreed' /\ ExitIsDone'
  BY <1>1, <1>2, OthersInv
<1>4. /\ podName' \in [UserPods -> Rows \cup PlainNames]
      /\ podLife' \in [UserPods -> {"none", "listed", "gone"}]
  BY DEF PodComes, PodRenamed, PodLeaves, RowsInv, TargetTypeOK
<1>5. TargetTypeOK' /\ PsKnowsRows'
  BY <1>1, <1>4
     DEF RowsInv, TargetTypeOK, PsKnowsRows, RmStays, shellSide, rmSide, rmWork, Chosen
<1> QED BY <1>3, <1>5 DEF RowsInv

LEMMA RmStartsInv ==
  ASSUME RowsInv, NEW line \in RmLines, RmStarts(line) PROVE RowsInv'
<1>1. rmPlan' = <<>> /\ Len(rmPlan') = 0 /\ DOMAIN rmPlan' = {} /\ rmDone' = 0
  BY DEF RmStarts
<1>2. Chosen' = {} /\ Tried' = {}
  BY <1>1 DEF Chosen, Tried
<1>3. TargetTypeOK'
  <2>1. rmPlan' \in Seq(RmChoices)
    BY <1>1
  <2> QED
    BY <1>1, <1>2, <2>1 DEF RmStarts, RowsInv, TargetTypeOK, apiSide, shellSide, RmExits
<1>4. PsKnowsRows' /\ ActsAgreed' /\ ExitIsDone'
  BY <1>1 DEF RmStarts, RowsInv, PsKnowsRows, ActsAgreed, ExitIsDone, Trying, shellSide
<1>5. PlanIsListed' /\ TriedAreTouched'
  BY <1>1, <1>2 DEF RmStarts, PlanIsListed, TriedAreTouched
<1> QED BY <1>3, <1>4, <1>5 DEF RowsInv

LEMMA RmListsInv == RowsInv /\ RmLists => RowsInv'
<1> SUFFICES ASSUME RowsInv, RmLists PROVE RowsInv'
  OBVIOUS
<1> USE DEF RmLists, RmEnds, RmGoes, RowsInv, apiSide, shellSide, rmWork
<1>1. rmPlan = <<>> /\ rmPlan' = <<>> /\ rmDone = 0 /\ rmDone' = 0 /\ DOMAIN rmPlan = {}
  BY DEF PlanIsListed
<1>2. Chosen = {} /\ Chosen' = {} /\ Tried' = {}
  BY <1>1 DEF Chosen, Tried
<1>3. rmListed' \subseteq UserPods
  BY DEF Listed, TargetTypeOK
<1>4. TargetTypeOK'
  BY <1>1, <1>2, <1>3 DEF TargetTypeOK, RmExits
<1>5. PsKnowsRows' /\ ActsAgreed' /\ ExitIsDone'
  <2>1. rmExit = "none" /\ rmStep' # "act" /\ rmExit' \in {"none", "api", "nothing", "not_found"}
    BY DEF TargetTypeOK
  <2> QED BY <1>1, <2>1 DEF PsKnowsRows, ActsAgreed, ExitIsDone, Trying
<1>6. PlanIsListed' /\ TriedAreTouched'
  BY <1>1, <1>2 DEF PlanIsListed, TriedAreTouched
<1> QED BY <1>4, <1>5, <1>6

LEMMA RmResolvesInv == RowsInv /\ RmResolves => RowsInv'
<1> SUFFICES ASSUME RowsInv, RmResolves PROVE RowsInv'
  OBVIOUS
<1> USE DEF RmEnds, RmGoes, RowsInv, apiSide, shellSide, rmWork
<1>1. /\ rmDone = 0 /\ rmDone' = 0 /\ rmLine \in RmLines
      /\ failed = {} /\ overspent = {} /\ touched = {}
  BY DEF RmResolves, PlanIsListed
<1>2. \/ rmPlan' = <<>> /\ rmStep' = "idle"
      \/ rmPlan' \in ResolvedPlans /\ rmStep' = "approve"
  BY DEF RmResolves, PlanIsListed
<1>3. rmPlan' \in Seq(RmChoices) /\ \A i \in DOMAIN rmPlan' : rmPlan'[i].pod \in rmListed
  <2>1. CASE rmPlan' = <<>>
    BY <2>1
  <2>2. CASE rmPlan' \in ResolvedPlans
    BY <1>1, <2>2, PlanMeans
  <2> QED BY <1>2, <2>1, <2>2
<1>4. Chosen' \subseteq rmListed' /\ Tried' = {} /\ rmListed' = rmListed
  BY <1>1, <1>3 DEF Chosen, Tried, RmResolves
<1>5. TargetTypeOK'
  BY <1>1, <1>2, <1>3, <1>4 DEF RmResolves, TargetTypeOK, RmExits
<1>6. PsKnowsRows' /\ ActsAgreed' /\ ExitIsDone'
  <2>1. rmStep' # "act" /\ rmExit' \in {"none", "stale", "not_found", "invalid"}
    BY DEF RmResolves, TargetTypeOK
  <2> QED BY <1>1, <2>1 DEF RmResolves, PsKnowsRows, ActsAgreed, ExitIsDone, Trying
<1>7. PlanIsListed' /\ TriedAreTouched'
  BY <1>1, <1>2, <1>4 DEF RmResolves, PlanIsListed, TriedAreTouched
<1> QED BY <1>5, <1>6, <1>7

LEMMA RmApprovesInv == RowsInv /\ RmApproves => RowsInv'
<1> SUFFICES ASSUME RowsInv, RmApproves PROVE RowsInv'
  OBVIOUS
<1> USE DEF RmApproves, RmEnds, RmGoes, RowsInv, apiSide, shellSide, rmSide, rmWork
<1>1. rmDone = 0 /\ rmDone' = 0 /\ rmPlan' = rmPlan /\ rmLine' = rmLine
  BY DEF PlanIsListed
<1>2. Chosen' = Chosen /\ Tried' = {} /\ Asked' = Asked /\ Chosen \subseteq UserPods
  BY <1>1, ChosenArePods DEF Chosen, Tried, Asked
<1>3. TargetTypeOK'
  BY <1>1, <1>2 DEF TargetTypeOK, RmExits
<1>4. ActsAgreed'
  BY <1>1, <1>2 DEF ActsAgreed, Trying
<1>5. PsKnowsRows' /\ ExitIsDone'
  BY <1>1 DEF PsKnowsRows, ExitIsDone, Trying
<1>6. PlanIsListed' /\ TriedAreTouched'
  BY <1>1, <1>2 DEF PlanIsListed, TriedAreTouched
<1> QED BY <1>3, <1>4, <1>5, <1>6

(* One try: the pod is among the failed or the overspent, or it has gone   *)
(* or has its end; what the others have become stands.                     *)
LEMMA RmTriesInv == RowsInv /\ RmTries => RowsInv'
<1> SUFFICES ASSUME RowsInv, RmTries PROVE RowsInv'
  OBVIOUS
<1> USE DEF RowsInv
<1>1. /\ rmStep = "act" /\ rmStep' = "act" /\ rmExit = "none" /\ rmExit' = "none"
      /\ rmDone' = rmDone + 1 /\ UNCHANGED <<rmLine, rmListed, rmPlan, consent, changes>>
      /\ UNCHANGED <<podName, shellSide>>
  BY DEF RmTries, TargetTypeOK, rmSide
<1>2. rmDone \in 0..Len(rmPlan) /\ rmDone' \in 1..Len(rmPlan) /\ Len(rmPlan) \in Nat
  BY <1>1 DEF RmTries, TargetTypeOK
<1>3. Current \in Chosen /\ Current \in UserPods /\ Chosen' = Chosen /\ Asked' = Asked
  <2>1. rmDone + 1 \in DOMAIN rmPlan
    BY <1>1, <1>2, ChosenArePods
  <2> QED BY <1>1, <2>1, ChosenArePods DEF Current, Chosen, Asked
<1>4. Tried' = Tried \cup {Current}
  BY <1>1, <1>2 DEF Tried, Current
<1>5. /\ podLife' \in [UserPods -> {"none", "listed", "gone"}] /\ podEnds \subseteq podEnds'
      /\ podEnds' \subseteq podEnds \cup {Current}
      /\ \A p \in UserPods : podLife[p] = "gone" => podLife'[p] = "gone"
      /\ failed \subseteq failed' /\ failed' \subseteq failed \cup {Current}
      /\ overspent \subseteq overspent' /\ overspent' \subseteq overspent \cup {Current}
      /\ touched' \subseteq touched \cup {Current}
  BY <1>3 DEF RmTries, TryRemove, TrySchedule, TargetTypeOK
<1>6. \/ Current \in failed' \cup overspent' \/ podLife'[Current] = "gone"
      \/ rmLine.later /\ Current \in podEnds'
  BY <1>3 DEF RmTries, TryRemove, TrySchedule, TargetTypeOK
<1>7. TargetTypeOK'
  <2>1. rmDone' \in 0..Len(rmPlan')
    BY <1>1, <1>2
  <2>2. failed' \subseteq Chosen' /\ overspent' \subseteq Chosen' /\ touched' \subseteq UserPods
    BY <1>3, <1>5 DEF TargetTypeOK
  <2>3. podEnds' \subseteq UserPods
    BY <1>3, <1>5 DEF TargetTypeOK
  <2> QED BY <1>1, <1>5, <2>1, <2>2, <2>3 DEF TargetTypeOK, shellSide
<1>8. TriedAreTouched'
  <2>1. Tried \subseteq UserPods
    BY ChosenArePods
  <2> QED BY <1>1, <1>4, <1>5, <1>6, <2>1 DEF TriedAreTouched
<1>9. ActsAgreed'
  BY <1>1, <1>3 DEF ActsAgreed, Trying
<1>10. PsKnowsRows' /\ ExitIsDone' /\ PlanIsListed'
  BY <1>1, <1>2, <1>3 DEF PsKnowsRows, ExitIsDone, PlanIsListed, Trying, shellSide
<1> QED BY <1>7, <1>8, <1>9, <1>10

LEMMA RmReportsInv == RowsInv /\ RmReports => RowsInv'
<1> SUFFICES ASSUME RowsInv, RmReports PROVE RowsInv'
  OBVIOUS
<1> USE DEF RmReports, RmEnds, RowsInv, apiSide, shellSide, rmSide, rmWork
<1>1. Chosen' = Chosen /\ Tried' = Tried /\ Asked' = Asked
  BY DEF Chosen, Tried, Asked
<1>2. TargetTypeOK'
  BY <1>1 DEF TargetTypeOK, RmExits
<1>3. ActsAgreed'
  BY <1>1 DEF ActsAgreed, Trying
<1>4. PsKnowsRows' /\ ExitIsDone'
  BY DEF PsKnowsRows, ExitIsDone, Trying
<1>5. PlanIsListed' /\ TriedAreTouched'
  BY <1>1 DEF PlanIsListed, TriedAreTouched
<1> QED BY <1>2, <1>3, <1>4, <1>5

LEMMA RowsStutterInv == RowsInv /\ UNCHANGED targetVars => RowsInv'
<1> SUFFICES ASSUME RowsInv, UNCHANGED targetVars PROVE RowsInv'
  OBVIOUS
<1> USE DEF RowsInv, targetVars, apiSide, shellSide, rmSide, rmWork
<1>1. PlanIsListed' /\ TriedAreTouched' /\ ActsAgreed' /\ ExitIsDone'
  BY OthersInv DEF RmStays
<1>2. TargetTypeOK' /\ PsKnowsRows'
  BY DEF TargetTypeOK, PsKnowsRows, Chosen
<1> QED BY <1>1, <1>2

LEMMA RowsNextInv == RowsInv /\ [TargetNext]_targetVars => RowsInv'
BY ShellInv, ClientsInv, RmStartsInv, RmListsInv, RmResolvesInv, RmApprovesInv, RmTriesInv,
   RmReportsInv, RowsStutterInv
   DEF TargetNext

LEMMA RowsInvSays == RowsInv => OnlyTheAgreedPods /\ WhatRmSaysIsTrue
<1> SUFFICES ASSUME RowsInv PROVE OnlyTheAgreedPods /\ WhatRmSaysIsTrue
  OBVIOUS
<1> USE DEF RowsInv
<1>1. rmDone \in 0..Len(rmPlan) /\ DOMAIN rmPlan = 1..Len(rmPlan) /\ Len(rmPlan) \in Nat
  BY DEF TargetTypeOK
<1>2. Tried \subseteq Chosen
  BY <1>1 DEF Tried, Chosen
<1>3. touched # {} => Trying
  <2>1. rmDone = 0 \/ rmDone > 0
    BY <1>1
  <2> QED BY <2>1 DEF PlanIsListed, ExitIsDone
<1>4. Trying => rmExit \in {"none", "ok", "failed", "budget"}
  BY DEF Trying, TargetTypeOK
<1>5. OnlyTheAgreedPods
  BY <1>2, <1>3, <1>4 DEF OnlyTheAgreedPods, TriedAreTouched, PlanIsListed, ActsAgreed
<1>6. ASSUME rmExit \in {"ok", "failed", "budget"} PROVE Tried = Chosen
  BY <1>1, <1>6 DEF ExitIsDone, Tried, Chosen
<1>7. WhatRmSaysIsTrue
  BY <1>6 DEF WhatRmSaysIsTrue, ExitIsDone, TriedAreTouched, Reported
<1> QED BY <1>5, <1>7

(* `rm` touches only pods that were listed and agreed to, what it reports  *)
(* is so, and where the file holds what the shell was shown a row number   *)
(* means the pod that was seen there (resolve_targets, rm_command).        *)
THEOREM RemovalWordIsKept == TargetSpec => RemovalKeepsItsWord
<1>1. ASSUME RowsInv, [TargetNext]_targetVars
      PROVE  [rmStep = "resolve" /\ rowsFile = screen =>
                \A i \in DOMAIN rmPlan' : NumberMeansWhatWasSeen(rmPlan'[i])]_targetVars
  <2> SUFFICES ASSUME TargetNext, rmStep = "resolve", rowsFile = screen,
                      NEW i \in DOMAIN rmPlan'
               PROVE  NumberMeansWhatWasSeen(rmPlan'[i])
    BY <1>1
  <2>1. TargetTypeOK /\ rmLine \in RmLines /\ rmPlan = <<>> /\ DOMAIN rmPlan = {}
    BY <1>1 DEF RowsInv, PlanIsListed
  <2>2. rmPlan' = rmPlan \/ rmPlan' = <<>> \/ rmPlan' \in ResolvedPlans
    BY DEF TargetNext, PsLoads, PsOpens, PsWrites, PsShows, RmStarts, RmLists, RmResolves, RmApproves,
           RmTries, RmReports, PodComes, PodRenamed, PodLeaves, Elsewhere, TenMinutes, Pruned,
           NumberReused, rmSide
  <2> QED BY <2>1, <2>2, PlanMeans
<1>2. RowsInv => OnlyTheAgreedPods /\ WhatRmSaysIsTrue
  BY RowsInvSays
<1> QED
  BY <1>1, <1>2, RowsInitInv, RowsNextInv, PTL DEF TargetSpec, RemovalKeepsItsWord

-----------------------------------------------------------------------------
(* The six together (MCPodHolders).                                        *)

HolderInv ==
  /\ part \in {"job", "wait", "up", "card", "fund", "rows"}
  /\ part = "job" => JobInv
  /\ part = "wait" => WaitInv
  /\ part = "up" => UpInv
  /\ part = "card" => CardInv
  /\ part = "fund" => FundInv
  /\ part = "rows" => RowsInv

LEMMA HolderInitInv == HolderInit => HolderInv
BY JobInitInv, WaitInitInv, UpInitInv, CardInitInv, FundInitInv, RowsInitInv
   DEF HolderInit, HolderInv

LEMMA HolderNextInv == HolderInv /\ [HolderNext]_holderVars => HolderInv'
<1> SUFFICES ASSUME HolderInv, [HolderNext]_holderVars PROVE HolderInv'
  OBVIOUS
<1>1. CASE part = "job" /\ [JobNext]_jobVars /\ part' = part
  BY <1>1, JobNextInv DEF HolderInv
<1>2. CASE part = "wait" /\ [ReadyNext]_readyVars /\ part' = part
  BY <1>2, WaitNextInv DEF HolderInv
<1>3. CASE part = "up" /\ [UpNext]_upVars /\ part' = part
  BY <1>3, UpNextInv DEF HolderInv
<1>4. CASE part = "card" /\ [CardNext]_cardVars /\ part' = part
  BY <1>4, CardNextInv DEF HolderInv
<1>5. CASE part = "fund" /\ [FundNext]_fundVars /\ part' = part
  BY <1>5, FundNextInv DEF HolderInv
<1>6. CASE part = "rows" /\ [TargetNext]_targetVars /\ part' = part
  BY <1>6, RowsNextInv DEF HolderInv
<1>7. CASE HolderNext
  BY <1>1, <1>2, <1>3, <1>4, <1>5, <1>6, <1>7 DEF HolderNext
<1>8. CASE UNCHANGED holderVars
  BY <1>1, <1>2, <1>3, <1>4, <1>5, <1>6, <1>8 DEF HolderInv, holderVars
<1> QED BY <1>7, <1>8

(* Every variable of the six commands has its type, and what the types say *)
(* of two variables at once holds (MCPodHolders).                          *)
THEOREM HolderTypes == HolderSpec => []HolderTypeOK
<1>1. HolderInv => HolderTypeOK
  BY DEF HolderInv, HolderTypeOK, JobInv, WaitInv, UpInv, CardInv, FundInv, RowsInv
<1> QED BY <1>1, HolderInitInv, HolderNextInv, PTL DEF HolderSpec
==============================================================================
