-------------------------------- MODULE Fund --------------------------------
(***************************************************************************)
(* `lium fund` (src/lium/cli/fund/command.py, actions.py): a transfer on   *)
(* the chain to the address that the pay API credits, of TAO, or of alpha  *)
(* staked on a subnet.  The amount, the subnet and the address of alpha    *)
(* come from the API, before a prompt that may stand for hours; nothing    *)
(* can take a transfer back, and its confirmation may be lost.  Beside it  *)
(* the payer, who wants to fund once and runs the command again when its   *)
(* exit lets him.                                                          *)
(***************************************************************************)
EXTENDS Integers

CONSTANTS
  FundRuns,   \* bound on the runs of the command
  Nets,       \* subnets
  Addresses,  \* Lium's funding coldkeys
  MaxAlpha,   \* bound on amounts
  NoNet, NoTarget, StillFunding

FundExits == {"ok", "declined", "api", "transfer_failed", "interrupted"}
Targets == [address : Addresses, net : Nets \cup {NoNet}, amount : 0..MaxAlpha]

ASSUME FundAssumption ==
  /\ FundRuns \in Nat \ {0} /\ MaxAlpha \in Nat \ {0} /\ NoNet \notin Nets
  /\ NoTarget \notin Targets /\ StillFunding \notin FundExits

VARIABLES
  alphaFlow,   \* --alpha
  wantedNet,   \* --netuid
  fundRun,     \* number of this run
  fundStep,    \* its next step
  fundExit,    \* how it ended
  target,      \* funding_address, netuid, amount_bal; see Targets
  agreed,      \* history: the target the payer said yes to
  payAddress,  \* pay API: the company wallet now
  primaryNet,  \* pay API: the primary subnet now
  registered,  \* pay API: the coldkey is linked to the account
  freeAlpha,   \* chain: subnet -> free alpha of the hotkey
  extrinsic,   \* run -> what has become of its transfer
  sentTo       \* run -> the target it was signed for

runSide == <<target, agreed>>
chainSide == <<freeAlpha, extrinsic, sentTo>>
paySide == <<payAddress, primaryNet, registered>>
fundLine == <<alphaFlow, wantedNet, fundRun>>
fundVars == <<fundLine, fundStep, fundExit, runSide, paySide, chainSide>>

FundRunIds == 1..FundRuns
Sent == {r \in FundRunIds : extrinsic[r] # "none"}

FundTypeOK ==
  /\ alphaFlow \in BOOLEAN /\ wantedNet \in Nets \cup {NoNet} /\ fundRun \in FundRunIds
  /\ fundStep \in {"client", "subnets", "register", "address", "quote", "check", "confirm",
                   "requote", "gate", "send", "sent", "ended"}
  /\ fundExit \in FundExits \cup {StillFunding}
  /\ target \in Targets \cup {NoTarget} /\ agreed \in Targets \cup {NoTarget}
  /\ payAddress \in Addresses /\ primaryNet \in Nets /\ registered \in BOOLEAN
  /\ freeAlpha \in [Nets -> 0..MaxAlpha]
  /\ extrinsic \in [FundRunIds -> {"none", "travels", "landed", "rejected"}]
  /\ sentTo \in [FundRunIds -> Targets \cup {NoTarget}]
  /\ fundExit = StillFunding <=> fundStep # "ended"
  /\ \A r \in Sent : r <= fundRun /\ (sentTo[r] = NoTarget <=> ~alphaFlow)

FundInit ==
  /\ alphaFlow \in BOOLEAN /\ wantedNet \in (IF alphaFlow THEN Nets \cup {NoNet} ELSE {NoNet})
  /\ fundRun = 1 /\ fundStep = "client" /\ fundExit = StillFunding
  /\ target = NoTarget /\ agreed = NoTarget
  /\ payAddress \in Addresses /\ primaryNet \in Nets /\ registered \in BOOLEAN
  /\ freeAlpha \in [Nets -> 0..MaxAlpha]
  /\ extrinsic = [r \in FundRunIds |-> "none"] /\ sentTo = [r \in FundRunIds |-> NoTarget]

FundGoes(from, to) == fundStep = from /\ fundStep' = to /\ UNCHANGED fundExit
FundEnds(from, exit) == fundStep = from /\ fundStep' = "ended" /\ fundExit' = exit
(* A request or a read that fails ends the run.                            *)
FundFails(from) ==
  FundEnds(from, "api") /\ UNCHANGED <<fundLine, runSide, paySide, chainSide>>
FundOnly == UNCHANGED <<fundLine, runSide, paySide, chainSide>>

-----------------------------------------------------------------------------
(* Before the transfer.                                                    *)

(* Wallet, amount, client; for TAO the balance too.                        *)
FundClient ==
  \/ FundFails("client")
  \/ /\ FundGoes("client", IF ~alphaFlow THEN "confirm"
                           ELSE IF wantedNet # NoNet THEN "subnets" ELSE "register")
     /\ FundOnly

(* alpha_subnets: the accepted set and whether the wanted one is in it.    *)
CheckSubnets ==
  FundFails("subnets") \/ (FundGoes("subnets", "register") /\ FundOnly)

(* UnlockColdkeyAction, CheckWalletRegistrationAction.  A failed           *)
(* registration may have been made.                                        *)
RegisterWallet ==
  /\ \/ /\ FundGoes("register", IF alphaFlow THEN "address" ELSE "send")
        /\ registered' = TRUE
     \/ FundEnds("register", "api") /\ registered' \in {registered, TRUE}
  /\ UNCHANGED <<fundLine, runSide, payAddress, primaryNet, chainSide>>

(* company_wallet, once per run.                                           *)
ResolveAddress ==
  \/ FundFails("address")
  \/ /\ FundGoes("address", "quote")
     /\ target' = [address |-> payAddress, net |-> NoNet, amount |-> 0]
     /\ UNCHANGED <<fundLine, agreed, paySide, chainSide>>

(* convert_alpha: an amount, on the subnet asked for or on the primary one.*)
(* A quote on another one than was asked for ends the run.                 *)
QuotedNet == IF wantedNet = NoNet THEN primaryNet ELSE wantedNet
QuoteAlpha ==
  \/ FundFails("quote")
  \/ /\ FundGoes("quote", "check")
     /\ \E a \in 0..MaxAlpha : target' = [target EXCEPT !.net = QuotedNet, !.amount = a]
     /\ UNCHANGED <<fundLine, agreed, paySide, chainSide>>

(* CheckFreeAlphaAction only shows.                                        *)
ShowFreeAlpha ==
  FundFails("check") \/ (FundGoes("check", "confirm") /\ FundOnly)

ConfirmFund ==
  /\ \/ FundEnds("confirm", "declined") /\ UNCHANGED agreed
     \/ FundGoes("confirm", IF alphaFlow THEN "requote" ELSE "register") /\ agreed' = target
  /\ UNCHANGED <<fundLine, target, paySide, chainSide>>

(* The second quote only guards the subnet.                                *)
RequoteAlpha ==
  \/ FundFails("requote")
  \/ FundGoes("requote", "gate") /\ QuotedNet = target.net /\ FundOnly

-----------------------------------------------------------------------------
(* The transfer.                                                           *)

(* ExecuteAlphaTransferAction: the free alpha is read again.               *)
GateAlpha ==
  \/ FundFails("gate")
  \/ FundGoes("gate", "send") /\ freeAlpha[target.net] >= target.amount /\ FundOnly

(* A failure before that: ExecuteTransferAction has one word for all.      *)
SignTransfer ==
  /\ \/ /\ FundGoes("send", "sent")
        /\ extrinsic' = [extrinsic EXCEPT ![fundRun] = "travels"]
        /\ sentTo' = [sentTo EXCEPT ![fundRun] = target]
     \/ /\ FundEnds("send", IF alphaFlow THEN "api" ELSE "transfer_failed")
        /\ UNCHANGED <<extrinsic, sentTo>>
  /\ UNCHANGED <<fundLine, runSide, paySide, freeAlpha>>

(* The chain's answer, or none: transfer_attempted.  Faulty: a call that   *)
(* raised has sent nothing.                                                *)
TransferEnds(lost) ==
  /\ \/ extrinsic[fundRun] = "landed" /\ FundEnds("sent", "ok")
     \/ extrinsic[fundRun] = "rejected" /\ FundEnds("sent", "transfer_failed")
     \/ FundEnds("sent", lost)
  /\ FundOnly
TransferAnsweredFaulty == TransferEnds(IF alphaFlow THEN "api" ELSE "transfer_failed")
TransferAnswered == TransferEnds("transfer_failed")

InterruptFund ==
  /\ fundStep # "ended" /\ FundEnds(fundStep, "interrupted") /\ FundOnly

-----------------------------------------------------------------------------
(* The chain, the pay API and the wallet's owner.                          *)

Land(r) ==
  /\ extrinsic[r] = "travels"
  /\ \/ /\ extrinsic' = [extrinsic EXCEPT ![r] = "landed"]
        /\ IF sentTo[r] = NoTarget THEN UNCHANGED freeAlpha
           ELSE /\ sentTo[r].amount <= freeAlpha[sentTo[r].net]
                /\ freeAlpha' = [freeAlpha EXCEPT ![sentTo[r].net] = @ - sentTo[r].amount]
     \/ extrinsic' = [extrinsic EXCEPT ![r] = "rejected"] /\ UNCHANGED freeAlpha
  /\ UNCHANGED <<fundLine, fundStep, fundExit, runSide, paySide, sentTo>>

(* Bound: the world changes only while the command is at the prompt or     *)
(* between its last reads.                                                 *)
Rotates ==
  /\ fundStep \in {"confirm", "requote", "gate", "send"}
  /\ \/ payAddress' \in Addresses /\ UNCHANGED <<primaryNet, freeAlpha>>
     \/ primaryNet' \in Nets /\ UNCHANGED <<payAddress, freeAlpha>>
     \/ /\ \E n \in Nets, a \in 0..MaxAlpha : freeAlpha' = [freeAlpha EXCEPT ![n] = a]
        /\ UNCHANGED <<payAddress, primaryNet>>
  /\ UNCHANGED <<fundLine, fundStep, fundExit, runSide, registered, extrinsic, sentTo>>

(* TRANSFER_FAILED_HINT says not to send again; of an interrupt nothing is *)
(* known.                                                                  *)
FundAgain ==
  /\ fundExit \in {"declined", "api"} /\ fundRun < FundRuns
  /\ fundRun' = fundRun + 1 /\ fundStep' = "client" /\ fundExit' = StillFunding
  /\ target' = NoTarget /\ agreed' = NoTarget
  /\ UNCHANGED <<alphaFlow, wantedNet, paySide, chainSide>>

FundNext ==
  \/ FundClient \/ CheckSubnets \/ RegisterWallet \/ ResolveAddress \/ QuoteAlpha
  \/ ShowFreeAlpha \/ ConfirmFund \/ RequoteAlpha \/ GateAlpha \/ SignTransfer
  \/ TransferAnswered \/ InterruptFund \/ (\E r \in FundRunIds : Land(r)) \/ Rotates \/ FundAgain
FundSpec == FundInit /\ [][FundNext]_fundVars

-----------------------------------------------------------------------------
(* Who follows the exits funds at most once, whatever confirmations were   *)
(* lost: at most one transfer is on the chain or on its way there.         *)
FundedOnce ==
  \A r, s \in FundRunIds :
    extrinsic[r] \in {"travels", "landed"} /\ extrinsic[s] \in {"travels", "landed"} => r = s

(* What goes to the chain is what the payer said yes to, from a wallet     *)
(* that the API can attribute, on the subnet he asked for; and a run that  *)
(* does not warn of it has sent nothing.                                   *)
SentAsAgreed ==
  /\ Sent # {} => registered
  /\ extrinsic[fundRun] # "none" =>
       /\ sentTo[fundRun] = agreed
       /\ wantedNet # NoNet => agreed.net = wantedNet
       /\ fundExit \notin {"declined", "api"}
  /\ fundExit = "ok" => extrinsic[fundRun] = "landed"

(* The payer can rely on the prompt and on the exits of `fund`.            *)
FundKeepsItsWord == FundedOnce /\ SentAsAgreed

(* VIOLATED.  actions.py:8: "it resolves the destination coldkey from the  *)
(* pay API at fund time (see ``_alpha_fund``) so a rotated address can     *)
(* never silently send alpha into a black hole".                           *)
AlphaReachesLium ==
  [][fundStep = "requote" /\ fundStep' = "gate" => target.address = payAddress]_fundVars
==============================================================================
