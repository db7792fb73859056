---------------------------- MODULE AccountFunds ----------------------------
(***************************************************************************)
(* The funds of an account as a strategy sees them: the messages of the    *)
(* exchange's account channel made Binance's outboundAccountPosition, the  *)
(* answers of FetchAccountInformation and FetchFundingWallet, and on OKX   *)
(* the balanceUpdate of a transfer, which is the difference of two totals: *)
(* the connection keeps the last one of each asset. The lists of transfers *)
(* of the other exchanges are in Ledgers.                                  *)
(*                                                                         *)
(* A message is told in the step that causes it: its delay is left out.    *)
(***************************************************************************)
EXTENDS Exchanges, Integers

CONSTANTS
    Assets,
    Pair,           \* those of the symbol that the stream was started for
    Account,        \* "main" or "sub"
    TwoFactor,      \* Bitfinex: are master_email and two_fa configured?
    AskedAssets,    \* FetchFundingWallet: "" is for all of them
    MaxFunds,       \* bound: of one asset in one wallet
    MaxDrops        \* bound: lost connections

AccountFundsAssumption ==
    /\ Account \in {"main", "sub"}
    /\ Pair \subseteq Assets /\ AskedAssets \subseteq Assets \cup {""}
    /\ TwoFactor \in BOOLEAN /\ MaxFunds \in Nat \ {0} /\ MaxDrops \in Nat

VARIABLES
    free, locked,   \* the exchange's books: of the trading account
    fund,           \* ... and of the funding wallet
    moved,          \* ... and what was moved in, less what was moved out
    missed,         \* ... of it, while the connection was lost
    up,             \* is the account's connection open?
    buffer,         \* OKX, wss_event_buffer: the last total of an asset
    shown,          \* the last funds told of an asset, or None
    stale,          \* the assets that changed while the connection was lost
    deltas,         \* the sum of the balanceUpdates of an asset
    answer,         \* of FetchAccountInformation: by asset, or an error
    wallet,         \* of FetchFundingWallet
    drops

fundVars ==
    <<free, locked, fund, moved, missed, up, buffer, shown, stale, deltas, answer, wallet, drops>>

None == [free |-> -1, locked |-> -1]
NoBalance == -1
NoFunds == [a \in Assets |-> 0]
NoAnswer == [status |-> "none"]
Funds(f, l) == [free |-> f, locked |-> l]

(* What is locked is not taken from the total. *)
WholeFunds(f, l) == Funds(f + l, l)

(* Bitfinex: i[4] or total, where a zero is taken for no value at all.     *)
BfxFunds(f, l) == LET available == IF f # 0 THEN f ELSE f + l IN Funds(available, f + l - available)

(* HTX: balance and available. *)
HtxFunds(f, l) == LET total == f + l IN Funds(f, total - f)

(* OKX: availBal and frozenBal. *)
OkxFunds(f, l) == Funds(f, l)

(* ByBit: walletBalance and locked. *)
BybitFunds(f, l) == LET walletBalance == f + l IN Funds(walletBalance - l, l)

on_funds_update(f, l) ==
    CASE exchange = "bitfinex" -> BfxFunds(f, l) [] exchange = "huobi" -> HtxFunds(f, l)
      [] exchange = "okx" -> OkxFunds(f, l) [] OTHER -> BybitFunds(f, l)

(* HTX: the stream is for one symbol and passes its currencies only.       *)
Heard == IF exchange = "huobi" THEN Pair ELSE Assets

FundsInit ==
    /\ free \in [Assets -> 0..1] /\ locked = [a \in Assets |-> 0]
    /\ fund = [a \in Assets |-> 0] /\ moved = [a \in Assets |-> 0]
    /\ missed = [a \in Assets |-> 0]
    /\ up = TRUE
    /\ buffer = [a \in Assets |-> IF exchange = "okx" THEN free[a] ELSE NoBalance]
    /\ shown = [a \in Assets |-> None] /\ stale = {} /\ deltas = [a \in Assets |-> 0]
    /\ answer = NoAnswer /\ wallet = NoAnswer /\ drops = 0

-----------------------------------------------------------------------------
(* The account's messages                                                  *)

TellFunds(changed) ==
    IF up THEN /\ shown' = [a \in Assets |-> IF a \in changed \cap Heard
                                            THEN on_funds_update(free'[a], locked'[a]) ELSE shown[a]]
               /\ stale' = stale \ changed
    ELSE stale' = stale \cup changed /\ UNCHANGED shown

(* Only transfers are remembered. *)
RememberTransfers(changed, eventType) ==
    buffer' = [a \in Assets |-> IF a \in changed /\ eventType = "transferred"
                                THEN free'[a] + locked'[a] ELSE buffer[a]]

Remember(changed, eventType) ==
    buffer' = [a \in Assets |-> IF a \in changed THEN free'[a] + locked'[a] ELSE buffer[a]]

(* OKX: the balance_and_position channel tells of every change of a total, *)
(* and of the event it comes from.                                         *)
on_balance_update(changed, eventType) ==
    IF exchange = "okx" /\ up
    THEN /\ Remember(changed, eventType)
         /\ deltas' = [a \in Assets |->
              IF a \in changed /\ eventType = "transferred" /\ buffer[a] # NoBalance
              THEN deltas[a] + free'[a] + locked'[a] - buffer[a] ELSE deltas[a]]
    ELSE UNCHANGED <<buffer, deltas>>

(* An answer is looked at once.                                            *)
AnswerRead == answer' = NoAnswer /\ wallet' = NoAnswer

Exchanged == AnswerRead /\ UNCHANGED <<fund, moved, missed, up, drops>>

(* An order is placed for one unit, or cancelled. *)
Lock(a) ==
    /\ free[a] > 0
    /\ free' = [free EXCEPT ![a] = @ - 1] /\ locked' = [locked EXCEPT ![a] = @ + 1]
    /\ TellFunds({a}) /\ Exchanged /\ UNCHANGED <<buffer, deltas>>

Unlock(a) ==
    /\ locked[a] > 0
    /\ free' = [free EXCEPT ![a] = @ + 1] /\ locked' = [locked EXCEPT ![a] = @ - 1]
    /\ TellFunds({a}) /\ Exchanged /\ UNCHANGED <<buffer, deltas>>

(* An order is filled. *)
Trade(a, b) ==
    /\ a # b /\ locked[a] > 0 /\ free[b] + locked[b] < MaxFunds
    /\ locked' = [locked EXCEPT ![a] = @ - 1] /\ free' = [free EXCEPT ![b] = @ + 1]
    /\ TellFunds({a, b}) /\ on_balance_update({a, b}, "filled") /\ Exchanged

Move(a, q) ==
    /\ free[a] + q >= 0 /\ free[a] + locked[a] + q <= MaxFunds /\ moved[a] + q \in -MaxFunds..MaxFunds
    /\ free' = [free EXCEPT ![a] = @ + q] /\ moved' = [moved EXCEPT ![a] = @ + q]
    /\ missed' = [missed EXCEPT ![a] = IF up THEN @ ELSE @ + q]
    /\ AnswerRead /\ UNCHANGED <<locked, up, drops>>
    /\ TellFunds({a}) /\ on_balance_update({a}, "transferred")

Deposit(a) == Move(a, 1) /\ UNCHANGED fund

ToFunding(a) ==
    /\ fund[a] < MaxFunds /\ Move(a, -1)
    /\ fund' = [fund EXCEPT ![a] = @ + 1]

(* transfer_to_master(): ByBit's main account and a Bitfinex account       *)
(* without the master's address are refused here.                          *)
TransferToMaster(a) ==
    /\ exchange = "bybit" => Account = "sub"
    /\ exchange = "bitfinex" => TwoFactor
    /\ Move(a, -1) /\ UNCHANGED fund

(* The connection is lost; the buffer of its connection is cleared, then   *)
(* Bitfinex and OKX begin with all funds.                                  *)
Drop ==
    /\ up /\ drops < MaxDrops
    /\ up' = FALSE /\ drops' = drops + 1
    /\ buffer' = [a \in Assets |-> NoBalance]
    /\ AnswerRead /\ UNCHANGED <<free, locked, fund, moved, missed, shown, stale, deltas>>

Connect ==
    /\ ~up /\ up' = TRUE
    /\ UNCHANGED <<free, locked>>
    /\ LET all == IF exchange \in {"bitfinex", "okx"} THEN Assets ELSE {} IN
         /\ shown' = [a \in Assets |-> IF a \in all THEN on_funds_update(free[a], locked[a]) ELSE shown[a]]
         /\ stale' = stale \ all
    /\ buffer' = IF exchange = "okx" THEN [a \in Assets |-> free[a] + locked[a]] ELSE buffer
    /\ AnswerRead /\ UNCHANGED <<fund, moved, missed, deltas, drops>>

-----------------------------------------------------------------------------
(* Requests                                                                *)

(* The whole of the account for what is free. *)
BalancesWhole(f, l) == WholeFunds(f, l)

(* account_balances() of Bitfinex, OKX and ByBit. *)
account_balances(f, l) == IF exchange = "bybit" THEN BybitFunds(f, l)
                          ELSE LET total == f + l IN Funds(f, total - f)

Some == {a \in Assets : free[a] + locked[a] > 0}

(* HTX: its list of assets is the class dict, which takes no entry.        *)
FetchAccountInformation ==
    /\ answer = NoAnswer
    /\ answer' = IF exchange = "huobi" /\ Some # {} THEN [status |-> "UNKNOWN"]
                 ELSE [status |-> "OK", balances |-> [a \in Some |-> account_balances(free[a], locked[a])],
                       really |-> [a \in Some |-> Funds(free[a], locked[a])]]
    /\ UNCHANGED <<free, locked, fund, moved, missed, up, buffer, shown, stale, deltas, wallet, drops>>

(* OKX is asked for an asset by the name of a symbol, which is none; HTX   *)
(* is not asked.                                                           *)
FetchFundingWallet ==
    /\ wallet = NoAnswer
    /\ \E asked \in AskedAssets :
         wallet' = IF exchange = "okx" /\ asked # "" THEN [status |-> "refused"]
                   ELSE [status |-> "OK", balances |-> IF exchange = "huobi" THEN NoFunds ELSE fund]
    /\ UNCHANGED <<free, locked, fund, moved, missed, up, buffer, shown, stale, deltas, answer, drops>>

FundsNext ==
    /\ \/ \E a \in Assets : \/ Lock(a) \/ Unlock(a) \/ Deposit(a) \/ ToFunding(a)
                            \/ TransferToMaster(a) \/ \E b \in Assets : Trade(a, b)
       \/ Drop \/ Connect \/ FetchAccountInformation \/ FetchFundingWallet
    /\ UNCHANGED exchange

FundsSpec == exchange \in Exchanges /\ FundsInit /\ [][FundsNext]_<<exchange, fundVars>>
-----------------------------------------------------------------------------
(* Properties *)

(* Every variable holds a value of its kind; only OKX's totals are kept.   *)
FundsTypeOK ==
    /\ free \in [Assets -> 0..MaxFunds] /\ locked \in [Assets -> 0..MaxFunds]
    /\ fund \in [Assets -> 0..MaxFunds] /\ moved \in [Assets -> -MaxFunds..MaxFunds]
    /\ missed \in [Assets -> Int] /\ deltas \in [Assets -> Int]
    /\ up \in BOOLEAN /\ drops \in 0..MaxDrops
    /\ buffer \in [Assets -> Nat \cup {NoBalance}]
    /\ \A a \in Assets : exchange = "okx" /\ up => buffer[a] # NoBalance
    /\ shown \in [Assets -> [free : Int, locked : Int]]
    /\ stale \subseteq Assets /\ answer.status \in {"none", "OK", "UNKNOWN"}

(* What a strategy was told of an asset is what the account has of it,     *)
(* unless it changed while the connection was lost: free and locked funds  *)
(* come from four different pairs of an exchange's own numbers.            *)
FundsCurrent ==
    \A a \in Assets \ stale : shown[a] # None => shown[a] = Funds(free[a], locked[a])

(* OKX: the balance updates of an asset add up to what was moved in and    *)
(* out of the account, whatever its orders did in between, without what    *)
(* was moved while the connection was lost.                                *)
AllMoved == exchange = "okx" => \A a \in Assets : deltas[a] = moved[a] - missed[a]

(* FetchAccountInformation answers, with the funds of every asset that the *)
(* account has.                                                            *)
AnswerTrue ==
    answer # NoAnswer => answer.status = "OK" /\ answer.balances = answer.really

(* OKX, ByBit, HTX: the funds that a strategy was told are the account's,  *)
(* and so are those that FetchAccountInformation answers on all exchanges  *)
(* but HTX.                                                                *)
FundsTrue ==
    /\ exchange # "bitfinex" => FundsCurrent
    /\ exchange # "huobi" => AnswerTrue

(* Does not hold on OKX, see README: FetchFundingWallet for one asset is   *)
(* refused.                                                                *)
FundingAnswered == wallet # NoAnswer => wallet.status = "OK"
=============================================================================
