----------------------------- MODULE Data_proofs -----------------------------
(***************************************************************************)
(* What strategies are told of the funds of an account and of markets, on  *)
(* any of the four exchanges, for any assets, trades and calls.            *)
(***************************************************************************)
EXTENDS MarketChannels, AccountFunds, SequenceTheorems, TLAPS

-----------------------------------------------------------------------------
(* Funds *)

(* An asset's two parts are bounded together.                              *)
Whole == \A a \in Assets : free[a] + locked[a] <= MaxFunds

(* OKX: the total that is kept is the account's.                           *)
TotalsKept ==
    exchange = "okx" /\ up => \A a \in Assets : buffer[a] = free[a] + locked[a]

(* A currency that the stream does not pass is never told.                 *)
OthersUntold == \A a \in Assets \ Heard : shown[a] = None

FundsInv ==
    /\ exchange \in Exchanges /\ FundsTypeOK /\ Whole /\ TotalsKept /\ OthersUntold
    /\ AllMoved /\ FundsTrue

LEMMA Bounds ==
    ASSUME AccountFundsAssumption
    PROVE  MaxFunds \in Nat /\ MaxFunds >= 1 /\ MaxDrops \in Nat
<1>1. MaxFunds \in Nat \ {0} /\ MaxDrops \in Nat
  BY Zenon DEF AccountFundsAssumption
<1> QED BY <1>1

(* The numbers of each exchange but Bitfinex, and those of all in answers, *)
(* give free and locked funds back.                                        *)
LEMMA Conversions ==
    ASSUME exchange \in Exchanges, NEW f \in Nat, NEW l \in Nat
    PROVE  /\ on_funds_update(f, l) \in [free : Int, locked : Int]
           /\ exchange # "bitfinex" => on_funds_update(f, l) = Funds(f, l)
           /\ account_balances(f, l) = Funds(f, l)
<1>1. f + l - l = f /\ f + l - f = l
  OBVIOUS
<1>2. CASE exchange = "bitfinex"
  <2>1. on_funds_update(f, l) = BfxFunds(f, l) /\ account_balances(f, l) = Funds(f, f + l - f)
    BY <1>2 DEF on_funds_update, account_balances
  <2>2. BfxFunds(f, l) \in [free : Int, locked : Int]
    BY DEF BfxFunds, Funds
  <2> QED BY <1>1, <1>2, <2>1, <2>2
<1>3. CASE exchange = "huobi"
  BY <1>1, <1>3 DEF on_funds_update, account_balances, HtxFunds, Funds
<1>4. CASE exchange = "okx"
  BY <1>1, <1>4 DEF on_funds_update, account_balances, OkxFunds, Funds
<1>5. CASE exchange = "bybit"
  BY <1>1, <1>5 DEF on_funds_update, account_balances, BybitFunds, Funds
<1> QED BY <1>2, <1>3, <1>4, <1>5 DEF Exchanges

(* Every message about funds: the assets that changed are told, or become  *)
(* stale.                                                                  *)
LEMMA FundsTold ==
    ASSUME FundsInv, NEW changed \in SUBSET Assets, TellFunds(changed), UNCHANGED exchange,
           free' \in [Assets -> Nat], locked' \in [Assets -> Nat],
           \A a \in Assets \ changed : free'[a] = free[a] /\ locked'[a] = locked[a]
    PROVE  /\ shown' \in [Assets -> [free : Int, locked : Int]] /\ stale' \subseteq Assets
           /\ OthersUntold' /\ (exchange # "bitfinex" => FundsCurrent')
<1> USE DEF FundsInv, FundsTypeOK
<1>1. \A a \in Assets : /\ on_funds_update(free'[a], locked'[a]) \in [free : Int, locked : Int]
                        /\ exchange # "bitfinex"
                             => on_funds_update(free'[a], locked'[a]) = Funds(free'[a], locked'[a])
  BY Conversions
<1>2. Heard' = Heard
  BY DEF Heard
<1>3. CASE up
  <2>1. /\ \A a \in Assets : shown'[a] = IF a \in changed \cap Heard
                                         THEN on_funds_update(free'[a], locked'[a]) ELSE shown[a]
        /\ shown' \in [Assets -> [free : Int, locked : Int]] /\ stale' = stale \ changed
    BY <1>1, <1>3 DEF TellFunds
  <2>2. OthersUntold'
    BY <1>2, <2>1 DEF OthersUntold
  <2>3. ASSUME exchange # "bitfinex", NEW a \in Assets \ stale', shown'[a] # None
        PROVE  shown'[a] = Funds(free'[a], locked'[a])
    <3>1. CASE a \in changed
      <4>1. a \in Heard
        BY <2>1, <2>3, <3>1 DEF OthersUntold
      <4> QED BY <1>1, <2>1, <2>3, <3>1, <4>1
    <3>2. CASE a \notin changed
      BY <2>1, <2>3, <3>2 DEF FundsTrue, FundsCurrent
    <3> QED BY <3>1, <3>2
  <2> QED BY <2>1, <2>2, <2>3 DEF FundsCurrent
<1>4. CASE ~up
  <2>1. stale' = stale \cup changed /\ shown' = shown
    BY <1>4 DEF TellFunds
  <2> QED BY <1>2, <2>1 DEF OthersUntold, FundsTrue, FundsCurrent
<1> QED BY <1>3, <1>4

(* OKX: the message of a change of totals; only transfers are told.        *)
LEMMA BalancesUpdated ==
    ASSUME FundsInv, NEW changed \in SUBSET Assets, NEW eventType,
           on_balance_update(changed, eventType), UNCHANGED <<exchange, up>>,
           free' \in [Assets -> Nat], locked' \in [Assets -> Nat],
           \A a \in Assets \ changed : free'[a] = free[a] /\ locked'[a] = locked[a]
    PROVE  /\ buffer' \in [Assets -> Nat \cup {NoBalance}] /\ deltas' \in [Assets -> Int]
           /\ TotalsKept'
           /\ exchange = "okx" /\ up => \A a \in Assets :
                deltas'[a] = deltas[a] + IF a \in changed /\ eventType = "transferred"
                                         THEN (free'[a] + locked'[a]) - (free[a] + locked[a]) ELSE 0
           /\ ~(exchange = "okx" /\ up) => UNCHANGED <<buffer, deltas>>
<1> USE DEF FundsInv, FundsTypeOK, TotalsKept, NoBalance
<1>1. CASE exchange = "okx" /\ up
  <2>1. /\ buffer' = [a \in Assets |-> IF a \in changed THEN free'[a] + locked'[a] ELSE buffer[a]]
        /\ deltas' = [a \in Assets |->
              IF a \in changed /\ eventType = "transferred" /\ buffer[a] # NoBalance
              THEN deltas[a] + free'[a] + locked'[a] - buffer[a] ELSE deltas[a]]
    BY <1>1 DEF on_balance_update, Remember
  <2>2. \A a \in Assets : buffer[a] = free[a] + locked[a] /\ buffer[a] \in Nat
    BY <1>1
  <2> QED BY <1>1, <2>1, <2>2
<1>2. CASE ~(exchange = "okx" /\ up)
  BY <1>2 DEF on_balance_update
<1> QED BY <1>1, <1>2

(* A step that reads the answers and changes no asset but by its message.  *)
LEMMA AnswersRead ==
    ASSUME AnswerRead PROVE answer'.status \in {"none", "OK", "UNKNOWN"} /\ AnswerTrue'
BY DEF AnswerRead, NoAnswer, AnswerTrue

LEMMA LockStep ==
    ASSUME AccountFundsAssumption, FundsInv, NEW a \in Assets, Lock(a) \/ Unlock(a),
           UNCHANGED exchange
    PROVE  FundsInv'
<1>1. /\ free \in [Assets -> 0..MaxFunds] /\ locked \in [Assets -> 0..MaxFunds]
      /\ free[a] \in 0..MaxFunds /\ locked[a] \in 0..MaxFunds /\ free[a] + locked[a] <= MaxFunds
      /\ MaxFunds \in Nat
  BY Bounds DEF FundsInv, FundsTypeOK, Whole
<1>2. \E q \in {-1, 1} :
        /\ free' = [free EXCEPT ![a] = free[a] + q] /\ locked' = [locked EXCEPT ![a] = locked[a] - q]
        /\ free[a] + q >= 0 /\ locked[a] - q >= 0
  <2>1. CASE Lock(a)
    <3>1. free[a] - 1 = free[a] + -1 /\ locked[a] + 1 = locked[a] - -1
      BY <1>1
    <3>2. /\ free' = [free EXCEPT ![a] = free[a] + -1] /\ locked' = [locked EXCEPT ![a] = locked[a] - -1]
          /\ free[a] > 0
      BY <2>1, <3>1 DEF Lock
    <3> QED BY <1>1, <3>2
  <2>2. CASE Unlock(a)
    <3>1. /\ free' = [free EXCEPT ![a] = free[a] + 1] /\ locked' = [locked EXCEPT ![a] = locked[a] - 1]
          /\ locked[a] > 0
      BY <2>2 DEF Unlock
    <3> QED BY <1>1, <3>1
  <2> QED BY <2>1, <2>2
<1>3. /\ free' \in [Assets -> 0..MaxFunds] /\ locked' \in [Assets -> 0..MaxFunds]
      /\ \A b \in Assets : free'[b] + locked'[b] = free[b] + locked[b]
      /\ \A b \in Assets \ {a} : free'[b] = free[b] /\ locked'[b] = locked[b]
  BY <1>1, <1>2
<1>4. TellFunds({a}) /\ AnswerRead /\ UNCHANGED <<buffer, deltas, fund, moved, missed, up, drops>>
  BY DEF Lock, Unlock, Exchanged
<1> USE DEF FundsInv, FundsTypeOK
<1>5. free' \in [Assets -> Nat] /\ locked' \in [Assets -> Nat]
  BY <1>3, Bounds
<1>6. /\ shown' \in [Assets -> [free : Int, locked : Int]] /\ stale' \subseteq Assets
      /\ OthersUntold' /\ (exchange # "bitfinex" => FundsCurrent')
  BY <1>3, <1>5, <1>4, FundsTold
<1>7. Whole' /\ TotalsKept' /\ AllMoved'
  BY <1>3, <1>4 DEF Whole, TotalsKept, AllMoved
<1>8. FundsTypeOK'
  BY <1>3, <1>6, <1>4, AnswersRead
<1> QED BY <1>3, <1>4, <1>6, <1>7, <1>8, AnswersRead DEF FundsTrue

LEMMA TradeStep ==
    ASSUME AccountFundsAssumption, FundsInv, NEW a \in Assets, NEW b \in Assets, Trade(a, b),
           UNCHANGED exchange
    PROVE  FundsInv'
<1> USE DEF FundsInv, FundsTypeOK
<1>1. /\ free' \in [Assets -> 0..MaxFunds] /\ locked' \in [Assets -> 0..MaxFunds] /\ Whole'
      /\ \A c \in Assets \ {a, b} : free'[c] = free[c] /\ locked'[c] = locked[c]
      /\ TellFunds({a, b}) /\ on_balance_update({a, b}, "filled") /\ AnswerRead
      /\ UNCHANGED <<fund, moved, missed, up, drops>>
  BY Bounds DEF Trade, Whole, Exchanged
<1>2. free' \in [Assets -> Nat] /\ locked' \in [Assets -> Nat]
  BY <1>1, Bounds
<1>3. /\ shown' \in [Assets -> [free : Int, locked : Int]] /\ stale' \subseteq Assets
      /\ OthersUntold' /\ (exchange # "bitfinex" => FundsCurrent')
  BY <1>1, <1>2, FundsTold
<1>4. /\ buffer' \in [Assets -> Nat \cup {NoBalance}] /\ deltas' \in [Assets -> Int] /\ TotalsKept'
      /\ exchange = "okx" => \A c \in Assets : deltas'[c] = deltas[c]
  <2> DEFINE filled == {a, b}
  <2>1. /\ filled \in SUBSET Assets /\ on_balance_update(filled, "filled") /\ UNCHANGED <<exchange, up>>
        /\ \A c \in Assets \ filled : free'[c] = free[c] /\ locked'[c] = locked[c]
    BY <1>1
  <2>2. /\ buffer' \in [Assets -> Nat \cup {NoBalance}] /\ deltas' \in [Assets -> Int] /\ TotalsKept'
        /\ exchange = "okx" /\ up => \A c \in Assets :
             deltas'[c] = deltas[c] + IF c \in filled /\ "filled" = "transferred"
                                      THEN (free'[c] + locked'[c]) - (free[c] + locked[c]) ELSE 0
        /\ ~(exchange = "okx" /\ up) => UNCHANGED <<buffer, deltas>>
    <3> DEFINE event == "filled"
    <3>1. on_balance_update(filled, event)
      BY <2>1
    <3> HIDE DEF FundsInv, FundsTypeOK, filled, event
    <3>2. /\ buffer' \in [Assets -> Nat \cup {NoBalance}] /\ deltas' \in [Assets -> Int] /\ TotalsKept'
          /\ exchange = "okx" /\ up => \A c \in Assets :
               deltas'[c] = deltas[c] + IF c \in filled /\ event = "transferred"
                                        THEN (free'[c] + locked'[c]) - (free[c] + locked[c]) ELSE 0
          /\ ~(exchange = "okx" /\ up) => UNCHANGED <<buffer, deltas>>
      BY <1>2, <2>1, <3>1, BalancesUpdated
    <3> QED BY <3>2 DEF event
  <2>3. \A c \in Assets : deltas[c] \in Int
    OBVIOUS
  <2>4. exchange = "okx" /\ up => \A c \in Assets : deltas'[c] = deltas[c]
    <3> HIDE DEF filled
    <3> QED BY <2>2, <2>3
  <2> QED BY <2>2, <2>4
<1>5. AllMoved'
  BY <1>1, <1>4 DEF AllMoved
<1>6. \A c \in Assets : exchange = "okx" /\ up => buffer'[c] # NoBalance
  BY <1>1, <1>2, <1>4 DEF TotalsKept, NoBalance
<1>7. FundsTypeOK'
  BY <1>1, <1>3, <1>4, <1>6, AnswersRead
<1> QED BY <1>1, <1>3, <1>4, <1>5, <1>7, AnswersRead DEF FundsTrue

LEMMA MoveStep ==
    ASSUME AccountFundsAssumption, FundsInv, NEW a \in Assets, NEW q \in {-1, 1}, Move(a, q),
           fund' \in [Assets -> 0..MaxFunds], UNCHANGED exchange
    PROVE  FundsInv'
<1> USE DEF FundsInv, FundsTypeOK
<1>1. /\ free' \in [Assets -> 0..MaxFunds] /\ locked' \in [Assets -> 0..MaxFunds] /\ Whole'
      /\ moved' \in [Assets -> -MaxFunds..MaxFunds] /\ missed' \in [Assets -> Int]
      /\ free'[a] = free[a] + q /\ moved'[a] = moved[a] + q
      /\ missed'[a] = IF up THEN missed[a] ELSE missed[a] + q
      /\ \A c \in Assets \ {a} : /\ free'[c] = free[c] /\ moved'[c] = moved[c] /\ missed'[c] = missed[c]
      /\ TellFunds({a}) /\ on_balance_update({a}, "transferred") /\ AnswerRead
      /\ UNCHANGED <<locked, up, drops>>
  BY Bounds DEF Move, Whole
<1>2. free' \in [Assets -> Nat] /\ locked' \in [Assets -> Nat]
  BY <1>1, Bounds
<1>3. /\ shown' \in [Assets -> [free : Int, locked : Int]] /\ stale' \subseteq Assets
      /\ OthersUntold' /\ (exchange # "bitfinex" => FundsCurrent')
  BY <1>1, <1>2, FundsTold
<1>4. /\ buffer' \in [Assets -> Nat \cup {NoBalance}] /\ deltas' \in [Assets -> Int] /\ TotalsKept'
      /\ exchange = "okx" /\ up => \A c \in Assets :
           deltas'[c] = deltas[c] + IF c \in {a} /\ "transferred" = "transferred"
                                    THEN (free'[c] + locked'[c]) - (free[c] + locked[c]) ELSE 0
      /\ ~(exchange = "okx" /\ up) => UNCHANGED <<buffer, deltas>>
  <2>1. {a} \in SUBSET Assets
    OBVIOUS
  <2> QED BY <1>1, <1>2, <2>1, BalancesUpdated
<1>5. AllMoved'
  <2>1. ASSUME exchange = "okx", up, NEW c \in Assets PROVE deltas'[c] = moved'[c] - missed'[c]
    <3>1. /\ deltas[c] = moved[c] - missed[c] /\ moved[c] \in Int /\ missed[c] \in Int
          /\ free[c] \in Int /\ locked[c] \in Int
      BY <2>1 DEF AllMoved
    <3>2. CASE c = a
      <4>1. deltas'[c] = deltas[c] + ((free'[c] + locked'[c]) - (free[c] + locked[c]))
        BY <1>4, <2>1, <3>2
      <4> QED BY <1>1, <2>1, <3>1, <3>2, <4>1
    <3>3. CASE c # a
      <4>1. deltas'[c] = deltas[c] + 0
        BY <1>4, <2>1, <3>3
      <4> QED BY <1>1, <3>1, <3>3, <4>1
    <3> QED BY <3>2, <3>3
  <2>2. ASSUME exchange = "okx", ~up, NEW c \in Assets PROVE deltas'[c] = moved'[c] - missed'[c]
    <3>1. /\ deltas'[c] = moved[c] - missed[c] /\ moved[c] \in Int /\ missed[c] \in Int
      BY <1>4, <2>2 DEF AllMoved
    <3>2. CASE c = a
      BY <1>1, <2>2, <3>1, <3>2
    <3>3. CASE c # a
      BY <1>1, <3>1, <3>3
    <3> QED BY <3>2, <3>3
  <2> QED BY <2>1, <2>2 DEF AllMoved
<1>6. \A c \in Assets : exchange = "okx" /\ up => buffer'[c] # NoBalance
  BY <1>1, <1>2, <1>4 DEF TotalsKept, NoBalance
<1>7. FundsTypeOK'
  BY <1>1, <1>3, <1>4, <1>6, AnswersRead
<1> QED BY <1>1, <1>3, <1>4, <1>5, <1>7, AnswersRead DEF FundsTrue

LEMMA ConnectionStep ==
    ASSUME AccountFundsAssumption, FundsInv, Drop \/ Connect, UNCHANGED exchange
    PROVE  FundsInv'
<1> USE DEF FundsInv, FundsTypeOK
<1>1. Heard' = Heard
  BY DEF Heard
<1>2. CASE Drop
  <2>1. /\ up' = FALSE /\ drops' = drops + 1 /\ drops < MaxDrops
        /\ buffer' = [a \in Assets |-> NoBalance] /\ AnswerRead
        /\ UNCHANGED <<free, locked, fund, moved, missed, shown, stale, deltas>>
    BY <1>2 DEF Drop
  <2>2. FundsTypeOK'
    <3>0. drops' = drops + 1 /\ drops < MaxDrops /\ drops \in 0..MaxDrops /\ MaxDrops \in Nat
      BY <2>1, Bounds
    <3>1. drops' \in 0..MaxDrops
      BY <3>0
    <3>3. up' \in BOOLEAN
      BY <2>1
    <3>2. buffer' \in [Assets -> Nat \cup {NoBalance}]
      BY <2>1
    <3> QED BY <2>1, <3>1, <3>2, <3>3, AnswersRead
  <2> QED BY <1>1, <2>1, <2>2, AnswersRead
          DEF Whole, TotalsKept, OthersUntold, AllMoved, FundsTrue, FundsCurrent
<1>3. CASE Connect
  <2> DEFINE all == IF exchange \in {"bitfinex", "okx"} THEN Assets ELSE {}
  <2>1. /\ up' = TRUE /\ AnswerRead
        /\ shown' = [a \in Assets |-> IF a \in all THEN on_funds_update(free[a], locked[a]) ELSE shown[a]]
        /\ stale' = stale \ all
        /\ buffer' = IF exchange = "okx" THEN [a \in Assets |-> free[a] + locked[a]] ELSE buffer
        /\ UNCHANGED <<free, locked, fund, moved, missed, deltas, drops>>
    BY <1>3 DEF Connect
  <2>2. \A a \in Assets : free[a] \in Nat /\ locked[a] \in Nat
    BY Bounds
  <2>3. \A a \in Assets : /\ on_funds_update(free[a], locked[a]) \in [free : Int, locked : Int]
                          /\ exchange # "bitfinex"
                               => on_funds_update(free[a], locked[a]) = Funds(free[a], locked[a])
    BY <2>2, Conversions
  <2>4. shown' \in [Assets -> [free : Int, locked : Int]]
    BY <2>1, <2>3
  <2>5. /\ buffer' \in [Assets -> Nat \cup {NoBalance}] /\ TotalsKept'
        /\ \A a \in Assets : exchange = "okx" => buffer'[a] # NoBalance
    <3>1. CASE exchange = "okx"
      BY <2>1, <2>2, <3>1 DEF TotalsKept, NoBalance
    <3>2. CASE exchange # "okx"
      BY <2>1, <3>2 DEF TotalsKept
    <3> QED BY <3>1, <3>2
  <2>6. OthersUntold'
    BY <1>1, <2>1 DEF OthersUntold, Heard
  <2>7. exchange # "bitfinex" => FundsCurrent'
    BY <2>1, <2>3 DEF FundsTrue, FundsCurrent
  <2>8. FundsTypeOK'
    BY <2>1, <2>4, <2>5, AnswersRead
  <2> QED BY <2>1, <2>5, <2>6, <2>7, <2>8, AnswersRead DEF Whole, AllMoved, FundsTrue
<1> QED BY <1>2, <1>3

LEMMA FetchStep ==
    ASSUME AccountFundsAssumption, FundsInv, FetchAccountInformation \/ FetchFundingWallet,
           UNCHANGED exchange
    PROVE  FundsInv'
<1> USE DEF FundsInv
<1>1. UNCHANGED <<free, locked, fund, moved, missed, up, buffer, shown, stale, deltas, drops>>
  BY DEF FetchAccountInformation, FetchFundingWallet
<1>2. /\ answer'.status \in {"none", "OK", "UNKNOWN"}
      /\ exchange # "huobi" => AnswerTrue'
  <2>1. CASE FetchAccountInformation
    <3>1. \A a \in Some : account_balances(free[a], locked[a]) = Funds(free[a], locked[a])
      BY Conversions, Bounds DEF Some, FundsTypeOK
    <3>2. [a \in Some |-> account_balances(free[a], locked[a])] = [a \in Some |-> Funds(free[a], locked[a])]
      BY <3>1
    <3>3. CASE exchange = "huobi" /\ Some # {}
      BY <2>1, <3>3 DEF FetchAccountInformation
    <3>4. CASE ~(exchange = "huobi" /\ Some # {})
      BY <2>1, <3>2, <3>4 DEF FetchAccountInformation, AnswerTrue
    <3> QED BY <3>3, <3>4
  <2>2. CASE FetchFundingWallet
    BY <2>2 DEF FetchFundingWallet, FundsTypeOK, FundsTrue, AnswerTrue
  <2> QED BY <2>1, <2>2
<1>3. FundsTypeOK'
  BY <1>1, <1>2 DEF FundsTypeOK
<1> QED BY <1>1, <1>2, <1>3
        DEF Whole, TotalsKept, OthersUntold, Heard, AllMoved, FundsTrue, FundsCurrent

LEMMA FundsStep ==
    ASSUME AccountFundsAssumption, FundsInv, [FundsNext]_<<exchange, fundVars>>
    PROVE  FundsInv'
<1>1. CASE UNCHANGED <<exchange, fundVars>>
  BY <1>1 DEF fundVars, FundsInv, FundsTypeOK, Whole, TotalsKept, OthersUntold, Heard, AllMoved,
              FundsTrue, FundsCurrent, AnswerTrue
<1>2. CASE FundsNext
  <2>1. UNCHANGED exchange
    BY <1>2 DEF FundsNext
  <2>2. ASSUME NEW a \in Assets, Deposit(a) \/ TransferToMaster(a) PROVE FundsInv'
    BY <2>1, <2>2, MoveStep DEF Deposit, TransferToMaster, FundsInv, FundsTypeOK
  <2>3. ASSUME NEW a \in Assets, ToFunding(a) PROVE FundsInv'
    <3>1. fund' \in [Assets -> 0..MaxFunds] /\ Move(a, -1)
      BY <2>3, Bounds DEF ToFunding, FundsInv, FundsTypeOK
    <3> QED BY <2>1, <3>1, MoveStep
  <2> QED BY <1>2, <2>1, <2>2, <2>3, LockStep, TradeStep, ConnectionStep, FetchStep DEF FundsNext
<1> QED BY <1>1, <1>2

LEMMA InitFunds ==
    ASSUME AccountFundsAssumption, exchange \in Exchanges, FundsInit
    PROVE  FundsInv
<1> USE Bounds DEF FundsInit
<1>1. FundsTypeOK
  <2>1. 0 \in 0..MaxFunds /\ 0 \in -MaxFunds..MaxFunds /\ 0..1 \subseteq 0..MaxFunds /\ 0 \in 0..MaxDrops
    OBVIOUS
  <2>2. /\ free \in [Assets -> 0..MaxFunds] /\ locked \in [Assets -> 0..MaxFunds]
        /\ fund \in [Assets -> 0..MaxFunds] /\ moved \in [Assets -> -MaxFunds..MaxFunds]
        /\ missed \in [Assets -> Int] /\ deltas \in [Assets -> Int]
    BY <2>1
  <2>3. /\ buffer \in [Assets -> Nat \cup {NoBalance}]
        /\ \A a \in Assets : exchange = "okx" /\ up => buffer[a] # NoBalance
    <3>1. \A a \in Assets : free[a] \in Nat /\ free[a] # NoBalance
      BY DEF NoBalance
    <3>2. CASE exchange = "okx"
      BY <3>1, <3>2
    <3>3. CASE exchange # "okx"
      BY <3>3
    <3> QED BY <3>2, <3>3
  <2>4. shown \in [Assets -> [free : Int, locked : Int]]
    BY DEF None
  <2>5. answer.status = "none"
    BY DEF NoAnswer
  <2> QED BY <2>1, <2>2, <2>3, <2>4, <2>5 DEF FundsTypeOK
<1>2. Whole /\ TotalsKept /\ OthersUntold /\ AllMoved
  BY DEF Whole, TotalsKept, OthersUntold, Heard, AllMoved
<1>3. FundsTrue
  BY DEF FundsTrue, FundsCurrent, AnswerTrue
<1> QED BY <1>1, <1>2, <1>3 DEF FundsInv

(* The accounts of all exchanges keep the totals that the next transfer is *)
(* compared with.                                                          *)
THEOREM FundsInvariant ==
    ASSUME AccountFundsAssumption PROVE FundsSpec => []FundsInv
<1>1. exchange \in Exchanges /\ FundsInit => FundsInv
  BY InitFunds
<1>2. FundsInv /\ [FundsNext]_<<exchange, fundVars>> => FundsInv'
  BY FundsStep
<1> QED BY <1>1, <1>2, PTL DEF FundsSpec

(* Every variable of an account holds a value of its kind.                 *)
THEOREM FundsTypesKept ==
    ASSUME AccountFundsAssumption PROVE FundsSpec => []FundsTypeOK
BY FundsInvariant, PTL DEF FundsInv

(* What strategies were told of an asset, and what FetchAccountInformation *)
(* answers, is what the account has.                                       *)
THEOREM FundsAreTrue ==
    ASSUME AccountFundsAssumption PROVE FundsSpec => []FundsTrue
BY FundsInvariant, PTL DEF FundsInv

(* OKX: the balance updates of an asset add up to what was moved.          *)
THEOREM AllIsMoved ==
    ASSUME AccountFundsAssumption PROVE FundsSpec => []AllMoved
BY FundsInvariant, PTL DEF FundsInv

-----------------------------------------------------------------------------
(* Markets *)

AllChannels == UNION {Channels(c) : c \in Calls}
Streams == {StreamOf(ch) : ch \in AllChannels}
Stamps == 0..MaxStamp
Closes == {Close(n, i, l) : n \in Stamps, i \in IntervalNames, l \in Nat}
Events == [stream : Streams, stamp : Stamps]
          \cup [stream : Streams, stamp : Stamps, close : Closes, ends : Nat]
          \cup [stream : Streams, stamp : Stamps, empty : BOOLEAN]

MarketTypes ==
    /\ registered \in [Trades -> SUBSET AllChannels] /\ open \subseteq Calls
    /\ streams \subseteq [trade : Trades, channel : AllChannels, start : Nat, sent : Stamps,
                          candles_max_time : Stamps, price : Stamps]
    /\ queue \in [Calls -> Seq(Events)] /\ told \in [Calls -> Seq(Events)]
    /\ age \in [Trades -> 0..Timeout] /\ silent \in [Trades -> 0..Timeout]
    /\ starts \in [Trades -> Nat] /\ messages \in Nat

(* A stream's handlers are those of the open calls that asked for it.      *)
HandlersOfOpen ==
    /\ \A h \in handlers : h.call \in open
    /\ \A c \in Calls, k \in Streams :
         [stream |-> k, call |-> c] \in handlers
           <=> (c \in open /\ \E ch \in Channels(c) : k = StreamOf(ch))

(* Channels and connections are of what an open call of the trade asked.   *)
ChannelsAsked ==
    /\ \A t \in Trades : \A ch \in registered[t] :
         \E c \in open : c.trade = t /\ ch \in Channels(c)
    /\ \A s \in streams : \E c \in open : c.trade = s.trade /\ s.channel \in Channels(c)

(* One StartStream makes one connection for a channel, and nothing comes   *)
(* before it.                                                              *)
OneConnection ==
    /\ \A s \in streams : starts[s.trade] > 0
    /\ \A s1, s2 \in streams :
         s1.trade = s2.trade /\ s1.channel = s2.channel /\ starts[s1.trade] <= 1 => s1 = s2
    /\ \A c \in Calls : starts[c.trade] = 0 => queue[c] = <<>> /\ told[c] = <<>>

CandlesCounted == \A s \in streams : s.channel.type \in IntervalNames => s.sent = s.candles_max_time

(* Two events of a call, one before the other.                             *)
InTurn(c, e1, e2) ==
    IF c.kind = "book" THEN e1.stamp < e2.stamp ELSE e1.stream = e2.stream => e1.stamp <= e2.stamp

(* What a call was told, then what waits in its queue.                     *)
Ordered(c, t, q) ==
    /\ \A i, j \in DOMAIN t : i < j => InTurn(c, t[i], t[j])
    /\ \A i, j \in DOMAIN q : i < j => InTurn(c, q[i], q[j])
    /\ \A i \in DOMAIN t, j \in DOMAIN q : InTurn(c, t[i], q[j])

Said(t, q) == {t[i] : i \in DOMAIN t} \cup {q[i] : i \in DOMAIN q}

Sequenced(c) == c.kind # "ticker" /\ starts[c.trade] <= 1

MessagesOrdered == \A c \in Calls : Sequenced(c) => Ordered(c, told[c], queue[c])

(* The connection has sent nothing older.                                  *)
SentIsLast ==
    \A c \in Calls : Sequenced(c) => \A s \in streams, e \in Said(told[c], queue[c]) :
        s.trade = c.trade /\ e.stream = StreamOf(s.channel) => e.stamp <= s.sent

(* A call is told of the streams it asked for.                             *)
OwnStreams ==
    \A c \in Calls : \A e \in Said(told[c], queue[c]) : \E ch \in Channels(c) : e.stream = StreamOf(ch)

(* A ticker that is read refreshes the trade's time: the time is not older *)
(* than the channel's last message, unless that waits.                     *)
TickersHeard ==
    \A t \in Trades : exchange # "huobi" /\ Tickers(t) # {} /\ (\A c \in Tickers(t) : queue[c] = <<>>)
        => age[t] <= silent[t]

MarketInv ==
    /\ exchange \in Exchanges /\ MarketTypes /\ HandlersOfOpen /\ ChannelsAsked /\ OneConnection
    /\ CandlesCounted /\ MessagesOrdered /\ SentIsLast /\ OwnStreams /\ TickersHeard /\ CheckTrue

LEMMA MarketBounds ==
    ASSUME MarketChannelsAssumption, exchange \in Exchanges
    PROVE  /\ MaxStamp \in Nat /\ Timeout \in Nat /\ Timeout >= 1
           /\ \A c \in Calls : c.trade \in Trades /\ c.kind \in Kinds /\ c.intervals \subseteq IntervalNames
<1>1. MaxStamp \in Nat /\ Timeout \in Nat \ {0}
  BY Zenon DEF MarketChannelsAssumption
<1>2. \A c \in Calls : c.trade \in Trades /\ c.kind \in Kinds /\ c.intervals \subseteq IntervalNames
  BY Zenon DEF MarketChannelsAssumption, Calls
<1> QED BY <1>1, <1>2

LEMMA NotIntervals == "miniTicker" \notin IntervalNames /\ "depth5" \notin IntervalNames
BY DEF IntervalNames

(* A channel tells of what kind the call is.                               *)
LEMMA KindOfChannel ==
    ASSUME MarketChannelsAssumption, exchange \in Exchanges, NEW c \in Calls, NEW ch \in Channels(c)
    PROVE  /\ ch \in AllChannels
           /\ c.kind = "ticker" <=> ch.type = "miniTicker"
           /\ c.kind = "book" <=> ch.type = "depth5"
           /\ c.kind = "klines" <=> ch.type \in IntervalNames
<1>1. ch \in AllChannels
  BY DEF AllChannels
<1>2. PICK ty \in Types(c) : ch = [name |-> Native(c.symbol), type |-> ty]
  BY DEF Channels
<1>3. ch.type \in Types(c)
  BY <1>2
<1>4. c.kind \in Kinds /\ c.intervals \subseteq IntervalNames
  BY MarketBounds
<1> QED BY <1>1, <1>3, <1>4, NotIntervals DEF Types, Kinds

(* The name made when a call begins is the one made when a message comes,  *)
(* and no two channels have the same.                                      *)
LEMMA StreamsOfChannels ==
    ASSUME exchange \in Exchanges
    PROVE  /\ \A ch \in AllChannels : Key(ch) = StreamOf(ch) /\ StreamOf(ch) \in Streams
           /\ \A ch1, ch2 \in AllChannels : StreamOf(ch1) = StreamOf(ch2) => ch1 = ch2
<1> DEFINE form == CASE exchange \in {"bitfinex", "okx"} -> "pair"
                     [] exchange = "bybit" -> "upper" [] OTHER -> "lower"
<1>1. ASSUME NEW ch \in AllChannels
      PROVE  \E s, ty : /\ ch = [name |-> [symbol |-> s, form |-> form], type |-> ty]
                        /\ StreamOf(ch) = [name |-> [symbol |-> s, form |-> "lower"], type |-> ty]
  <2>1. PICK c \in Calls : ch \in Channels(c)
    BY DEF AllChannels
  <2>2. PICK ty \in Types(c) : ch = [name |-> Native(c.symbol), type |-> ty]
    BY <2>1 DEF Channels
  <2>3. Native(c.symbol) = [symbol |-> c.symbol, form |-> form]
    BY DEF Native
  <2>4. Lower(ch.name) = [symbol |-> c.symbol, form |-> "lower"]
    BY <2>2, <2>3 DEF Lower
  <2>5. StreamOf(ch) = [name |-> [symbol |-> c.symbol, form |-> "lower"], type |-> ty]
    BY <2>2, <2>4 DEF StreamOf
  <2> QED BY <2>2, <2>3, <2>5
<1>2. ASSUME NEW ch \in AllChannels PROVE Key(ch) = StreamOf(ch)
  <2>1. CASE exchange \in {"bitfinex", "okx", "bybit"}
    BY <2>1 DEF Key, StreamOf
  <2>2. CASE exchange = "huobi"
    <3>1. form = "lower"
      BY <2>2
    <3>2. StreamOf(ch) = ch
      <4> HIDE DEF form
      <4> QED BY <1>1, <3>1
    <3> QED BY <2>2, <3>2 DEF Key
  <2> QED BY <2>1, <2>2 DEF Exchanges
<1>3. ASSUME NEW ch1 \in AllChannels, NEW ch2 \in AllChannels, StreamOf(ch1) = StreamOf(ch2)
      PROVE  ch1 = ch2
  <2> HIDE DEF form
  <2>1. PICK s1, ty1 : /\ ch1 = [name |-> [symbol |-> s1, form |-> form], type |-> ty1]
                       /\ StreamOf(ch1) = [name |-> [symbol |-> s1, form |-> "lower"], type |-> ty1]
    BY <1>1
  <2>2. PICK s2, ty2 : /\ ch2 = [name |-> [symbol |-> s2, form |-> form], type |-> ty2]
                       /\ StreamOf(ch2) = [name |-> [symbol |-> s2, form |-> "lower"], type |-> ty2]
    BY <1>1
  <2>3. ty1 = ty2 /\ [symbol |-> s1, form |-> "lower"] = [symbol |-> s2, form |-> "lower"]
    <3> DEFINE r1 == [name |-> [symbol |-> s1, form |-> "lower"], type |-> ty1]
               r2 == [name |-> [symbol |-> s2, form |-> "lower"], type |-> ty2]
    <3>1. r1 = r2
      BY <1>3, <2>1, <2>2
    <3>2. r1.name = r2.name /\ r1.type = r2.type
      BY <3>1
    <3> QED BY <3>2
  <2>4. s1 = s2
    <3> DEFINE r1 == [symbol |-> s1, form |-> "lower"]
               r2 == [symbol |-> s2, form |-> "lower"]
    <3>1. r1.symbol = r2.symbol
      BY <2>3
    <3> QED BY <3>1
  <2> QED BY <2>1, <2>2, <2>3, <2>4
<1> QED BY <1>2, <1>3 DEF Streams

(* What a message, or its reader, does to the order of a call's events.    *)
LEMMA AppendOrdered ==
    ASSUME NEW S, NEW c, NEW t \in Seq(S), NEW q \in Seq(S), NEW e \in S
    PROVE  /\ Said(t, Append(q, e)) = Said(t, q) \cup {e}
           /\ Ordered(c, t, q) /\ (\A x \in Said(t, q) : InTurn(c, x, e)) => Ordered(c, t, Append(q, e))
<1>1. /\ DOMAIN Append(q, e) = DOMAIN q \cup {Len(q) + 1} /\ Append(q, e)[Len(q) + 1] = e
      /\ \A i \in DOMAIN q : Append(q, e)[i] = q[i]
      /\ \A i \in DOMAIN q : i < Len(q) + 1 /\ ~(Len(q) + 1 < i)
  OBVIOUS
<1> DEFINE n == Len(q) + 1
           r == Append(q, e)
<1>2. ~(n < n)
  OBVIOUS
<1> HIDE DEF n, r
<1>3. /\ DOMAIN r = DOMAIN q \cup {n} /\ r[n] = e /\ \A i \in DOMAIN q : r[i] = q[i] /\ ~(n < i)
  BY <1>1 DEF n, r
<1>4. Said(t, r) = Said(t, q) \cup {e}
  BY <1>3 DEF Said
<1>5. ASSUME Ordered(c, t, q), \A x \in Said(t, q) : InTurn(c, x, e) PROVE Ordered(c, t, r)
  <2>1. /\ \A i \in DOMAIN t : InTurn(c, t[i], e)
        /\ \A i \in DOMAIN q : InTurn(c, q[i], e)
    BY <1>5 DEF Said
  <2>2. ASSUME NEW i \in DOMAIN r, NEW j \in DOMAIN r, i < j PROVE InTurn(c, r[i], r[j])
    BY <1>2, <1>3, <1>5, <2>1, <2>2 DEF Ordered
  <2>3. ASSUME NEW i \in DOMAIN t, NEW j \in DOMAIN r PROVE InTurn(c, t[i], r[j])
    BY <1>3, <1>5, <2>1 DEF Ordered
  <2> QED BY <1>5, <2>2, <2>3 DEF Ordered
<1> QED BY <1>4, <1>5 DEF r

LEMMA EventRead ==
    ASSUME NEW S, NEW c, NEW t \in Seq(S), NEW q \in Seq(S), q # <<>>
    PROVE  /\ Append(t, Head(q)) \in Seq(S) /\ Tail(q) \in Seq(S)
           /\ Said(Append(t, Head(q)), Tail(q)) \subseteq Said(t, q)
           /\ Ordered(c, t, q) => Ordered(c, Append(t, Head(q)), Tail(q))
<1> DEFINE m == Len(t) + 1
           u == Append(t, Head(q))
           r == Tail(q)
<1>1. u \in Seq(S) /\ r \in Seq(S) /\ Head(q) = q[1] /\ 1 \in DOMAIN q /\ q[1] \in S
  OBVIOUS
<1>2. /\ DOMAIN u = DOMAIN t \cup {m} /\ u[m] = q[1] /\ \A i \in DOMAIN t : u[i] = t[i] /\ ~(m < i)
      /\ ~(m < m)
  BY <1>1
<1>3. \A i \in DOMAIN r : /\ i + 1 \in DOMAIN q /\ r[i] = q[i + 1] /\ 1 < i + 1
                          /\ \A j \in DOMAIN r : i < j => i + 1 < j + 1
  OBVIOUS
<1> HIDE DEF m, u, r
<1>4. Said(u, r) \subseteq Said(t, q)
  BY <1>1, <1>2, <1>3 DEF Said
<1>5. ASSUME Ordered(c, t, q) PROVE Ordered(c, u, r)
  <2>1. ASSUME NEW i \in DOMAIN u, NEW j \in DOMAIN u, i < j PROVE InTurn(c, u[i], u[j])
    BY <1>1, <1>2, <1>5, <2>1 DEF Ordered
  <2>2. ASSUME NEW i \in DOMAIN r, NEW j \in DOMAIN r, i < j PROVE InTurn(c, r[i], r[j])
    BY <1>3, <1>5, <2>2 DEF Ordered
  <2>3. ASSUME NEW i \in DOMAIN u, NEW j \in DOMAIN r PROVE InTurn(c, u[i], r[j])
    BY <1>1, <1>2, <1>3, <1>5 DEF Ordered
  <2> QED BY <2>1, <2>2, <2>3 DEF Ordered
<1> QED BY <1>1, <1>4, <1>5 DEF u, r

LEMMA NewestRead ==
    ASSUME NEW S, NEW c, NEW t \in Seq(S), NEW q \in Seq(S), q # <<>>
    PROVE  /\ Append(t, Last(q)) \in Seq(S) /\ <<>> \in Seq(S)
           /\ Said(Append(t, Last(q)), <<>>) \subseteq Said(t, q) /\ Said(t, <<>>) \subseteq Said(t, q)
           /\ Ordered(c, t, q) => Ordered(c, Append(t, Last(q)), <<>>) /\ Ordered(c, t, <<>>)
<1> DEFINE m == Len(t) + 1
           n == Len(q)
           u == Append(t, Last(q))
<1>1. u \in Seq(S) /\ <<>> \in Seq(S) /\ Last(q) = q[n] /\ n \in DOMAIN q /\ q[n] \in S
  BY DEF Last
<1>2. /\ DOMAIN u = DOMAIN t \cup {m} /\ u[m] = q[n] /\ \A i \in DOMAIN t : u[i] = t[i] /\ ~(m < i)
      /\ ~(m < m)
  BY <1>1
<1>3. DOMAIN <<>> = {}
  OBVIOUS
<1> HIDE DEF m, n, u
<1>4. Said(u, <<>>) \subseteq Said(t, q) /\ Said(t, <<>>) \subseteq Said(t, q)
  BY <1>1, <1>2, <1>3 DEF Said
<1>5. ASSUME Ordered(c, t, q) PROVE Ordered(c, u, <<>>) /\ Ordered(c, t, <<>>)
  <2>1. ASSUME NEW i \in DOMAIN u, NEW j \in DOMAIN u, i < j PROVE InTurn(c, u[i], u[j])
    BY <1>1, <1>2, <1>5, <2>1 DEF Ordered
  <2> QED BY <1>3, <1>5, <2>1 DEF Ordered
<1> QED BY <1>1, <1>4, <1>5 DEF u

LEMMA ExchangeKept ==
    ASSUME UNCHANGED exchange
    PROVE  /\ Calls' = Calls /\ AllChannels' = AllChannels /\ Streams' = Streams /\ Events' = Events
           /\ \A c : Channels(c)' = Channels(c)
           /\ \A ch : Key(ch)' = Key(ch)
<1>1. Calls' = Calls
  BY DEF Calls
<1>2. \A s : Native(s)' = Native(s)
  BY DEF Native
<1>3. \A c : Channels(c)' = Channels(c)
  BY <1>2 DEF Channels
<1>4. AllChannels' = AllChannels
  BY <1>1, <1>3 DEF AllChannels
<1>5. Streams' = Streams
  BY <1>4 DEF Streams
<1>6. \A n, i, l : Close(n, i, l)' = Close(n, i, l)
  BY DEF Close, interval, interval2value
<1>7. Closes' = Closes
  BY <1>6 DEF Closes
<1>8. Events' = Events
  BY <1>5, <1>7 DEF Events
<1>9. \A ch : Key(ch)' = Key(ch)
  BY DEF Key
<1> QED BY <1>1, <1>3, <1>4, <1>5, <1>8, <1>9

(* A call begins: nothing was told before.                                 *)
LEMMA RegisterStep ==
    ASSUME MarketChannelsAssumption, MarketInv, NEW c \in Calls, UNCHANGED exchange,
           OnTickerUpdate(c) \/ OnOrderBookUpdate(c) \/ OnKlinesUpdate(c)
    PROVE  MarketInv'
<1> USE ExchangeKept DEF MarketInv
<1>1. /\ c \notin open /\ told[c] = <<>> /\ starts[c.trade] = 0 /\ open' = open \cup {c}
      /\ handlers' = handlers \cup {[stream |-> Key(ch), call |-> c] : ch \in Channels(c)}
      /\ registered' = [registered EXCEPT ![c.trade] = @ \cup Channels(c)]
      /\ UNCHANGED <<streams, queue, told, check, last, starts, messages>>
  BY DEF OnTickerUpdate, OnOrderBookUpdate, OnKlinesUpdate, register_event, counters
<1>2. c.trade \in Trades /\ Channels(c) \subseteq AllChannels /\ Timeout \in Nat
  BY MarketBounds DEF AllChannels
<1>3. /\ age' \in [Trades -> 0..Timeout] /\ silent' \in [Trades -> 0..Timeout]
      /\ \A t \in Trades : (age'[t] = age[t] /\ silent'[t] = silent[t]) \/ (age'[t] = 0 /\ silent'[t] = 0)
      /\ \A t \in Trades : (c.trade = t /\ c.kind = "ticker") => (age'[t] = 0 /\ silent'[t] = 0)
  <2>1. CASE OnTickerUpdate(c)
    <3>1. age' = [age EXCEPT ![c.trade] = 0] /\ silent' = [silent EXCEPT ![c.trade] = 0]
      BY <2>1 DEF OnTickerUpdate
    <3>2. 0 \in 0..Timeout
      BY <1>2
    <3> QED BY <1>2, <3>1, <3>2 DEF MarketTypes
  <2>2. CASE OnOrderBookUpdate(c) \/ OnKlinesUpdate(c)
    BY <2>2 DEF OnOrderBookUpdate, OnKlinesUpdate, clocks, MarketTypes
  <2> QED BY <2>1, <2>2
<1>4. MarketTypes'
  BY <1>1, <1>2, <1>3 DEF MarketTypes
<1>5. HandlersOfOpen'
  <2>1. ASSUME NEW d \in Calls, NEW k \in Streams
        PROVE  [stream |-> k, call |-> d] \in handlers'
                 <=> (d \in open' /\ \E ch \in Channels(d) : k = StreamOf(ch))
    <3>1. [stream |-> k, call |-> d] \in {[stream |-> Key(ch), call |-> c] : ch \in Channels(c)}
            <=> (d = c /\ \E ch \in Channels(c) : k = StreamOf(ch))
      <4>1. \A ch : [stream |-> k, call |-> d] = [stream |-> Key(ch), call |-> c] <=> (k = Key(ch) /\ d = c)
        OBVIOUS
      <4>2. \A ch \in Channels(c) : Key(ch) = StreamOf(ch)
        BY <1>2, StreamsOfChannels
      <4> QED BY <4>1, <4>2
    <3>2. [stream |-> k, call |-> d] \in handlers
            <=> (d \in open /\ \E ch \in Channels(d) : k = StreamOf(ch))
      BY DEF HandlersOfOpen
    <3> QED BY <1>1, <3>1, <3>2
  <2>2. \A d \in Calls, k \in Streams :
          [stream |-> k, call |-> d] \in handlers'
            <=> (d \in open' /\ \E ch \in Channels(d) : k = StreamOf(ch))
    BY <2>1
  <2>3. \A d : Channels(d)' = Channels(d)
    OBVIOUS
  <2>4. Calls' = Calls /\ Streams' = Streams
    OBVIOUS
  <2>5. \A h \in handlers' : h.call \in open'
    BY <1>1 DEF HandlersOfOpen
  <2> QED BY ONLY <2>2, <2>3, <2>4, <2>5 DEF HandlersOfOpen
<1>6. ChannelsAsked'
  <2>1. ASSUME NEW t \in Trades, NEW ch \in registered'[t]
        PROVE  \E d \in open' : d.trade = t /\ ch \in Channels(d)
    <3>1. ch \in registered[t] \/ (t = c.trade /\ ch \in Channels(c))
      BY <1>1, <1>2 DEF MarketTypes
    <3> QED BY <1>1, <3>1 DEF ChannelsAsked
  <2>2. ASSUME NEW s \in streams' PROVE \E d \in open' : d.trade = s.trade /\ s.channel \in Channels(d)
    BY <1>1 DEF ChannelsAsked
  <2> QED BY <2>1, <2>2 DEF ChannelsAsked
<1>7. OneConnection' /\ CandlesCounted'
  BY <1>1 DEF OneConnection, CandlesCounted
<1>8. MessagesOrdered' /\ SentIsLast' /\ OwnStreams'
  BY <1>1 DEF MessagesOrdered, SentIsLast, OwnStreams, Sequenced
<1>9. TickersHeard'
  <2>1. ASSUME NEW t \in Trades, exchange # "huobi", Tickers(t)' # {}, \A d \in Tickers(t)' : queue'[d] = <<>>
        PROVE  age'[t] <= silent'[t]
    <3>1. CASE c.trade = t /\ c.kind = "ticker"
      BY <1>3, <3>1
    <3>2. CASE ~(c.trade = t /\ c.kind = "ticker")
      <4>1. Tickers(t)' = Tickers(t)
        BY <1>1, <3>2 DEF Tickers
      <4>2. age[t] <= silent[t]
        BY <1>1, <2>1, <4>1 DEF TickersHeard
      <4> QED BY <1>3, <4>2
    <3> QED BY <3>1, <3>2
  <2> QED BY <2>1 DEF TickersHeard
<1>10. CheckTrue'
  BY <1>1 DEF CheckTrue
<1> QED BY <1>4, <1>5, <1>6, <1>7, <1>8, <1>9, <1>10

LEMMA StartStep ==
    ASSUME MarketChannelsAssumption, MarketInv, NEW t \in Trades, StartStream(t), UNCHANGED exchange
    PROVE  MarketInv'
<1> USE ExchangeKept DEF MarketInv
<1> DEFINE made == {[trade |-> t, channel |-> ch, start |-> starts[t], sent |-> 0, candles_max_time |-> 0,
                     price |-> 0] : ch \in registered[t]}
<1>1. /\ starts' = [starts EXCEPT ![t] = @ + 1] /\ streams' = streams \cup made
      /\ UNCHANGED <<handlers, registered, queue, told, open, age, silent, check, last, messages>>
  BY DEF StartStream, clocks
<1>2. \A s \in made : /\ s.trade = t /\ s.channel \in registered[t] /\ s.channel \in AllChannels
                      /\ s.sent = 0 /\ s.candles_max_time = 0 /\ s.start = starts[t]
                      /\ s.start \in Nat /\ s.price = 0
  BY DEF MarketTypes
<1>3. \A s1, s2 \in made : s1.channel = s2.channel => s1 = s2
  OBVIOUS
<1>4. made \subseteq [trade : Trades, channel : AllChannels, start : Nat, sent : Stamps,
                      candles_max_time : Stamps, price : Stamps]
  BY MarketBounds DEF MarketTypes, Stamps
<1> HIDE DEF made
<1>5. /\ starts' \in [Trades -> Nat] /\ starts[t] \in Nat /\ starts'[t] = starts[t] + 1
      /\ \A u \in Trades \ {t} : starts'[u] = starts[u]
      /\ \A u \in Trades : starts[u] \in Nat
  BY <1>1 DEF MarketTypes
<1>6. MarketTypes'
  BY <1>1, <1>4, <1>5 DEF MarketTypes, Stamps
<1>7. HandlersOfOpen' /\ TickersHeard' /\ CheckTrue'
  BY <1>1 DEF HandlersOfOpen, TickersHeard, CheckTrue, Tickers
<1>8. ChannelsAsked'
  BY <1>1, <1>2 DEF ChannelsAsked
<1>9. OneConnection'
  <2>1. \A s \in streams : s.trade \in Trades /\ starts[s.trade] > 0
    BY DEF OneConnection, MarketTypes
  <2>2. \A s \in streams' : starts'[s.trade] > 0
    BY <1>1, <1>2, <1>5, <2>1
  <2>3. ASSUME NEW s1 \in streams', NEW s2 \in streams', s1.trade = s2.trade, s1.channel = s2.channel,
               starts'[s1.trade] <= 1
        PROVE  s1 = s2
    <3>1. CASE s1.trade = t
      <4>1. starts[t] = 0
        BY <1>5, <2>3, <3>1
      <4>2. s1 \in made /\ s2 \in made
        <5>1. ~(0 > 0) /\ s2.trade = t
          BY <2>3, <3>1
        <5>2. s1 \notin streams /\ s2 \notin streams
          BY <2>1, <3>1, <4>1, <5>1
        <5> QED BY <1>1, <5>2
      <4> QED BY <1>3, <2>3, <4>2
    <3>2. CASE s1.trade # t
      <4>1. s1 \in streams /\ s2 \in streams
        BY <1>1, <1>2, <2>3, <3>2
      <4>2. starts[s1.trade] <= 1
        BY <1>5, <2>1, <2>3, <3>2, <4>1
      <4> QED BY <2>3, <4>1, <4>2 DEF OneConnection
    <3> QED BY <3>1, <3>2
  <2>4. ASSUME NEW c \in Calls, starts'[c.trade] = 0 PROVE queue'[c] = <<>> /\ told'[c] = <<>>
    <3>1. c.trade \in Trades
      BY MarketBounds
    <3>2. starts[c.trade] = 0
      BY <1>5, <2>4, <3>1
    <3> QED BY <1>1, <3>2 DEF OneConnection
  <2> QED BY <2>2, <2>3, <2>4 DEF OneConnection
<1>10. CandlesCounted'
  BY <1>1, <1>2 DEF CandlesCounted
<1>11. ASSUME NEW c \in Calls, Sequenced(c)' PROVE Sequenced(c)
  BY <1>5, <1>11, MarketBounds DEF Sequenced
<1>12. MessagesOrdered' /\ OwnStreams'
  BY <1>1, <1>11 DEF MessagesOrdered, OwnStreams
<1>13. SentIsLast'
  <2>1. ASSUME NEW c \in Calls, Sequenced(c)', NEW s \in streams', NEW e \in Said(told[c], queue[c]),
               s.trade = c.trade, e.stream = StreamOf(s.channel)
        PROVE  e.stamp <= s.sent
    <3>1. CASE s \in streams
      BY <1>11, <2>1, <3>1 DEF SentIsLast
    <3>2. CASE s \in made
      <4>1. c.trade = t /\ starts'[t] <= 1
        BY <1>2, <2>1, <3>2 DEF Sequenced
      <4>2. starts[c.trade] = 0
        BY <1>5, <4>1
      <4>3. told[c] = <<>> /\ queue[c] = <<>>
        BY <4>2 DEF OneConnection
      <4>4. Said(told[c], queue[c]) = {}
        BY <4>3 DEF Said
      <4> QED BY <2>1, <4>4
    <3> QED BY <1>1, <2>1, <3>1, <3>2
  <2> QED BY <1>1, <2>1 DEF SentIsLast
<1> QED BY <1>6, <1>7, <1>8, <1>9, <1>10, <1>12, <1>13

(* A message that is passed on reaches the calls that asked for it.        *)
LEMMA Fired ==
    ASSUME MarketChannelsAssumption, MarketInv, NEW s \in streams, NEW e \in Events,
           e.stream = StreamOf(s.channel), fire(e, s.trade)
    PROVE  /\ queue' \in [Calls -> Seq(Events)]
           /\ \A c \in Calls : c \in open /\ c.trade = s.trade /\ s.channel \in Channels(c)
                => queue'[c] = Append(queue[c], e)
           /\ \A c \in Calls : ~(c \in open /\ c.trade = s.trade /\ s.channel \in Channels(c))
                => queue'[c] = queue[c]
<1>1. s.channel \in AllChannels /\ StreamOf(s.channel) \in Streams
  BY StreamsOfChannels DEF MarketInv, MarketTypes
<1>2. ASSUME NEW c \in Calls
      PROVE  [stream |-> e.stream, call |-> c] \in handlers <=> (c \in open /\ s.channel \in Channels(c))
  <2>1. \A ch \in Channels(c) : StreamOf(ch) = StreamOf(s.channel) <=> ch = s.channel
    BY <1>1, StreamsOfChannels DEF MarketInv, AllChannels
  <2>2. (\E ch \in Channels(c) : e.stream = StreamOf(ch)) <=> s.channel \in Channels(c)
    BY <2>1
  <2> QED BY <1>1, <2>2 DEF MarketInv, HandlersOfOpen
<1>3. queue' = [c \in Calls |-> IF [stream |-> e.stream, call |-> c] \in handlers /\ c.trade = s.trade
                                THEN Append(queue[c], e) ELSE queue[c]]
  BY DEF fire
<1>4. \A c \in Calls : queue[c] \in Seq(Events) /\ Append(queue[c], e) \in Seq(Events)
  BY DEF MarketInv, MarketTypes
<1> QED BY <1>2, <1>3, <1>4

(* The connection goes on; no older book, and no older candle, is passed.  *)
Follows(s, e, after) ==
    /\ after.trade = s.trade /\ after.channel = s.channel
    /\ s.channel.type = "miniTicker" => after.sent = s.sent
    /\ s.channel.type # "miniTicker" =>
         after.sent = e.stamp /\ IF s.channel.type = "depth5" THEN s.sent < e.stamp ELSE s.sent <= e.stamp
    /\ s.channel.type \in IntervalNames => after.sent = after.candles_max_time

LEMMA MessageOrder ==
    ASSUME MarketChannelsAssumption, MarketInv, NEW s \in streams, NEW e \in Events,
           NEW after \in [trade : Trades, channel : AllChannels, start : Nat, sent : Stamps,
                          candles_max_time : Stamps, price : Stamps],
           e.stream = StreamOf(s.channel), fire(e, s.trade), Follows(s, e, after), Becomes(s, after),
           UNCHANGED <<exchange, handlers, registered, told, open, starts>>
    PROVE  /\ HandlersOfOpen' /\ ChannelsAsked' /\ OneConnection' /\ CandlesCounted'
           /\ MessagesOrdered' /\ SentIsLast' /\ OwnStreams'
<1> USE ExchangeKept DEF MarketInv
<1>1. streams' = (streams \ {s}) \cup {after} /\ after.trade = s.trade /\ after.channel = s.channel
  BY DEF Becomes, Follows
<1>2. HandlersOfOpen'
  <2>1. \A d : Channels(d)' = Channels(d)
    OBVIOUS
  <2>2. Calls' = Calls /\ Streams' = Streams
    OBVIOUS
  <2> QED BY ONLY HandlersOfOpen, <2>1, <2>2, UNCHANGED <<handlers, open>> DEF HandlersOfOpen
<1>3. ChannelsAsked'
  <2>1. \A t \in Trades : \A ch \in registered'[t] : \E c \in open' : c.trade = t /\ ch \in Channels(c)
    BY DEF ChannelsAsked
  <2>2. \A s1 \in streams' : \E c \in open' : c.trade = s1.trade /\ s1.channel \in Channels(c)
    BY <1>1 DEF ChannelsAsked
  <2> QED BY <2>1, <2>2 DEF ChannelsAsked
<1>4. ASSUME NEW c \in Calls
      PROVE  /\ c.trade \in Trades
             /\ c \in open /\ c.trade = s.trade /\ s.channel \in Channels(c) =>
                  /\ Said(told'[c], queue'[c]) = Said(told[c], queue[c]) \cup {e}
                  /\ Ordered(c, told[c], queue[c]) /\ (\A x \in Said(told[c], queue[c]) : InTurn(c, x, e))
                       => Ordered(c, told'[c], queue'[c])
             /\ ~(c \in open /\ c.trade = s.trade /\ s.channel \in Channels(c)) => queue'[c] = queue[c]
  <2>1. told[c] \in Seq(Events) /\ queue[c] \in Seq(Events) /\ told'[c] = told[c]
    BY DEF MarketTypes
  <2>2. CASE c \in open /\ c.trade = s.trade /\ s.channel \in Channels(c)
    <3>1. queue'[c] = Append(queue[c], e)
      BY <2>2, Fired
    <3>2. /\ Said(told[c], Append(queue[c], e)) = Said(told[c], queue[c]) \cup {e}
          /\ Ordered(c, told[c], queue[c]) /\ (\A x \in Said(told[c], queue[c]) : InTurn(c, x, e))
               => Ordered(c, told[c], Append(queue[c], e))
      <4> HIDE DEF MarketInv
      <4> QED BY ONLY <2>1, e \in Events, AppendOrdered
    <3>3. c.trade \in Trades
      BY MarketBounds
    <3> QED BY <2>1, <2>2, <3>1, <3>2, <3>3
  <2>3. CASE ~(c \in open /\ c.trade = s.trade /\ s.channel \in Channels(c))
    BY <2>3, Fired, MarketBounds
  <2> QED BY <2>2, <2>3
<1>5. OneConnection' /\ CandlesCounted'
  <2>1. \A s1 \in streams' : starts'[s1.trade] > 0
    BY <1>1 DEF OneConnection
  <2>2. ASSUME NEW s1 \in streams', NEW s2 \in streams', s1.trade = s2.trade, s1.channel = s2.channel,
               starts'[s1.trade] <= 1
        PROVE  s1 = s2
    BY <1>1, <2>2 DEF OneConnection
  <2>3. ASSUME NEW c \in Calls, starts'[c.trade] = 0 PROVE queue'[c] = <<>> /\ told'[c] = <<>>
    <3>1. starts[s.trade] > 0 /\ starts[c.trade] = 0 /\ ~(0 > 0)
      BY <2>3 DEF OneConnection
    <3>2. c.trade # s.trade
      BY <3>1
    <3> QED BY <1>4, <3>1, <3>2 DEF OneConnection
  <2>4. CandlesCounted'
    BY <1>1 DEF CandlesCounted, Follows
  <2> QED BY <2>1, <2>2, <2>3, <2>4 DEF OneConnection
<1>6. OwnStreams'
  <2>1. ASSUME NEW c \in Calls, NEW x \in Said(told'[c], queue'[c])
        PROVE  \E ch \in Channels(c) : x.stream = StreamOf(ch)
    <3>1. x \in Said(told[c], queue[c]) \/ (x = e /\ s.channel \in Channels(c))
      BY <1>4
    <3> QED BY <3>1 DEF OwnStreams
  <2> QED BY <2>1 DEF OwnStreams
<1>7. \A x \in Events : x.stamp \in Nat
  BY MarketBounds DEF Events, Stamps
<1>8. \A c \in Calls : \A x \in Said(told[c], queue[c]) : x \in Events
  BY DEF MarketTypes, Said
<1>9. s.sent \in Int /\ after.sent \in Int /\ e.stamp \in Int
  BY <1>7, MarketBounds DEF MarketTypes, Stamps
<1>10. ASSUME NEW c \in Calls, Sequenced(c), NEW x \in Said(told[c], queue[c]), c.trade = s.trade,
              x.stream = StreamOf(s.channel)
       PROVE  x.stamp <= s.sent
  BY <1>10 DEF SentIsLast
<1>11. ASSUME NEW c \in Calls, Sequenced(c), c.trade = s.trade, s.channel \in Channels(c)
       PROVE  /\ s.channel.type # "miniTicker" /\ after.sent = e.stamp
              /\ c.kind = "book" => s.sent < e.stamp
              /\ s.sent <= e.stamp
  <2>1. /\ c.kind = "ticker" <=> s.channel.type = "miniTicker"
        /\ c.kind = "book" <=> s.channel.type = "depth5"
    BY <1>11, KindOfChannel
  <2> QED BY <1>9, <1>11, <2>1 DEF Sequenced, Follows
<1>12. MessagesOrdered'
  <2>1. ASSUME NEW c \in Calls, Sequenced(c) PROVE Ordered(c, told'[c], queue'[c])
    <3>1. Ordered(c, told[c], queue[c])
      BY <2>1 DEF MessagesOrdered
    <3>2. CASE c \in open /\ c.trade = s.trade /\ s.channel \in Channels(c)
      <4>1. ASSUME NEW x \in Said(told[c], queue[c]) PROVE InTurn(c, x, e)
        <5>1. x.stamp \in Int /\ e.stamp \in Int /\ s.sent \in Int
          BY <1>7, <1>8, <1>9
        <5>2. CASE c.kind = "book"
          <6>1. PICK ch \in Channels(c) : x.stream = StreamOf(ch)
            BY DEF OwnStreams
          <6>2. ch = s.channel
            BY <3>2, <5>2 DEF Channels, Types
          <6>3. x.stamp <= s.sent /\ s.sent < e.stamp
            BY <1>10, <1>11, <2>1, <3>2, <5>2, <6>1, <6>2
          <6> QED BY <5>1, <5>2, <6>3 DEF InTurn
        <5>3. CASE c.kind # "book"
          <6>1. ASSUME x.stream = e.stream PROVE x.stamp <= e.stamp
            <7>1. x.stamp <= s.sent /\ s.sent <= e.stamp
              BY <1>10, <1>11, <2>1, <3>2, <6>1
            <7> QED BY <5>1, <7>1
          <6> QED BY <5>3, <6>1 DEF InTurn
        <5> QED BY <5>2, <5>3
      <4> QED BY <1>4, <3>1, <3>2, <4>1
    <3>3. CASE ~(c \in open /\ c.trade = s.trade /\ s.channel \in Channels(c))
      BY <1>4, <3>1, <3>3
    <3> QED BY <3>2, <3>3
  <2>2. \A c \in Calls : Sequenced(c)' = Sequenced(c)
    BY DEF Sequenced
  <2> QED BY <2>1, <2>2 DEF MessagesOrdered
<1>13. SentIsLast'
  <2>1. ASSUME NEW c \in Calls, Sequenced(c), NEW s2 \in streams', NEW x \in Said(told'[c], queue'[c]),
               s2.trade = c.trade, x.stream = StreamOf(s2.channel)
        PROVE  x.stamp <= s2.sent
    <3>1. \/ x \in Said(told[c], queue[c])
          \/ x = e /\ c \in open /\ c.trade = s.trade /\ s.channel \in Channels(c)
      BY <1>4
    <3>2. s2.channel \in AllChannels /\ s.channel \in AllChannels
      BY <1>1 DEF MarketTypes
    <3>3. CASE x \in Said(told[c], queue[c])
      <4>1. CASE s2 = after
        <5>1. x.stamp <= s.sent
          BY <1>1, <1>10, <2>1, <3>3, <4>1
        <5>2. PICK ch \in Channels(c) : x.stream = StreamOf(ch)
          BY <3>3 DEF OwnStreams
        <5>3. s.channel \in Channels(c)
          BY <1>1, <2>1, <3>2, <4>1, <5>2, StreamsOfChannels DEF AllChannels
        <5>4. s.sent <= after.sent
          BY <1>1, <1>9, <1>11, <2>1, <4>1, <5>3
        <5>5. x.stamp \in Int
          BY <1>7, <1>8, <3>3
        <5> QED BY <1>9, <4>1, <5>1, <5>4, <5>5
      <4>2. CASE s2 # after
        BY <1>1, <2>1, <3>3, <4>2 DEF SentIsLast
      <4> QED BY <4>1, <4>2
    <3>4. CASE x = e /\ c \in open /\ c.trade = s.trade /\ s.channel \in Channels(c)
      <4>1. s2.channel = s.channel
        BY <2>1, <3>2, <3>4, StreamsOfChannels
      <4>2. s2 = after
        BY <1>1, <2>1, <3>4, <4>1 DEF OneConnection, Sequenced
      <4>3. after.sent = e.stamp
        BY <1>11, <2>1, <3>4
      <4> QED BY <1>9, <3>4, <4>2, <4>3
    <3> QED BY <3>1, <3>3, <3>4
  <2>2. \A c \in Calls : Sequenced(c)' = Sequenced(c)
    BY DEF Sequenced
  <2> QED BY <2>1, <2>2 DEF SentIsLast
<1> QED BY <1>2, <1>3, <1>5, <1>6, <1>12, <1>13

(* A message waits in the queue it was put into.                           *)
LEMMA MessageWaits ==
    ASSUME MarketChannelsAssumption, MarketInv, NEW s \in streams, NEW e \in Events,
           e.stream = StreamOf(s.channel), fire(e, s.trade), NEW c \in Calls, queue'[c] = <<>>
    PROVE  queue[c] = <<>> /\ ~(c \in open /\ c.trade = s.trade /\ s.channel \in Channels(c))
<1>1. queue[c] \in Seq(Events)
  BY DEF MarketInv, MarketTypes
<1>2. Append(queue[c], e) # <<>>
  BY <1>1
<1> QED BY <1>2, Fired

LEMMA TickerStep ==
    ASSUME MarketChannelsAssumption, MarketInv, NEW s \in streams, NEW price \in 1..MaxStamp,
           Ticker(s, price), UNCHANGED exchange
    PROVE  MarketInv'
<1> DEFINE e == [stream |-> StreamOf(s.channel), stamp |-> price]
           after == [s EXCEPT !.price = price]
<1> USE ExchangeKept DEF MarketInv
<1>1. /\ s \in [trade : Trades, channel : AllChannels, start : Nat, sent : Stamps,
                candles_max_time : Stamps, price : Stamps]
      /\ price \in Stamps
  BY MarketBounds DEF MarketTypes, Stamps
<1>2. /\ s.channel.type = "miniTicker" /\ messages' = messages + 1 /\ Becomes(s, after)
      /\ silent' = [silent EXCEPT ![s.trade] = 0]
      /\ UNCHANGED <<handlers, registered, told, open, check, starts, age>>
      /\ exchange # "huobi" \/ s.price # price => fire(e, s.trade)
      /\ ~(exchange # "huobi" \/ s.price # price) => UNCHANGED queue
  BY DEF Ticker, Message
<1>3. after \in [trade : Trades, channel : AllChannels, start : Nat, sent : Stamps,
                 candles_max_time : Stamps, price : Stamps]
  BY <1>1
<1>4. e \in Events /\ e.stream = StreamOf(s.channel)
  BY <1>1, StreamsOfChannels DEF Events
<1>5. Follows(s, e, after)
  BY <1>1, <1>2, NotIntervals DEF Follows
<1>6. /\ HandlersOfOpen' /\ ChannelsAsked' /\ OneConnection' /\ CandlesCounted'
      /\ MessagesOrdered' /\ SentIsLast' /\ OwnStreams'
  <2>1. CASE exchange # "huobi" \/ s.price # price
    <3> HIDE DEF e, after, MarketInv
    <3> QED BY <1>2, <1>3, <1>4, <1>5, <2>1, MessageOrder
  <2>2. CASE ~(exchange # "huobi" \/ s.price # price)
    <3>1. after = s
      BY <1>1, <2>2
    <3>2. UNCHANGED <<exchange, handlers, registered, streams, queue, told, open, starts>>
      BY <1>2, <2>2, <3>1 DEF Becomes
    <3>3. \A d : Channels(d)' = Channels(d)
      OBVIOUS
    <3>4. Calls' = Calls /\ Streams' = Streams
      OBVIOUS
    <3>5. HandlersOfOpen'
      BY ONLY HandlersOfOpen, <3>2, <3>3, <3>4 DEF HandlersOfOpen
    <3> QED BY <3>2, <3>5 DEF ChannelsAsked, OneConnection, CandlesCounted,
            MessagesOrdered, SentIsLast, OwnStreams, Sequenced
  <2> QED BY <2>1, <2>2
<1>7. MarketTypes'
  <2>1. queue' \in [Calls -> Seq(Events)]
    <3>1. CASE exchange # "huobi" \/ s.price # price
      <4> HIDE DEF e, MarketInv
      <4> QED BY <1>2, <1>4, <3>1, Fired
    <3>2. CASE ~(exchange # "huobi" \/ s.price # price)
      BY <1>2, <3>2 DEF MarketTypes
    <3> QED BY <3>1, <3>2
  <2>2. silent' \in [Trades -> 0..Timeout]
    <3>1. 0 \in 0..Timeout
      BY MarketBounds
    <3> QED BY <1>2, <3>1 DEF MarketTypes
  <2>3. /\ streams' = (streams \ {s}) \cup {after} /\ messages' \in Nat
        /\ UNCHANGED <<registered, told, open, starts, age>>
    BY <1>2 DEF Becomes, MarketTypes
  <2> HIDE DEF e, after
  <2> QED BY <1>3, <2>1, <2>2, <2>3 DEF MarketTypes, Stamps
<1>8. TickersHeard'
  <2>1. ASSUME NEW t \in Trades, exchange # "huobi", Tickers(t) # {}, \A c \in Tickers(t) : queue'[c] = <<>>
        PROVE  age'[t] <= silent'[t]
    <3>1. PICK c0 \in open : c0.trade = s.trade /\ s.channel \in Channels(c0)
      BY DEF ChannelsAsked
    <3>2. c0 \in Tickers(s.trade) /\ c0 \in Calls
      BY <1>2, <3>1, KindOfChannel DEF Tickers, MarketTypes
    <3>3. fire(e, s.trade)
      BY <1>2, <2>1
    <3>4. t # s.trade
      <4> HIDE DEF e, MarketInv
      <4> QED BY <1>4, <2>1, <3>1, <3>2, <3>3, MessageWaits
    <3>5. \A c \in Tickers(t) : queue[c] = <<>>
      <4>1. Tickers(t) \subseteq Calls
        BY DEF Tickers, MarketTypes
      <4> HIDE DEF e, MarketInv
      <4> QED BY <1>4, <2>1, <3>3, <4>1, MessageWaits
    <3>6. age[t] <= silent[t]
      BY <2>1, <3>5 DEF TickersHeard
    <3> QED BY <1>2, <3>4, <3>6 DEF MarketTypes
  <2>2. \A t : Tickers(t)' = Tickers(t)
    BY <1>2 DEF Tickers
  <2> QED BY <2>1, <2>2 DEF TickersHeard
<1>9. CheckTrue'
  BY <1>2 DEF CheckTrue
<1> QED BY <1>6, <1>7, <1>8, <1>9

(* Candles and books: they are no tickers, and the clocks go on.           *)
LEMMA OtherMessageStep ==
    ASSUME MarketChannelsAssumption, MarketInv, NEW s \in streams, NEW e \in Events,
           NEW after \in [trade : Trades, channel : AllChannels, start : Nat, sent : Stamps,
                          candles_max_time : Stamps, price : Stamps],
           e.stream = StreamOf(s.channel), fire(e, s.trade), Follows(s, e, after), Becomes(s, after),
           messages' = messages + 1,
           UNCHANGED <<exchange, handlers, registered, told, open, check, starts, age, silent>>
    PROVE  MarketInv'
<1> USE ExchangeKept
<1>1. /\ HandlersOfOpen' /\ ChannelsAsked' /\ OneConnection' /\ CandlesCounted'
      /\ MessagesOrdered' /\ SentIsLast' /\ OwnStreams'
  BY MessageOrder
<1>2. MarketTypes'
  <2>1. queue' \in [Calls -> Seq(Events)]
    BY Fired
  <2>2. /\ streams' = (streams \ {s}) \cup {after} /\ messages' \in Nat
        /\ UNCHANGED <<registered, told, open, starts, age, silent>>
    BY DEF Becomes, MarketInv, MarketTypes
  <2> QED BY <2>1, <2>2 DEF MarketInv, MarketTypes, Stamps
<1>3. TickersHeard'
  <2>1. ASSUME NEW t \in Trades, exchange # "huobi", Tickers(t) # {}, \A c \in Tickers(t) : queue'[c] = <<>>
        PROVE  age'[t] <= silent'[t]
    <3>1. Tickers(t) \subseteq Calls
      BY DEF Tickers, MarketInv, MarketTypes
    <3>2. \A c \in Tickers(t) : queue[c] = <<>>
      BY <2>1, <3>1, MessageWaits
    <3> QED BY <2>1, <3>2 DEF TickersHeard, MarketInv
  <2>2. \A t : Tickers(t)' = Tickers(t)
    BY DEF Tickers
  <2> QED BY <2>1, <2>2 DEF TickersHeard
<1>4. CheckTrue'
  BY DEF CheckTrue, MarketInv
<1> QED BY <1>1, <1>2, <1>3, <1>4 DEF MarketInv

(* A step of the counters only.                                            *)
LEMMA NothingChanges ==
    ASSUME MarketChannelsAssumption, MarketInv, messages' \in Nat,
           UNCHANGED <<exchange, handlers, registered, streams, queue, told, open, check, starts, age, silent>>
    PROVE  MarketInv'
<1>1. /\ MarketTypes' /\ ChannelsAsked' /\ OneConnection' /\ CandlesCounted'
      /\ MessagesOrdered' /\ SentIsLast' /\ OwnStreams' /\ TickersHeard' /\ CheckTrue'
  <2> USE ExchangeKept DEF MarketInv
  <2>1. MarketTypes'
    BY DEF MarketTypes, Stamps
  <2>2. ChannelsAsked' /\ OneConnection' /\ CandlesCounted'
    BY DEF ChannelsAsked, OneConnection, CandlesCounted
  <2>3. MessagesOrdered' /\ SentIsLast' /\ OwnStreams'
    BY DEF MessagesOrdered, SentIsLast, OwnStreams, Sequenced
  <2>4. TickersHeard' /\ CheckTrue'
    BY DEF TickersHeard, Tickers, CheckTrue
  <2> QED BY <2>1, <2>2, <2>3, <2>4
<1>2. HandlersOfOpen'
  <2>1. (\A d : Channels(d)' = Channels(d)) /\ Calls' = Calls /\ Streams' = Streams
    BY ExchangeKept
  <2>2. HandlersOfOpen
    BY DEF MarketInv
  <2> QED BY ONLY <2>1, <2>2, UNCHANGED <<handlers, open>> DEF HandlersOfOpen
<1> QED BY <1>1, <1>2 DEF MarketInv

(* A candle's length is a number.                                          *)
LEMMA LengthsNat == ASSUME NEW i PROVE Lengths(i) \subseteq Nat
<1>1. \A n \in 28..31 : n * Day \in Nat
  BY DEF Day, Hour
<1>2. \A x \in DOMAIN Length : Length[x] \in Nat
  BY DEF Length, IntervalNames, Hour, Day
<1> QED BY <1>1, <1>2 DEF Lengths

LEMMA CandleStep ==
    ASSUME MarketChannelsAssumption, MarketInv, NEW s \in streams, NEW start \in 1..MaxStamp,
           NEW length \in Lengths(s.channel.type), Candle(s, start, length), UNCHANGED exchange
    PROVE  MarketInv'
<1> DEFINE e == [stream |-> StreamOf(s.channel), stamp |-> start,
                 close |-> Close(start, s.channel.type, length), ends |-> start + length]
           after == [s EXCEPT !.sent = start, !.candles_max_time = start]
<1>1. /\ s \in [trade : Trades, channel : AllChannels, start : Nat, sent : Stamps,
                candles_max_time : Stamps, price : Stamps]
      /\ start \in Stamps /\ messages \in Nat
      /\ s.channel.type \in IntervalNames => s.sent = s.candles_max_time
  BY MarketBounds DEF MarketInv, MarketTypes, CandlesCounted, Stamps
<1>2. /\ s.channel.type \in IntervalNames /\ messages' = messages + 1
      /\ UNCHANGED <<handlers, registered, told, open, check, starts, age, silent>>
      /\ exchange = "bitfinex" \/ start >= s.sent
      /\ NotOlder(s, start) => Becomes(s, after) /\ fire(e, s.trade)
      /\ ~NotOlder(s, start) => UNCHANGED <<streams, queue>>
  BY DEF Candle, Message
<1>3. CASE NotOlder(s, start)
  <2>1. after \in [trade : Trades, channel : AllChannels, start : Nat, sent : Stamps,
                   candles_max_time : Stamps, price : Stamps]
    BY <1>1
  <2>2. e \in Events /\ e.stream = StreamOf(s.channel)
    <3>1. length \in Nat /\ start + length \in Nat
      BY LengthsNat
    <3> QED BY <1>1, <1>2, <3>1, StreamsOfChannels DEF Events, Closes, MarketInv
  <2>3. s.sent <= start
    BY <1>1, <1>2, <1>3, MarketBounds DEF NotOlder, Stamps, MarketInv
  <2>4. Follows(s, e, after)
    BY <1>1, <1>2, <2>3, NotIntervals DEF Follows
  <2> HIDE DEF e, after
  <2> QED BY <1>2, <1>3, <2>1, <2>2, <2>4, OtherMessageStep
<1>4. CASE ~NotOlder(s, start)
  BY <1>1, <1>2, <1>4, NothingChanges
<1> QED BY <1>3, <1>4

LEMMA BookStep ==
    ASSUME MarketChannelsAssumption, MarketInv, NEW s \in streams, NEW id \in 1..MaxStamp,
           NEW empty \in BOOLEAN, Book(s, id, empty), UNCHANGED exchange
    PROVE  MarketInv'
<1> DEFINE e == [stream |-> StreamOf(s.channel), stamp |-> id, empty |-> empty]
           after == [s EXCEPT !.sent = id]
<1>1. /\ s \in [trade : Trades, channel : AllChannels, start : Nat, sent : Stamps,
                candles_max_time : Stamps, price : Stamps]
      /\ id \in Stamps /\ s.sent \in Int
  BY MarketBounds DEF MarketInv, MarketTypes, Stamps
<1>2. /\ s.channel.type = "depth5" /\ messages' = messages + 1 /\ id > s.sent
      /\ UNCHANGED <<handlers, registered, told, open, check, starts, age, silent>>
      /\ Becomes(s, after) /\ fire(e, s.trade)
  BY DEF Book, Message
<1>3. after \in [trade : Trades, channel : AllChannels, start : Nat, sent : Stamps,
                 candles_max_time : Stamps, price : Stamps]
  BY <1>1
<1>4. e \in Events /\ e.stream = StreamOf(s.channel)
  BY <1>1, StreamsOfChannels DEF Events, MarketInv
<1>5. Follows(s, e, after)
  BY <1>1, <1>2, NotIntervals DEF Follows
<1> HIDE DEF e, after
<1> QED BY <1>2, <1>3, <1>4, <1>5, OtherMessageStep

(* What waits for a call is told in its order, or is dropped.              *)
LEMMA ReadStep ==
    ASSUME MarketChannelsAssumption, MarketInv, NEW c \in Calls, ReadTicker(c) \/ ReadKlines(c) \/ ReadBook(c),
           UNCHANGED exchange
    PROVE  MarketInv'
<1> USE ExchangeKept DEF MarketInv
<1>1. /\ c \in open /\ queue[c] # <<>>
      /\ UNCHANGED <<handlers, registered, streams, open, silent, check, last, starts, messages>>
  BY DEF ReadTicker, ReadKlines, ReadBook, Tell, Unread, counters
<1>2. told[c] \in Seq(Events) /\ queue[c] \in Seq(Events) /\ told \in [Calls -> Seq(Events)]
      /\ queue \in [Calls -> Seq(Events)]
  BY DEF MarketTypes
<1>3. \E t, q \in Seq(Events) :
        /\ told' = [told EXCEPT ![c] = t] /\ queue' = [queue EXCEPT ![c] = q]
        /\ Said(t, q) \subseteq Said(told[c], queue[c])
        /\ Ordered(c, told[c], queue[c]) => Ordered(c, t, q)
  <2>1. CASE ReadTicker(c) \/ ReadKlines(c)
    <3>1. /\ told' = [told EXCEPT ![c] = Append(told[c], Head(queue[c]))]
          /\ queue' = [queue EXCEPT ![c] = Tail(queue[c])]
      BY <2>1 DEF ReadTicker, ReadKlines, Tell
    <3>2. /\ Append(told[c], Head(queue[c])) \in Seq(Events) /\ Tail(queue[c]) \in Seq(Events)
          /\ Said(Append(told[c], Head(queue[c])), Tail(queue[c])) \subseteq Said(told[c], queue[c])
          /\ Ordered(c, told[c], queue[c]) => Ordered(c, Append(told[c], Head(queue[c])), Tail(queue[c]))
      BY ONLY <1>1, <1>2, EventRead
    <3> QED BY <3>1, <3>2
  <2>2. CASE ReadBook(c)
    <3>1. /\ queue' = [queue EXCEPT ![c] = <<>>]
          /\ told' = [told EXCEPT ![c] = told[c]] \/ told' = [told EXCEPT ![c] = Append(told[c], Last(queue[c]))]
      <4>1. told = [told EXCEPT ![c] = told[c]]
        BY <1>2
      <4> QED BY <2>2, <4>1 DEF ReadBook, DropOlder, Tell
    <3>2. /\ Append(told[c], Last(queue[c])) \in Seq(Events) /\ <<>> \in Seq(Events)
          /\ Said(Append(told[c], Last(queue[c])), <<>>) \subseteq Said(told[c], queue[c])
          /\ Said(told[c], <<>>) \subseteq Said(told[c], queue[c])
          /\ Ordered(c, told[c], queue[c]) => /\ Ordered(c, Append(told[c], Last(queue[c])), <<>>)
                                              /\ Ordered(c, told[c], <<>>)
      BY ONLY <1>1, <1>2, NewestRead
    <3>3. CASE told' = [told EXCEPT ![c] = told[c]]
      BY <1>2, <3>1, <3>2, <3>3
    <3>4. CASE told' = [told EXCEPT ![c] = Append(told[c], Last(queue[c]))]
      BY <3>1, <3>2, <3>4
    <3> QED BY <3>1, <3>3, <3>4
  <2> QED BY <2>1, <2>2
<1>4. /\ told' \in [Calls -> Seq(Events)] /\ queue' \in [Calls -> Seq(Events)]
      /\ \A d \in Calls : Said(told'[d], queue'[d]) \subseteq Said(told[d], queue[d])
      /\ \A d \in Calls : Ordered(d, told[d], queue[d]) => Ordered(d, told'[d], queue'[d])
      /\ \A d \in Calls \ {c} : told'[d] = told[d] /\ queue'[d] = queue[d]
  <2>1. PICK t \in Seq(Events), q \in Seq(Events) :
          /\ told' = [told EXCEPT ![c] = t] /\ queue' = [queue EXCEPT ![c] = q]
          /\ Said(t, q) \subseteq Said(told[c], queue[c])
          /\ Ordered(c, told[c], queue[c]) => Ordered(c, t, q)
    BY <1>3
  <2>2. /\ told' \in [Calls -> Seq(Events)] /\ queue' \in [Calls -> Seq(Events)]
        /\ told'[c] = t /\ queue'[c] = q
        /\ \A d \in Calls \ {c} : told'[d] = told[d] /\ queue'[d] = queue[d]
    BY <1>2, <2>1
  <2> QED BY <2>1, <2>2
<1>5. /\ age' \in [Trades -> 0..Timeout]
      /\ \A t \in Trades : age'[t] = age[t] \/ age'[t] = 0
      /\ c.kind = "ticker" => age'[c.trade] = 0
  <2>0. c.trade \in Trades /\ 0 \in 0..Timeout
    BY MarketBounds
  <2>1. CASE ReadTicker(c)
    <3>1. age' = [age EXCEPT ![c.trade] = 0]
      BY <2>1 DEF ReadTicker, Refreshed
    <3> QED BY <2>0, <3>1 DEF MarketTypes
  <2>2. CASE ReadKlines(c) \/ ReadBook(c)
    <3>1. age' = age /\ c.kind # "ticker"
      BY <2>2 DEF ReadKlines, ReadBook
    <3> QED BY <3>1 DEF MarketTypes
  <2> QED BY <2>1, <2>2
<1>6. MarketTypes'
  BY <1>1, <1>4, <1>5 DEF MarketTypes, Stamps
<1>7. HandlersOfOpen'
  <2>1. (\A d : Channels(d)' = Channels(d)) /\ Calls' = Calls /\ Streams' = Streams
    OBVIOUS
  <2> QED BY ONLY HandlersOfOpen, <1>1, <2>1 DEF HandlersOfOpen
<1>8. ChannelsAsked' /\ CandlesCounted' /\ CheckTrue'
  BY <1>1 DEF ChannelsAsked, CandlesCounted, CheckTrue
<1>9. OneConnection'
  <2>1. starts[c.trade] # 0
    BY <1>1 DEF OneConnection
  <2> QED BY <1>1, <1>4, <2>1 DEF OneConnection
<1>10. MessagesOrdered' /\ SentIsLast' /\ OwnStreams'
  BY <1>1, <1>4 DEF MessagesOrdered, SentIsLast, OwnStreams, Sequenced
<1>11. TickersHeard'
  <2>1. ASSUME NEW t \in Trades, exchange # "huobi", Tickers(t) # {}, \A d \in Tickers(t) : queue'[d] = <<>>
        PROVE  age'[t] <= silent[t]
    <3>1. silent[t] \in 0..Timeout /\ age[t] \in 0..Timeout /\ Timeout \in Nat
      BY MarketBounds DEF MarketTypes
    <3>2. CASE c \in Tickers(t)
      <4>1. age'[t] = 0
        BY <1>5, <3>2 DEF Tickers
      <4> QED BY <3>1, <4>1
    <3>3. CASE c \notin Tickers(t)
      <4>1. \A d \in Tickers(t) : queue[d] = <<>>
        BY <1>4, <2>1, <3>3 DEF Tickers, MarketTypes
      <4>2. age[t] <= silent[t]
        BY <2>1, <4>1 DEF TickersHeard
      <4> QED BY <1>5, <3>1, <4>2
    <3> QED BY <3>2, <3>3
  <2>2. \A t : Tickers(t)' = Tickers(t)
    BY <1>1 DEF Tickers
  <2> QED BY <1>1, <2>1, <2>2 DEF TickersHeard
<1> QED BY <1>6, <1>7, <1>8, <1>9, <1>10, <1>11

LEMMA TickStep ==
    ASSUME MarketChannelsAssumption, MarketInv, Tick, UNCHANGED exchange
    PROVE  MarketInv'
<1> USE ExchangeKept DEF MarketInv
<1>1. /\ age' = [t \in Trades |-> IF age[t] < Timeout THEN age[t] + 1 ELSE Timeout]
      /\ silent' = [t \in Trades |-> IF silent[t] < Timeout THEN silent[t] + 1 ELSE Timeout]
      /\ UNCHANGED <<handlers, registered, streams, queue, told, open, check, last, starts, messages>>
  BY DEF Tick, counters
<1>2. \A t \in Trades : age[t] \in 0..Timeout /\ silent[t] \in 0..Timeout /\ Timeout \in Nat
  BY MarketBounds DEF MarketTypes
<1>3. /\ age' \in [Trades -> 0..Timeout] /\ silent' \in [Trades -> 0..Timeout]
      /\ \A t \in Trades : age[t] <= silent[t] => age'[t] <= silent'[t]
  BY <1>1, <1>2
<1>4. MarketTypes'
  BY <1>1, <1>3 DEF MarketTypes, Stamps
<1>5. HandlersOfOpen'
  <2>1. (\A d : Channels(d)' = Channels(d)) /\ Calls' = Calls /\ Streams' = Streams
    OBVIOUS
  <2> QED BY ONLY HandlersOfOpen, <1>1, <2>1 DEF HandlersOfOpen
<1>6. ChannelsAsked' /\ CandlesCounted' /\ CheckTrue' /\ OneConnection'
  BY <1>1 DEF ChannelsAsked, CandlesCounted, CheckTrue, OneConnection
<1>7. MessagesOrdered' /\ SentIsLast' /\ OwnStreams'
  BY <1>1 DEF MessagesOrdered, SentIsLast, OwnStreams, Sequenced
<1>8. TickersHeard'
  BY <1>1, <1>3 DEF TickersHeard, Tickers
<1> QED BY <1>4, <1>5, <1>6, <1>7, <1>8

(* The time of a trade is as young as its ticker channel's, but for what   *)
(* waits: a check fails for one of the two.                                *)
LEMMA CheckStep ==
    ASSUME MarketChannelsAssumption, MarketInv, NEW t \in Trades, CheckStream(t), UNCHANGED exchange
    PROVE  MarketInv'
<1> USE ExchangeKept DEF MarketInv
<1>1. /\ Tickers(t) # {}
      /\ check' = [success |-> age[t] < Timeout, silent |-> silent[t],
                   unread |-> \E c \in Tickers(t) : Unread(c)]
      /\ UNCHANGED <<handlers, registered, streams, queue, told, open, age, silent, last, starts, messages>>
  BY DEF CheckStream, counters, clocks
<1>2. CheckTrue'
  <2>1. age[t] \in 0..Timeout /\ silent[t] \in 0..Timeout /\ Timeout \in Nat
    BY MarketBounds DEF MarketTypes
  <2>2. ASSUME exchange # "huobi", ~(age[t] < Timeout), ~(\E c \in Tickers(t) : Unread(c))
        PROVE  silent[t] = Timeout
    <3>1. \A c \in Tickers(t) : queue[c] = <<>>
      BY <2>2 DEF Unread, Tickers
    <3>2. age[t] <= silent[t]
      BY <1>1, <2>2, <3>1 DEF TickersHeard
    <3> QED BY <2>1, <2>2, <3>2
  <2>3. /\ check'.success = (age[t] < Timeout) /\ check'.silent = silent[t]
        /\ check'.unread = (\E c \in Tickers(t) : Unread(c))
    BY <1>1
  <2> QED BY <2>2, <2>3 DEF CheckTrue
<1>3. MarketTypes'
  BY <1>1 DEF MarketTypes, Stamps
<1>4. HandlersOfOpen'
  <2>1. (\A d : Channels(d)' = Channels(d)) /\ Calls' = Calls /\ Streams' = Streams
    OBVIOUS
  <2> QED BY ONLY HandlersOfOpen, <1>1, <2>1 DEF HandlersOfOpen
<1>5. ChannelsAsked' /\ CandlesCounted' /\ OneConnection'
  BY <1>1 DEF ChannelsAsked, CandlesCounted, OneConnection
<1>6. MessagesOrdered' /\ SentIsLast' /\ OwnStreams'
  BY <1>1 DEF MessagesOrdered, SentIsLast, OwnStreams, Sequenced
<1>7. TickersHeard'
  BY <1>1 DEF TickersHeard, Tickers
<1> QED BY <1>2, <1>3, <1>4, <1>5, <1>6, <1>7

LEMMA StopStep ==
    ASSUME MarketChannelsAssumption, MarketInv, NEW t \in Trades, StopStream(t), UNCHANGED exchange
    PROVE  MarketInv'
<1> USE ExchangeKept DEF MarketInv
<1>1. /\ starts[t] > 0 /\ streams' = {s \in streams : s.trade # t}
      /\ handlers' = {h \in handlers : h.call.trade # t}
      /\ registered' = [registered EXCEPT ![t] = {}] /\ open' = {c \in open : c.trade # t}
      /\ age' = [age EXCEPT ![t] = Timeout]
      /\ UNCHANGED <<queue, told, silent, check, last, starts, messages>>
  BY DEF StopStream, Unregistered, counters
<1>2. MarketTypes'
  <2>1. Timeout \in 0..Timeout
    BY MarketBounds
  <2> QED BY <1>1, <2>1 DEF MarketTypes, Stamps
<1>3. HandlersOfOpen'
  <2>1. (\A d : Channels(d)' = Channels(d)) /\ Calls' = Calls /\ Streams' = Streams
    OBVIOUS
  <2>2. ASSUME NEW d \in Calls, NEW k \in Streams
        PROVE  [stream |-> k, call |-> d] \in handlers'
                 <=> (d \in open' /\ \E ch \in Channels(d) : k = StreamOf(ch))
    <3>1. [stream |-> k, call |-> d].call.trade = d.trade
      OBVIOUS
    <3>2. [stream |-> k, call |-> d] \in handlers' <=> ([stream |-> k, call |-> d] \in handlers /\ d.trade # t)
      BY <1>1, <3>1
    <3> QED BY <1>1, <3>2 DEF HandlersOfOpen
  <2>3. \A d \in Calls, k \in Streams :
          [stream |-> k, call |-> d] \in handlers'
            <=> (d \in open' /\ \E ch \in Channels(d) : k = StreamOf(ch))
    BY <2>2
  <2>4. \A h \in handlers' : h.call \in open'
    BY <1>1 DEF HandlersOfOpen
  <2> QED BY ONLY <2>1, <2>3, <2>4 DEF HandlersOfOpen
<1>4. ChannelsAsked'
  <2>1. \A u \in Trades : \A ch \in registered'[u] : u # t /\ ch \in registered[u]
    BY <1>1 DEF MarketTypes
  <2>2. \A u \in Trades : \A ch \in registered'[u] : \E c \in open' : c.trade = u /\ ch \in Channels(c)
    BY <1>1, <2>1 DEF ChannelsAsked
  <2>3. \A s \in streams' : \E c \in open' : c.trade = s.trade /\ s.channel \in Channels(c)
    BY <1>1 DEF ChannelsAsked
  <2> QED BY <2>2, <2>3 DEF ChannelsAsked
<1>5. OneConnection' /\ CandlesCounted' /\ CheckTrue'
  BY <1>1 DEF CandlesCounted, OneConnection, CheckTrue
<1>6. MessagesOrdered' /\ SentIsLast' /\ OwnStreams'
  BY <1>1 DEF MessagesOrdered, SentIsLast, OwnStreams, Sequenced
<1>7. TickersHeard'
  <2>1. Tickers(t)' = {}
    BY <1>1 DEF Tickers
  <2>2. \A u \in Trades \ {t} : Tickers(u)' = Tickers(u) /\ age'[u] = age[u]
    BY <1>1 DEF Tickers, MarketTypes
  <2>3. ASSUME NEW u \in Trades, exchange # "huobi", Tickers(u)' # {}, \A d \in Tickers(u)' : queue[d] = <<>>
        PROVE  age'[u] <= silent[u]
    BY <2>1, <2>2, <2>3 DEF TickersHeard
  <2> QED BY <1>1, <2>3 DEF TickersHeard
<1> QED BY <1>2, <1>3, <1>4, <1>5, <1>6, <1>7

LEMMA InitMarket ==
    ASSUME MarketChannelsAssumption, exchange \in Exchanges, MarketInit
    PROVE  MarketInv
<1>1. MarketTypes
  <2>1. Timeout \in 0..Timeout /\ <<>> \in Seq(Events)
    BY MarketBounds
  <2> QED BY <2>1 DEF MarketInit, MarketTypes
<1>2. HandlersOfOpen /\ ChannelsAsked /\ OneConnection /\ CandlesCounted
  BY DEF MarketInit, HandlersOfOpen, ChannelsAsked, OneConnection, CandlesCounted
<1>3. \A c \in Calls : Said(told[c], queue[c]) = {} /\ Ordered(c, told[c], queue[c])
  <2>1. DOMAIN <<>> = {}
    OBVIOUS
  <2> QED BY <2>1 DEF MarketInit, Said, Ordered
<1>4. MessagesOrdered /\ SentIsLast /\ OwnStreams
  BY <1>3 DEF MessagesOrdered, SentIsLast, OwnStreams
<1>5. TickersHeard /\ CheckTrue
  BY DEF MarketInit, TickersHeard, Tickers, CheckTrue, NoCheck
<1> QED BY <1>1, <1>2, <1>4, <1>5 DEF MarketInv

LEMMA MarketStep ==
    ASSUME MarketChannelsAssumption, MarketInv, [MarketNext]_<<exchange, marketVars>>
    PROVE  MarketInv'
<1>1. CASE UNCHANGED <<exchange, marketVars>>
  <2>1. messages' \in Nat
    BY <1>1 DEF marketVars, MarketInv, MarketTypes
  <2> QED BY <1>1, <2>1, NothingChanges DEF marketVars
<1>2. CASE MarketNext
  <2>1. UNCHANGED exchange
    BY <1>2 DEF MarketNext
  <2>2. ASSUME NEW s \in streams, NEW stamp \in 1..MaxStamp,
               ws_listener(s, stamp)
        PROVE  MarketInv'
    BY <2>1, <2>2, TickerStep, CandleStep, BookStep DEF ws_listener
  <2> QED BY <1>2, <2>1, <2>2, RegisterStep, StartStep, ReadStep, TickStep, CheckStep, StopStep DEF MarketNext
<1> QED BY <1>1, <1>2

(* The handlers, queues and clocks of all trades.                          *)
THEOREM MarketInvariant ==
    ASSUME MarketChannelsAssumption PROVE MarketSpec => []MarketInv
<1>1. exchange \in Exchanges /\ MarketInit => MarketInv
  BY InitMarket
<1>2. MarketInv /\ [MarketNext]_<<exchange, marketVars>> => MarketInv'
  BY MarketStep
<1> QED BY <1>1, <1>2, PTL DEF MarketSpec

(* Every variable of a market holds a value of its kind.                   *)
THEOREM MarketTypesKept ==
    ASSUME MarketChannelsAssumption PROVE MarketSpec => []MarketTypeOK
<1>1. ASSUME MarketInv PROVE MarketTypeOK
  BY <1>1, MarketBounds DEF MarketInv, MarketTypes, HandlersOfOpen, MarketTypeOK, Stamps
<1> QED BY <1>1, MarketInvariant, PTL

(* CheckStream fails only for a silent channel or a message to be read.    *)
THEOREM ChecksAreTrue ==
    ASSUME MarketChannelsAssumption PROVE MarketSpec => []CheckTrue
BY MarketInvariant, PTL DEF MarketInv

(* Candles of an interval and books are told in the order of time, while   *)
(* their trade has one connection for each.                                *)
THEOREM MarketGoesForward ==
    ASSUME MarketChannelsAssumption PROVE MarketSpec => []MarketForward
<1>1. ASSUME MarketInv PROVE MarketForward
  <2>1. ASSUME NEW c \in Calls, c.kind # "ticker", starts[c.trade] <= 1,
               NEW i \in DOMAIN told[c], NEW j \in DOMAIN told[c], i < j
        PROVE  InTurn(c, told[c][i], told[c][j])
    BY <1>1, <2>1 DEF MarketInv, MessagesOrdered, Sequenced, Ordered
  <2> QED BY <2>1 DEF MarketForward, CandlesForward, BooksForward, InTurn
<1> QED BY <1>1, MarketInvariant, PTL

(* A message reaches the queues of the calls of its trade that asked for   *)
(* its channel, once each, and no other.                                   *)
LEMMA PassedOn ==
    ASSUME MarketChannelsAssumption, MarketInv, NEW s \in streams, NEW e \in Events,
           e.stream = StreamOf(s.channel), last'.passed => fire(e, s.trade),
           ~last'.passed => UNCHANGED queue, last'.trade = s.trade, last'.channel = s.channel
    PROVE  ReachesItsCalls
<1> SUFFICES ASSUME NEW c \in Calls
             PROVE  Len(queue'[c]) - Len(queue[c]) =
                      IF c \in open /\ last'.passed /\ last'.trade = c.trade /\ last'.channel \in Channels(c)
                      THEN 1 ELSE 0
  BY DEF ReachesItsCalls
<1>1. queue[c] \in Seq(Events)
  BY DEF MarketInv, MarketTypes
<1>2. Len(Append(queue[c], e)) - Len(queue[c]) = 1 /\ Len(queue[c]) - Len(queue[c]) = 0
  BY <1>1
<1>3. CASE c \in open /\ last'.passed /\ last'.trade = c.trade /\ last'.channel \in Channels(c)
  <2>1. queue'[c] = Append(queue[c], e)
    BY <1>3, Fired
  <2> QED BY <1>2, <1>3, <2>1
<1>4. CASE ~(c \in open /\ last'.passed /\ last'.trade = c.trade /\ last'.channel \in Channels(c))
  <2>1. queue'[c] = queue[c]
    BY <1>4, Fired
  <2> QED BY <1>2, <1>4, <2>1
<1> QED BY <1>3, <1>4

(* Every message of the exchange is passed to its calls.                   *)
THEOREM CallsHearOnce ==
    ASSUME MarketChannelsAssumption PROVE MarketSpec => EveryCallOnce
<1>1. ASSUME MarketInv, MarketNext, messages' > messages PROVE ReachesItsCalls
  <2>1. messages \in Nat /\ ~(messages > messages)
    BY <1>1 DEF MarketInv, MarketTypes
  <2>2. messages' # messages
    BY <1>1, <2>1
  <2>3. PICK s \in streams, stamp \in 1..MaxStamp :
          ws_listener(s, stamp)
    BY <1>1, <2>2 DEF MarketNext, OnTickerUpdate, OnOrderBookUpdate, OnKlinesUpdate, register_event,
       ReadTicker, ReadKlines, ReadBook, Tell, StartStream, CheckStream, StopStream, Tick, counters
  <2>4. /\ s \in [trade : Trades, channel : AllChannels, start : Nat, sent : Stamps,
                  candles_max_time : Stamps, price : Stamps]
        /\ stamp \in Stamps /\ StreamOf(s.channel) \in Streams
    BY <1>1, MarketBounds, StreamsOfChannels DEF MarketInv, MarketTypes, Stamps
  <2>5. CASE Ticker(s, stamp)
    <3> DEFINE e == [stream |-> StreamOf(s.channel), stamp |-> stamp]
    <3>1. e \in Events /\ e.stream = StreamOf(s.channel)
      BY <2>4 DEF Events
    <3>2. /\ last'.passed => fire(e, s.trade)
          /\ ~last'.passed => UNCHANGED queue
          /\ last'.trade = s.trade /\ last'.channel = s.channel
      BY <2>5 DEF Ticker, Message
    <3> HIDE DEF e
    <3> QED BY <1>1, <3>1, <3>2, PassedOn
  <2>6. ASSUME NEW length \in Lengths(s.channel.type), Candle(s, stamp, length) PROVE ReachesItsCalls
    <3> DEFINE e == [stream |-> StreamOf(s.channel), stamp |-> stamp,
                     close |-> Close(stamp, s.channel.type, length), ends |-> stamp + length]
    <3>1. e \in Events /\ e.stream = StreamOf(s.channel)
      <4>1. length \in Nat /\ stamp + length \in Nat
        BY LengthsNat
      <4> QED BY <2>4, <2>6, <4>1 DEF Events, Closes, Candle, Message
    <3>2. /\ last'.passed => fire(e, s.trade)
          /\ ~last'.passed => UNCHANGED queue
          /\ last'.trade = s.trade /\ last'.channel = s.channel
      BY <2>6 DEF Candle, Message
    <3> HIDE DEF e
    <3> QED BY <1>1, <3>1, <3>2, PassedOn
  <2>7. ASSUME NEW empty \in BOOLEAN, Book(s, stamp, empty) PROVE ReachesItsCalls
    <3> DEFINE e == [stream |-> StreamOf(s.channel), stamp |-> stamp, empty |-> empty]
    <3>1. e \in Events /\ e.stream = StreamOf(s.channel)
      BY <2>4 DEF Events
    <3>2. fire(e, s.trade) /\ last'.passed /\ last'.trade = s.trade /\ last'.channel = s.channel
      BY <2>7 DEF Book, Message
    <3> HIDE DEF e
    <3> QED BY <1>1, <3>1, <3>2, PassedOn
  <2> QED BY <2>3, <2>5, <2>6, <2>7 DEF ws_listener
<1>2. MarketInv /\ [MarketNext]_<<exchange, marketVars>> => [messages' > messages => ReachesItsCalls]_marketVars
  BY <1>1 DEF marketVars
<1> QED BY <1>2, MarketInvariant, PTL DEF MarketSpec, EveryCallOnce
=============================================================================
