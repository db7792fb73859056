------------------------------ MODULE OrdersMC ------------------------------
(* Small instances of the modules about orders, on each exchange that they *)
(* are about.  They share nothing else, so a behaviour is one of one part, *)
(* and the others rest: the run checks the parts, not their product.       *)
EXTENDS OrderTracking, CancelConfirm, OrderReports

(* One order of the first strategy, which the connections of both hear of. *)
Placing == [o \in Orders |-> "s1"]
SameSymbol == [s \in Strategies |-> Orders]

(* CancelAllOrders and a cancellation of each order.                       *)
AllAndEach == [r \in Requests |-> CASE r = "r1" -> {"o1"} [] r = "r2" -> {"o2"} [] OTHER -> OpenOrders]

VARIABLE part

allVars == <<part, exchange, trackingVars, confirmVars, reportVars>>

(* The exchanges that a part is about.                                     *)
ExchangesOf(p) ==
    CASE p = "tracking" -> {"bitfinex", "huobi"}
      [] p = "cancellation" -> {"okx", "bybit"}
      [] OTHER -> Exchanges

Init ==
    /\ part \in {"tracking", "cancellation", "reports"}
    /\ exchange \in ExchangesOf(part)
    /\ TrackingInit /\ ConfirmInit /\ ReportsInit

TrackingPart ==
    part = "tracking" /\ TrackingNext /\ UNCHANGED <<part, confirmVars, reportVars>>
ConfirmPart ==
    part = "cancellation" /\ ConfirmNext /\ UNCHANGED <<part, trackingVars, reportVars>>
ReportsPart ==
    part = "reports" /\ ReportsNext /\ UNCHANGED <<part, trackingVars, confirmVars>>

Next == TrackingPart \/ ConfirmPart \/ ReportsPart

Spec == Init /\ [][Next]_allVars

(* Every variable holds a value of its kind, in each of the modules.       *)
OrdersTypeOK == TrackingTypeOK /\ ConfirmTypeOK /\ ReportsTypeOK

(* CANCELED is answered of cancelled orders only (on Bitfinex of closed    *)
(* ones): by CancelOrder of Bitfinex, HTX, OKX and ByBit and by            *)
(* CancelAllOrders of ByBit.  CancelAllOrders of the other three answers   *)
(* on acceptance, and is not in it.                                        *)
CancelAnswerTrue == CancelledIsClosed /\ AnswerIsTrue
=============================================================================
