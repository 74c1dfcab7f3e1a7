----------------------------- MODULE CtpConversions -----------------------------
(***************************************************************************)
(* The tables of gateway/ctp/ctp_utils.h between CTP's codes and the       *)
(* program's enumerations.  A code has the name that CTP gives it, without *)
(* its prefix: THOST_FTDC_OF_CloseToday is "CloseToday".  Most tables end  *)
(* in an else, so a code that is not listed becomes what the else says.    *)
(* A pure module: operators only.                                          *)
(***************************************************************************)

Directions == {"Buy", "Sell"}

\* The flags the program sends; CTP has more, of forced closes.
SentFlags == {"Open", "Close", "CloseToday", "CloseYesterday"}

SubmitStatuses ==
    {"InsertSubmitted", "CancelSubmitted", "ModifySubmitted", "Accepted",
     "InsertRejected", "CancelRejected", "ModifyRejected"}

OrderTypes == {"LIMIT", "MARKET", "FAK", "FOK"}

----------------------------------------------------------------------------
(* Side and offset.                                                         *)

ToCtpDirection(side) == IF side = "LONG" THEN "Buy" ELSE "Sell"

FromCtpDirection(direction) == IF direction = "Buy" THEN "LONG" ELSE "SHORT"

\* A slip: the program's own number of the offset sent for CTP's.
ToCtpCombOffsetByNumber(offset) ==
    CASE offset = "CLOSE"      -> "Close"
      [] offset = "OPEN"       -> "Open"
      [] offset = "CLOSETODAY" -> "ForceClose"
      [] OTHER                 -> "CloseToday"

ToCtpCombOffset(offset) ==
    CASE offset = "CLOSE"      -> "Close"
      [] offset = "OPEN"       -> "Open"
      [] offset = "CLOSETODAY" -> "CloseToday"
      [] OTHER                 -> "CloseYesterday"

\* A slip: CTP's two special closes taken for one.
FromCtpOffsetClosing(flag) ==
    CASE flag = "Close" -> "CLOSE"
      [] flag = "Open"  -> "OPEN"
      [] OTHER          -> "CLOSEYESTERDAY"

\* from_ctp_offset of a trade and from_ctp_comb_offset of an order.
FromCtpOffset(flag) ==
    CASE flag = "Close"      -> "CLOSE"
      [] flag = "Open"       -> "OPEN"
      [] flag = "CloseToday" -> "CLOSETODAY"
      [] OTHER               -> "CLOSEYESTERDAY"

----------------------------------------------------------------------------
(* The type of an order is a price type with a volume and a time condition. *)

ToCtpPriceType(type) ==
    [price  |-> IF type = "MARKET" THEN "AnyPrice" ELSE "LimitPrice",
     volume |-> IF type = "FOK" THEN "CV" ELSE "AV",
     time   |-> IF type = "LIMIT" THEN "GFD" ELSE "IOC"]

\* What no case assigns keeps the zero of the order it is stored in, LIMIT.
FromCtpPriceType(c) ==
    CASE c.price = "AnyPrice"                                          -> "MARKET"
      [] c.price = "LimitPrice" /\ c.time = "IOC" /\ c.volume = "AV"   -> "FAK"
      [] c.price = "LimitPrice" /\ c.time = "IOC" /\ c.volume # "AV"   -> "FOK"
      [] OTHER                                                         -> "LIMIT"

----------------------------------------------------------------------------
(* The status of an order.                                                  *)

\* What no case assigns keeps the zero of the order it is stored in, SUBMITTED.
WithoutOrderStatus(submit) ==
    CASE submit = "Accepted"       -> "PENDING"
      [] submit = "InsertRejected" -> "ERROR"
      [] OTHER                     -> "SUBMITTED"

\* A slip: an order that trades no more taken for one that does.
FromCtpOrderStatusQueueing(status, submit) ==
    CASE status = "AllTraded"       -> "FILLED"
      [] status \in {"PartTradedQueueing", "PartTradedNotQueueing"}
                                    -> "PARTIALFILLEDACTIVE"
      [] status = "NoTradeQueueing" -> "PENDING"
      [] status = "Canceled"        -> "CANCELLED"
      [] OTHER                      -> WithoutOrderStatus(submit)

FromCtpOrderStatus(status, submit) ==
    CASE status = "AllTraded"             -> "FILLED"
      [] status = "PartTradedQueueing"    -> "PARTIALFILLEDACTIVE"
      [] status = "PartTradedNotQueueing" -> "PARTIALFILLEDNOTACTIVE"
      [] status = "NoTradeQueueing"       -> "PENDING"
      [] status = "Canceled"              -> "CANCELLED"
      [] OTHER                            -> WithoutOrderStatus(submit)

\* from_ctp of a CThostFtdcInputOrderField, the answer to a refused insert.
FromCtpInputOrder == "ERROR"
=================================================================================
