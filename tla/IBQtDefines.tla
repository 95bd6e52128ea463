------------------------------ MODULE IBQtDefines ------------------------------
(* The server versions from which a message has a field (ibdefines.h), by   *)
(* the names that the source gives them after MIN_SERVER_VER.               *)
EXTENDS Naturals

MinVer ==
  [ PTA_ORDERS |-> 39, UNDER_COMP |-> 40, CONTRACT_DATA_CHAIN |-> 40,
    SCALE_ORDERS2 |-> 40, ALGO_ORDERS |-> 41, NOT_HELD |-> 44,
    SEC_ID_TYPE |-> 45, PLACE_ORDER_CONID |-> 46, REQ_MKT_DATA_CONID |-> 47,
    REQ_CALC_IMPLIED_VOLAT |-> 49, REQ_CALC_OPTION_PRICE |-> 50,
    CANCEL_CALC_IMPLIED_VOLAT |-> 50, CANCEL_CALC_OPTION_PRICE |-> 50,
    SSHORTX_OLD |-> 51, SSHORTX |-> 52, HEDGE_ORDERS |-> 54,
    REQ_MARKET_DATA_TYPE |-> 55, OPT_OUT_SMART_ROUTING |-> 56,
    SMART_COMBO_ROUTING_PARAMS |-> 57, DELTA_NEUTRAL_CONID |-> 58,
    SCALE_ORDERS3 |-> 60, ORDER_COMBO_LEGS_PRICE |-> 61,
    TRAILING_PERCENT |-> 62, DELTA_NEUTRAL_OPEN_CLOSE |-> 66,
    POSITIONS |-> 67, TRADING_CLASS |-> 68, SCALE_TABLE |-> 69,
    LINKING |-> 70 ]
================================================================================
