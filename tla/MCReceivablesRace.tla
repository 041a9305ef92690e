------------------------- MODULE MCReceivablesRace -------------------------
(* ReceivablesRace on a few charges and payments.                          *)
EXTENDS ReceivablesRace

MCChargeAmounts  == <<2, 3>>
MCPaymentAmounts == <<1, 3>>
MCOneAmount      == <<2>>
=============================================================================
