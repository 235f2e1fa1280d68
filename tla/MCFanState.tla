----------------------------- MODULE MCFanState -----------------------------
(* Small instance of FanState: a speed that rounds up and one over the top;  *)
(* OEM words of both families, one with bits no request can produce.         *)
EXTENDS FanState

MCSpeeds == {49, 255}
MCVents == {VentNone, VentClose}
MCOemWords ==
    {Family40 + 64 * 17 + 32,         \* 10 percent, IN, in the other family
     Family60,                        \* POWER OFF
     Family60 + 64 * 2 + 15}          \* an unknown speed code and nibble
=============================================================================
