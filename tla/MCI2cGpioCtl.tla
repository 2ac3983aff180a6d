---------------------------- MODULE MCI2cGpioCtl ----------------------------
(***************************************************************************)
(* Instances of I2cGpioCtl: every command, two of them in a row, while a    *)
(* card and the battery charger move: pins of both halves of one bank.      *)
(***************************************************************************)
EXTENDS I2cGpioCtl

MCPresent == {"Expander1", "Expander2", "Expander3", "Battery", "IotLow"}
=============================================================================
