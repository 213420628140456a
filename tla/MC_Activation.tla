---------------------------- MODULE MC_Activation ----------------------------
(* Three browsers and three token values: enough for two activations and  *)
(* a resend of the same account to overlap.                                *)
EXTENDS Activation
CONSTANTS b1, b2, b3, tk1, tk2, tk3
MC_Browsers == {b1, b2, b3}
MC_Tokens == {tk1, tk2, tk3}
=============================================================================
