--------------------------- MODULE MCSettingsPages ---------------------------
(* SettingsPages for TLC.                                                   *)
EXTENDS SettingsPages
=============================================================================
