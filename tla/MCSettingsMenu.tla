--------------------------- MODULE MCSettingsMenu ---------------------------
(* SettingsMenu with the three settings of the application. *)
EXTENDS SettingsMenu

MCSettings == {"allow_blind_sign", "pubkey_display", "display_mode"}
=============================================================================
