--------------------------- MODULE MCSettingsPanel ---------------------------
(* Values for the constants of SettingsPanel. *)
EXTENDS SettingsPanel

MCAll == PageEvents
MCClosePreview == {"close", "preview"}
=============================================================================
