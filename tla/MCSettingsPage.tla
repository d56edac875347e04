----------------------------- MODULE MCSettingsPage -----------------------------
(***************************************************************************)
(* Values for the constants of SettingsPage.                               *)
(***************************************************************************)
EXTENDS SettingsPage, TLC

CONSTANTS title, user, pass, system, tr069

\* One setting of the system, and two credentials that belong together.
Tabs == (title :> system) @@ (user :> tr069) @@ (pass :> tr069)
=============================================================================
