--------------------------- MODULE MCSetupWizard ---------------------------
(***************************************************************************)
(* Instances of SetupWizard for TLC: one network, which accepts one of two *)
(* passwords, and up to two forms, so that halves of two forms can meet.   *)
(***************************************************************************)
EXTENDS SetupWizard

CONSTANTS home, secret, empty, f1, f2

OneNetwork  == {home}
TwoPasswords == {secret, empty}
HomeWorks   == {<<home, secret>>}
OneForm     == {f1}
TwoForms    == {f1, f2}
=============================================================================
