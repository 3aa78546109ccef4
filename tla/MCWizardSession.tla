-------------------------- MODULE MCWizardSession --------------------------
(* The instance of WizardSession: two racing demo requests beside a diff.    *)
EXTENDS WizardSession

TwoDemos == {"demo1", "demo2"}
OneDiff == {"diff1"}
BuiltIn == {"core"}
WithUnknown == {"core", "no-such-profile"}
=============================================================================
