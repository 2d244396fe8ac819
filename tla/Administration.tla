----------------------------- MODULE Administration -----------------------------
(***************************************************************************)
(* What administrators do: the organisation and one announcement at the    *)
(* server, the page on which its targets are chosen, and the secrets that  *)
(* are issued from a page.                                                 *)
(*                                                                         *)
(* The three share no state: TargetPicker has a list of chips where        *)
(* PersonalContent resolves it, and its own publish.  A behaviour looks at *)
(* one of them, its desk.                                                  *)
(***************************************************************************)
EXTENDS PersonalContent, TargetPicker, IssuedSecrets

CONSTANT Desks     \* what a behaviour may look at

VARIABLE desk

adminVars == <<contentVars, pickerVars, secretVars, desk>>

AdminInit ==
  /\ desk \in Desks
  /\ ContentInit /\ PickerInit /\ SecretsInit
  /\ desk = "targets" \/ saved = {}
  /\ desk = "secrets" \/ kind = "token"

AtDesk(d) == desk = d /\ UNCHANGED desk

AdminNext ==
  \/ AtDesk("organisation") /\ ContentStep /\ UNCHANGED <<pickerVars, secretVars>>
  \/ AtDesk("targets") /\ PickerStep /\ UNCHANGED <<contentVars, secretVars>>
  \/ AtDesk("secrets") /\ SecretsStep /\ UNCHANGED <<contentVars, pickerVars>>

AdminSpec == AdminInit /\ [][AdminNext]_adminVars

=============================================================================
