----------------------------- MODULE BackOffice ------------------------------
(***************************************************************************)
(* The services around the engine and the wallet that share no document:   *)
(* payouts, target orders, the customer's account with his sub-agent       *)
(* requests, the creation of accounts, the rates customers are charged at, *)
(* the ids resellers know, and the offers a product is routed over.  Since *)
(* no step of one reads what another writes, every interleaving of all of  *)
(* them is, for each, one of its own; a behaviour here runs one of them,   *)
(* the scene.                                                              *)
(***************************************************************************)
EXTENDS Payouts, TargetOrders, Accounts, Registration, Rates, Resellers,
        Offers

VARIABLE scene

officeVars ==
    <<payoutVars, targetVars, accountVars, registrationVars, ratesVars, resellerVars, offersVars,
      scene>>

\* A step of one scene touches no document of another.
Others(s) ==
    /\ s # "payouts" => UNCHANGED payoutVars
    /\ s # "targets" => UNCHANGED targetVars
    /\ s # "accounts" => UNCHANGED accountVars
    /\ s # "registration" => UNCHANGED registrationVars
    /\ s # "rates" => UNCHANGED ratesVars
    /\ s # "resellers" => UNCHANGED resellerVars
    /\ s # "offers" => UNCHANGED offersVars

OfficeInit ==
    /\ scene \in {"payouts", "targets", "accounts", "registration", "rates", "resellers", "offers"}
    /\ PayoutInit /\ TargetInit /\ AccountInit /\ RegistrationInit /\ RatesInit /\ ResellersInit
    /\ OffersInit
    /\ scene # "accounts" => user.google
    /\ scene # "registration" => \A a \in Legacy : account[a].email = CHOOSE e \in Emails : TRUE
    /\ scene # "rates" => billed = [c \in Foreign |-> {}]
    /\ scene # "resellers" => \A g \in Goods : ~good[g].made
    /\ scene # "offers" => sold.mode = "LEGACY"

OfficeNext ==
    /\ UNCHANGED scene
    /\ Others(scene)
    /\ \/ scene = "payouts" /\ PayoutNext
       \/ scene = "targets" /\ TargetNext
       \/ scene = "accounts" /\ AccountNext
       \/ scene = "registration" /\ RegistrationNext
       \/ scene = "rates" /\ RatesNext
       \/ scene = "resellers" /\ ResellersNext
       \/ scene = "offers" /\ OffersNext

OfficeSpec == OfficeInit /\ [][OfficeNext]_officeVars

-----------------------------------------------------------------------------

\* The type invariants of the scenes.
OfficeTypeOK ==
    PayoutTypeOK /\ TargetTypeOK /\ AccountTypeOK /\ RegistrationTypeOK /\ RatesTypeOK
    /\ ResellersTypeOK /\ OffersTypeOK
=============================================================================
