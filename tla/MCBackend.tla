----------------------------- MODULE MCBackend -----------------------------
(***************************************************************************)
(* Small instances of the two flows of the backend that end in a           *)
(* credential: the reviewed requests and the blind vouchers.  A behaviour  *)
(* is about one of them (`about'), the other stays as it starts.           *)
(***************************************************************************)
EXTENDS KYCWorkflow, VoucherFlow, TLC

CONSTANTS tab1, tab2, c1, c2

VARIABLE about

backendVars == <<kycVars, voucherVars, about>>

OwnIdentity == tab1 :> c1 @@ tab2 :> c2

KYCAsleep == /\ KYCInit /\ auto = NoPass("off") /\ scope = CHOOSE s \in Scopes : TRUE

VoucherAsleep == VoucherInit /\ ~lossy

BackendInit ==
    /\ about \in {"requests", "vouchers"}
    /\ IF about = "requests" THEN KYCInit ELSE KYCAsleep
    /\ IF about = "vouchers" THEN VoucherInit ELSE VoucherAsleep

BackendNext ==
    \/ about = "requests" /\ KYCNext /\ UNCHANGED <<voucherVars, about>>
    \/ about = "vouchers" /\ VoucherNext /\ UNCHANGED <<kycVars, about>>

BackendSpec ==
    /\ BackendInit /\ [][BackendNext]_backendVars
    /\ KYCFairness /\ VoucherFairness
=============================================================================
