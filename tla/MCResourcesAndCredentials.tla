--------------------- MODULE MCResourcesAndCredentials ---------------------
(***************************************************************************)
(* The two components whose calls are sequences of steps over several      *)
(* stores, side by side in one run: the initial state says which of them   *)
(* runs.                                                                   *)
(*                                                                         *)
(*   resources     two resources that do not fit into the quota together:  *)
(*                 an image that expires and a file; calls are             *)
(*                 interchangeable                                         *)
(*   credentials   a is configured and b is being attached; fa refreshes   *)
(*                 the metadata of a, ra replaces its secret, ea edits it, *)
(*                 da deletes it, and xb attaches b                        *)
(***************************************************************************)
EXTENDS ResourceLifecycle, ProviderCredentials, TLC

CONSTANTS image, file
MediaResources == {image}
AllResources == {image, file}
Sizes == (image :> 2) @@ (file :> 3)

CONSTANTS a, b, fa, ra, ea, xb, da
Targets == [k \in {fa, ra, ea, xb, da} |-> IF k = xb THEN b ELSE a]

VARIABLE part

PartsInit == part \in {"resources", "credentials"} /\ Init /\ CredentialsInit

ResourceStep == part = "resources" /\ Next /\ UNCHANGED <<part, credentialVars>>
CredentialStep == part = "credentials" /\ CredentialsNext /\ UNCHANGED <<part, vars>>

PartsSpec == PartsInit /\ [][ResourceStep \/ CredentialStep]_<<part, vars, credentialVars>>

Symmetry == Permutations(Call)
=============================================================================
