------------------------- MODULE MCAuthProvisioning -------------------------
(***************************************************************************)
(* Model checking of what the documentation says of the exclude list of an *)
(* authenticator: one login through two authenticators.                    *)
(***************************************************************************)
EXTENDS AuthProvisioning

Chosen == <<"baseldap", "externalldap">>
Chain == <<"inventory", "externalldap provisioner", "groups">>
=============================================================================
