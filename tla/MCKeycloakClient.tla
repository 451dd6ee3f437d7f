--------------------------- MODULE MCKeycloakClient ---------------------------
(***************************************************************************)
(* An instance of KeycloakClient for TLC; see keycloak_client.cfg.         *)
(***************************************************************************)
EXTENDS KeycloakClient
=============================================================================
