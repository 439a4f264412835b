----------------------------- MODULE OAuthNames -----------------------------
(***************************************************************************)
(* The names of the protocol that several packages share: grant types,     *)
(* methods of client authentication, tokens of a response.                 *)
(***************************************************************************)

GrantTypes == {"authorization_code", "password", "client_credentials",
               "refresh_token", "device_code", "jwt_bearer", "saml2_bearer"}

ClientAuthMethods == {"client_secret_basic", "client_secret_post", "private_key_jwt"}

TokenKinds == {"access_token", "refresh_token", "id_token"}
=============================================================================
