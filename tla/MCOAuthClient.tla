--------------------------- MODULE MCOAuthClient ----------------------------
(* OAuthClient on a small instance: the constants come from the cfg files.  *)
EXTENDS OAuthClient
=============================================================================
