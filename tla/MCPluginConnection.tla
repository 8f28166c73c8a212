------------------------- MODULE MCPluginConnection -------------------------
EXTENDS PluginConnection, TLC

CONSTANTS client, jwk, oauth2, consent
=============================================================================
