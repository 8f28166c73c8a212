------------------------------ MODULE MCMigrate ------------------------------
EXTENDS Migrate, TLC

CONSTANTS client, oauth2, jwk, consent
=============================================================================
