------------------------------ MODULE MCBackstage ------------------------------
EXTENDS Backstage
=============================================================================
