------------------------------ MODULE MCHousehold ------------------------------
EXTENDS Household
=============================================================================
