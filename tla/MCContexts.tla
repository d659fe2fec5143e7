---------------------------- MODULE MCContexts ----------------------------
EXTENDS Contexts
BudgetDef == <<2, 1, 0>>
===========================================================================
