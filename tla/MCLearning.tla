----------------------------- MODULE MCLearning -----------------------------
EXTENDS Evaluation
MCCost == [S \in SUBSET Providers |-> Cardinality(S)]
=============================================================================
