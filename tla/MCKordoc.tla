------------------------------ MODULE MCKordoc ------------------------------
EXTENDS Kordoc
=============================================================================
