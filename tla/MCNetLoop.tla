----------------------------- MODULE MCNetLoop -----------------------------
EXTENDS NetLoop
=============================================================================
