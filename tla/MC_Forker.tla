------------------------------- MODULE MC_Forker -------------------------------
EXTENDS Forker, TLC
================================================================================
