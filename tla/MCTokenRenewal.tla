-------------------------- MODULE MCTokenRenewal --------------------------
\* The instance of TokenRenewal that TLC checks; the values are in the .cfg.
EXTENDS TokenRenewal
=============================================================================
