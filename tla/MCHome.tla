------------------------------- MODULE MCHome -------------------------------
\* Home Assistant with model values for tokens and appliances.
EXTENDS Home
=============================================================================
