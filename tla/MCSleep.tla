------------------------------- MODULE MCSleep -------------------------------
\* Sleep for TLC.
EXTENDS Sleep

MCModes == { LOW, FALLING }
=============================================================================
