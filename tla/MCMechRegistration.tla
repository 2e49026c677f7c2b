------------------------ MODULE MCMechRegistration ------------------------
EXTENDS MechRegistration
===========================================================================
