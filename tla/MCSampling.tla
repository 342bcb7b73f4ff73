------------------------------ MODULE MCSampling ------------------------------
EXTENDS Sampling
=============================================================================
