----------------------------- MODULE MCInbound ------------------------------
EXTENDS Inbound
=============================================================================
