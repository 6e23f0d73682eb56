---------------------------- MODULE MCWebGateway ----------------------------
EXTENDS WebGateway
=============================================================================
