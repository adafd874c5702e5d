--------------------------- MODULE MCSpecialRequest ---------------------------
EXTENDS SpecialRequest
=============================================================================
