------------------------------ MODULE MCFarEnd ------------------------------
EXTENDS FarEndInvariant
RecalledLine == <<"a", "a">>
PastedText   == <<"a", "a">>
=============================================================================
