------------------------------ MODULE MCEngine ------------------------------
EXTENDS Engine
ShortTexts == {<<>>, <<"a">>, <<"a", "b">>}
FullText   == <<"a", "b">>
=============================================================================
