---------------------------- MODULE MCSqlGrammar ----------------------------
EXTENDS SqlGrammar

AColumnAndANumber == {<<"column", "a">>, <<"number", "1">>}
=============================================================================
