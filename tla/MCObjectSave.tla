---------------------------- MODULE MCObjectSave ----------------------------
EXTENDS ObjectSave
MCDepLists == {<< >>, <<"d1">>, <<"d1", "d2">>}
MCExpiries == {None, "e1"}
=============================================================================
