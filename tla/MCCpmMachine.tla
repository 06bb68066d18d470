---------------------------- MODULE MCCpmMachine ----------------------------
EXTENDS CpmMachine

MCEofCount == 3
MCOptions == {<<>>, <<"h">>, <<"x", "p">>, <<"h", "x">>, <<"p", "x", "h">>, <<"q">>}
MCInputs == {<<>>, <<97, 10>>, <<10, 97, 97>>}
MCKeys == {CtrlC, 13, 97}
=============================================================================
