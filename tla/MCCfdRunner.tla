------------------------------ MODULE MCCfdRunner ------------------------------
EXTENDS CfdRunner

MCStrategies == {"tokyo"}
MCInstrument == [tokyo |-> "usdjpy"]
MCInstruments == {"usdjpy", "gold"}
MCWindows == <<FALSE, TRUE>>

=============================================================================
