-------------------------- MODULE MCCTraderExecutor --------------------------
(* A managed long that arms intrabar and scales out at 1R and 2R with      *)
(* breakeven and a time stop, or a simple short entered at candle close    *)
(* with its target on the broker.  The risk distance is one price step.    *)
EXTENDS CTraderExecutor

KeyA == [name |-> "a", inst |-> "XAU", dir |-> "LONG"]
KeyB == [name |-> "b", inst |-> "XAU", dir |-> "SHORT"]

SignalA == [key |-> KeyA, dir |-> "LONG", mode |-> "INTRABAR", entry |-> 2, sl |-> 1,
            tps |-> <<[price |-> 3, frac |-> 1], [price |-> 4, frac |-> 1]>>,
            beAt |-> 1, beOffset |-> 0, trailDist |-> 0, trailR |-> 0,
            timeBars |-> 1, expiry |-> 1]
SignalB == [key |-> KeyB, dir |-> "SHORT", mode |-> "CANDLE_CLOSE", entry |-> 3, sl |-> 4,
            tps |-> <<[price |-> 1, frac |-> 2]>>,
            beAt |-> 0, beOffset |-> 0, trailDist |-> 0, trailR |-> 0,
            timeBars |-> 0, expiry |-> 1]

MCInstruments == {"XAU"}
MCKeys == {KeyA, KeyB}
MCSignals == {SignalA, SignalB}
MCPrices == 1..4
=============================================================================
