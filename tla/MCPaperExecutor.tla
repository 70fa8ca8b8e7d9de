--------------------------- MODULE MCPaperExecutor ---------------------------
(* A long that arms intrabar and scales out at 1R and 2R with breakeven; a *)
(* short filled at candle close with a time stop; and a second long        *)
(* variant that takes half off at 2R and trails the rest by 2R.  The risk  *)
(* distance is one price step: two lots risk 4 of an account of 400, whose *)
(* daily limit is 8 and whose floor is 16 below the start.  In the second  *)
(* set the short is on another instrument.                                 *)
EXTENDS PaperExecutor

KeyA == [name |-> "a", inst |-> "XAU", dir |-> "LONG"]
KeyB == [name |-> "b", inst |-> "XAU", dir |-> "SHORT"]
KeyC == [name |-> "c", inst |-> "XAU", dir |-> "LONG"]
KeyD == [name |-> "b", inst |-> "EUR", dir |-> "SHORT"]

SignalA == [key |-> KeyA, dir |-> "LONG", mode |-> "INTRABAR", entry |-> 4, sl |-> 3,
            tps |-> <<[price |-> 6, frac |-> 1], [price |-> 5, frac |-> 1]>>,
            beAt |-> 1, beOffset |-> 0, trailDist |-> 0, trailR |-> 0,
            timeBars |-> 0, expiry |-> 2]
SignalB == [key |-> KeyB, dir |-> "SHORT", mode |-> "CANDLE_CLOSE", entry |-> 4, sl |-> 5,
            tps |-> <<[price |-> 2, frac |-> 2]>>,
            beAt |-> 0, beOffset |-> 0, trailDist |-> 0, trailR |-> 0,
            timeBars |-> 1, expiry |-> 1]
SignalC == [key |-> KeyC, dir |-> "LONG", mode |-> "INTRABAR", entry |-> 5, sl |-> 4,
            tps |-> <<[price |-> 7, frac |-> 1]>>,
            beAt |-> 0, beOffset |-> 0, trailDist |-> 0, trailR |-> 2,
            timeBars |-> 0, expiry |-> 1]

SignalD == [SignalB EXCEPT !.key = KeyD]

OneInstrument == {"XAU"}
OneKeys == {KeyA, KeyB, KeyC}
OneSignals == {SignalA, SignalB, SignalC}

TwoInstruments == {"XAU", "EUR"}
TwoKeys == {KeyA, KeyC, KeyD}
TwoSignals == {SignalA, SignalC, SignalD}

MCPrices == 2..7
=============================================================================
