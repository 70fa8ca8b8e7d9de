------------------------------ MODULE MCMainPaper ------------------------------
(* A day of few candles: an hour is one of them, so that every limit falls *)
(* into the day.                                                           *)
EXTENDS MainPaper

MCTokens == {"NIFTY", "RELIANCE", "BHARTI"}
MCRsis == {"low", "mid", "high"}
MCVolatile == {"NORMAL", "LOW"}
MCStructured == {"TRENDING", "TRANSITIONING", "RANGING"}
=============================================================================
