-------------------------- MODULE MCAlpacaSession --------------------------
(***************************************************************************)
(* The settings AlpacaSession is checked with                              *)
(***************************************************************************)
EXTENDS AlpacaSession

Setting(alpaca, whileConnected, rules) ==
    [alpaca |-> alpaca, whileConnected |-> whileConnected, alerts |-> TRUE, rules |-> rules]

\* Alerts at any time and with the session, Alpaca off, the losses not told.
MCSettings == {Setting(TRUE, TRUE, {"lost", "back"}), Setting(TRUE, FALSE, {"back"}),
               Setting(FALSE, TRUE, {"lost", "back"})}
=============================================================================
