------------------------------ MODULE MCWatcher ------------------------------
(* Model values for checking Watcher with TLC. *)
EXTENDS Watcher, TLC

CONSTANTS p1, p2, w1

OnePub == {p1}
TwoPubs == {p1, p2}
OneWatcher == {w1}
=============================================================================
