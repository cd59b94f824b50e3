----------------------------- MODULE MCReaderUi ------------------------------
(* Model-checking instance of ReaderUi with the firmware's own numbers, times in units *)
(* of 500 ms, rounded up: 5.2 s and 1.4 s signals, at most ten attempts of 3.6 to      *)
(* 4.1 s to find the reader, a watchdog of 20 s. **)
EXTENDS ReaderUi, TLC

MCSymmetry == Permutations(Cards)
MCSuccess == 10
MCError == 2
MCSound == 1
MCPoll == 1
MCPause == 2
MCAttempt == 9
MCAttempts == 10
MCGap == 3
MCWatchdog == 40
=============================================================================
