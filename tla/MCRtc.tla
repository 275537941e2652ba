-------------------------------- MODULE MCRtc --------------------------------
(***************************************************************************)
(* A clock for TLC: the moments are less than a second apart, twice, and   *)
(* then more than an hour.  A game of which neither property speaks any    *)
(* more is not followed further.                                           *)
(***************************************************************************)
EXTENDS Rtc

MCMoments == {5000, 5700, 6400, 3665000}

Read(seconds, minutes, status) ==
  [r \in Registers |-> CASE r = Seconds -> seconds
                        [] r = Minutes -> minutes
                        [] r = Hours -> 23
                        [] r = DaysLow -> 127
                        [] r = StatusByte -> status]

MCStartRegisters == {Read(59, 59, 0), Read(63, 62, 0)}
MCBanks == {0, 3, 12}
MCValues == {0, 64}

StillFollowed == ~game.unseen \/ ~(game.astray \/ game.halted)
=============================================================================
