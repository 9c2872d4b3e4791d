-------------------------------- MODULE LocalTime --------------------------------
(***************************************************************************)
(* convertLocalToUTC (routes/campaigns.js), which turns the date and time  *)
(* a store asks for into the moment its campaign is sent.  It guesses a    *)
(* moment, lets Intl.DateTimeFormat (external) show it in the store's      *)
(* zone, and moves the guess by the difference, five times at most.        *)
(* Moments and clock readings are counted in hours from one midnight.      *)
(***************************************************************************)
EXTENDS Integers

CONSTANTS
  Day,      \* hours of a day
  Wanted,   \* clock readings that are asked for
  Offsets,  \* offsets that a zone may have from UTC
  Changes,  \* moments at which a zone may change its offset
  Midnight, \* the hour printed at midnight: 0, or Day as hour12: false may do
  Null

ASSUME LocalTimeAssumption ==
  /\ Day \in Nat \ {0} /\ Midnight \in {0, Day} /\ Null \notin Int
  /\ Wanted \subseteq Int /\ Offsets \subseteq Int /\ Changes \subseteq Int

VARIABLES zone,   \* offsets before and after the change, and its moment
          want,   \* the reading that is asked for
          at,     \* "loop", or "over"
          guess,  \* guessUTC
          round,  \* rounds of the loop so far
          answer  \* the moment returned, or Null

timeVars == <<zone, want, at, guess, round, answer>>

Rounds == 5

Zones == [before : Offsets, after : Offsets, change : Changes]

\* The first guess reads the local time as if it were UTC.
TimeInit ==
  /\ zone \in Zones /\ want \in Wanted
  /\ at = "loop" /\ guess = want /\ round = 0 /\ answer = Null

Offset(u) == IF u < zone.change THEN zone.before ELSE zone.after
Reading(u) == u + Offset(u)

\* What is printed, read back as if it were UTC.
Printed(u) == Reading(u) + (IF Reading(u) % Day = 0 THEN Midnight ELSE 0)

\* Day and hour are those that are wanted; the printed day does not follow an hour of 24.
Matches(u) == Reading(u) = want /\ (Reading(u) % Day = 0 => Midnight = 0)

Found ==
  /\ at = "loop" /\ Matches(guess)
  /\ at' = "over" /\ answer' = guess
  /\ UNCHANGED <<zone, want, guess, round>>

\* Mutant of Adjust: the offset of the first guess is taken for good.
AdjustOnce ==
  /\ at = "loop" /\ ~Matches(guess) /\ round < Rounds
  /\ guess' = want - Offset(want) /\ round' = round + 1
  /\ UNCHANGED <<zone, want, at, answer>>

Adjust ==
  /\ at = "loop" /\ ~Matches(guess) /\ round < Rounds
  /\ guess' = guess + (want - Printed(guess)) /\ round' = round + 1
  /\ UNCHANGED <<zone, want, at, answer>>

\* The last guess is checked once more before the function gives up.
GiveUp ==
  /\ at = "loop" /\ ~Matches(guess) /\ round = Rounds
  /\ at' = "over" /\ UNCHANGED <<zone, want, guess, round, answer>>

TimeNext == Found \/ Adjust \/ GiveUp

TimeSpec == TimeInit /\ [][TimeNext]_timeVars

-----------------------------------------------------------------------------
\* Types.
TimeTypeOK ==
  /\ zone \in Zones /\ want \in Wanted
  /\ at \in {"loop", "over"} /\ guess \in Int /\ round \in 0 .. Rounds
  /\ answer \in Int \cup {Null}

\* A time that the store's clock shows is never refused, on either side of a change of
\* daylight saving and when the change repeats it, and the moment returned shows that time
\* (only two moments can; CampaignScheduleProofs says so for all of them).
FindsIt ==
  (Midnight = 0 /\ at = "over") =>
    IF answer = Null
    THEN \A u \in {want - zone.before, want - zone.after} : Reading(u) # want
    ELSE answer \in Int /\ Reading(answer) = want

\* routes/campaigns.js:119: "If we didn't converge, return null (shouldn't happen in practice)".
\* The code does not keep it (README, section 3).
Converges == at = "over" => answer # Null
=============================================================================
