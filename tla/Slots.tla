--------------------------------- MODULE Slots ---------------------------------
(***************************************************************************)
(* What may be booked on a day (src/src/modules/availability): the starts  *)
(* that the list of time slots offers.  Times are minutes after midnight.  *)
(***************************************************************************)
EXTENDS Integers

CONSTANT Zone \* minutes from the zone times are stored in to that of the server

ASSUME SlotsAssumption == Zone \in Int

Step        == 30  \* SLOT_STEP_MINUTES
Buffer      == 420 \* BUFFER_MINUTES, to both sides of an inspection
LatestStart == 960 \* INSPECTION_LATEST_START_MINUTES
Minutes     == 0 .. 1439

\* What an exception says of its date, "none" where there is none.
Exceptions == {"none", "open", "closed"}

\* An AvailabilityRule: whether its weekday is open, and from when on.
Rules == [open : BOOLEAN, start : Minutes]

\* generateSlots: every half hour from the opening to the cutoff.
Starts(opening) == {t \in opening .. LatestStart : (t - opening) % Step = 0}

\* buildAppointmentBuffers reads the stored time in the zone of the server.
Clock(t) == (t + Zone) % 1440

\* MUTANT of IsBlocked: the ends of the zone around an inspection are free.
IsBlockedInside(start, taken) ==
  \E t \in taken : Clock(t) - Buffer < start /\ start < Clock(t) + Buffer

\* isSlotBlocked, for a start and an end that are the same.
IsBlocked(start, taken) ==
  \E t \in taken : Clock(t) - Buffer <= start /\ start <= Clock(t) + Buffer

\* generateSlots.
Generated(opening, taken) == {t \in Starts(opening) : ~IsBlocked(t, taken)}

=============================================================================
