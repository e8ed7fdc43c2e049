---------------------------- MODULE FollowUpTimes ----------------------------
(***************************************************************************)
(* When a follow-up is due (nadim-v2/product/follow-up-time.ts): a request *)
(* for some time from now, or for tomorrow at a clock time of the          *)
(* customer's zone, whose distance from UTC may change meanwhile.  Times   *)
(* are hours; local times are counted like UTC ones, as Date.UTC does.     *)
(***************************************************************************)
EXTENDS Integers

CONSTANTS Zones,      \* records: the offset before and after a change, and when it changes
          Nows,       \* the moments at which requests are made
          Clocks,     \* hours and minutes a message may name, as hours
          Unsaid

\* Clocks are turned back by no more than an hour.
ASSUME TimesAssumption ==
  /\ Zones \subseteq [before : Int, after : Int, change : Int] /\ \A z \in Zones : z.before <= z.after + 1
  /\ Nows \subseteq Int /\ Clocks \subseteq Nat /\ Unsaid \notin Int

VARIABLE reminder     \* the zone, the moment, what the message says, and when the follow-up is due

Day == 24
UnitHours == [MINUTE |-> 0, HOUR |-> 1, DAY |-> Day, WEEK |-> 7 * Day]   \* less than an hour is rounded down
Periods == {"am", "pm", Unsaid}

Offset(zone, t) == IF t < zone.change THEN zone.before ELSE zone.after
Local(zone, t) == t + Offset(zone, t)
DateOf(t) == t \div Day
ClockOf(t) == t % Day

-----------------------------------------------------------------------------
\* A clock time in a message: twelve-hour times are told by their period, and one that no clock
\* shows is dropped.
Hour(clock, period) ==
  CASE period = "pm" /\ clock < 12 -> clock + 12
    [] period = "am" /\ clock = 12 -> 0
    [] OTHER -> clock
LocalTime(says) ==
  IF says.clock = Unsaid \/ Hour(says.clock, says.period) >= Day THEN Unsaid ELSE Hour(says.clock, says.period)

\* A request is valid when it is for tomorrow or for a positive number of known units.
Valid(says) == says.kind = "TOMORROW" \/ (says.kind = "RELATIVE" /\ says.amount > 0 /\ says.unit \in DOMAIN UnitHours)

\* Mutant: the offset of the first guess is taken.
LocalToUtcOnce(zone, target) == target - Offset(zone, target)

\* The UTC time of a local one: a guess is moved by how far it is off, three times.
Better(zone, target, guess) == guess + (target - Local(zone, guess))
LocalToUtc(zone, target) == Better(zone, target, Better(zone, target, Better(zone, target, target)))

\* The same clock time on the next date of the zone.
Tomorrow(zone, now) == Local(zone, now) + Day

ResolveFollowUpDueAt(zone, says, now) ==
  IF says.kind = "TOMORROW" THEN
    LET next == Tomorrow(zone, now) IN
    LocalToUtc(zone, IF LocalTime(says) = Unsaid THEN next ELSE DateOf(next) * Day + LocalTime(says))
  ELSE now + says.amount * UnitHours[says.unit]

-----------------------------------------------------------------------------
Relative == [kind : {"RELATIVE"}, amount : {0, 1, 2}, unit : DOMAIN UnitHours \cup {"MONTH"}]
ForTomorrow == [kind : {"TOMORROW"}, clock : Clocks, period : Periods]
                 \cup [kind : {"TOMORROW"}, clock : {Unsaid}, period : {Unsaid}]

TimesInit == reminder \in [zone : Zones, now : Nows, says : Relative \cup ForTomorrow, due : {Unsaid}]

\* An invalid request schedules nothing.
Schedule ==
  /\ reminder.due = Unsaid /\ Valid(reminder.says)
  /\ reminder' = [reminder EXCEPT !.due = ResolveFollowUpDueAt(reminder.zone, reminder.says, reminder.now)]

TimesNext == Schedule

TimesSpec == TimesInit /\ [][TimesNext]_reminder

-----------------------------------------------------------------------------
TimesTyped == reminder.now \in Nows /\ (reminder.due = Unsaid \/ reminder.due \in Int)

\* The local time a request for tomorrow asks for: the date after today's, at the time it names.
AskedFor(r) ==
  LET here == Local(r.zone, r.now) IN
  (DateOf(here) + 1) * Day + IF LocalTime(r.says) = Unsaid THEN ClockOf(here) ELSE LocalTime(r.says)
\* Only a clock that is turned forward skips local times.
LocalExists(zone, local) ==
  \/ local - zone.before < zone.change
  \/ local - zone.after >= zone.change
Skip(zone) == zone.after - zone.before

\* A reminder for tomorrow comes at the local time the customer means, across a change of the
\* clock too; one for a time the change skips comes off by what is skipped, and no reminder is
\* for a time that is past, but for those.
DueAsAsked ==
  reminder.due # Unsaid =>
    LET r == reminder  zone == r.zone IN
    /\ r.says.kind = "TOMORROW" =>
         IF LocalExists(zone, AskedFor(r)) THEN Local(zone, r.due) = AskedFor(r) /\ r.due > r.now
         ELSE Local(zone, r.due) \in {AskedFor(r) - Skip(zone), AskedFor(r) + Skip(zone)}
    /\ r.says.kind = "RELATIVE" => r.due >= r.now
=============================================================================
