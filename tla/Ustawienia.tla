------------------------------ MODULE Ustawienia ------------------------------
(***************************************************************************)
(* What is set before the day begins: the hours (dyrektor.c,               *)
(* wygeneruj_stan_urzedu), when a petent comes (petent.c), and the daily   *)
(* limits (main.c, alloc_res). Times are in seconds, as time_t.            *)
(***************************************************************************)
EXTENDS Integers

CONSTANTS
  Moments,  \* values of time(NULL) at which the director computes the hours
  Minutes,  \* hours set in consts.h, minutes of the day
  Offsets,  \* offsets of local time from UTC, tm_gmtoff
  Draws     \* values of rand()

ASSUME ClockAssumption ==
  /\ Moments \subseteq Nat /\ Draws \subseteq Nat
  /\ Minutes \subseteq Nat /\ \A m \in Minutes : m < 24 * 60
  /\ Offsets \subseteq Int
  /\ \A gmtoff \in Offsets : -(12 * 60 * 60) <= gmtoff /\ gmtoff <= 14 * 60 * 60

DAY     == 24 * 60 * 60
BuiltIn == -1   \* URZAD_TIME_OPEN and URZAD_TIME_CLOSE as they are

\* The loop that adds a day as long as the time is before now.
NotBefore(t, now) ==
  IF t >= now THEN t ELSE t + DAY * ((now - t + DAY - 1) \div DAY)

Midnight(now) == now - (now % DAY)

\* Slip: the offset has the wrong sign.
AtMinuteAhead(m, now, gmtoff) ==
  NotBefore(Midnight(now) + (m % (24 * 60)) * 60 + gmtoff, now)

AtMinute(m, now, gmtoff) ==
  NotBefore(Midnight(now) + (m % (24 * 60)) * 60 - gmtoff, now)

TimeOpen(open, now, gmtoff) ==
  IF open = BuiltIn THEN now + 10 ELSE AtMinute(open, now, gmtoff)

TimeClose(open, close, now, gmtoff) ==
  IF close = BuiltIn THEN TimeOpen(open, now, gmtoff) + 5 * 60
                     ELSE AtMinute(close, now, gmtoff)

\* Slip: the moment of closing is one of them.
ArrivalOrClose(time_open, time_close, draw) ==
  time_open + (draw % (time_close - time_open + 1))

\* When a petent comes that has drawn this number with rand().
Arrival(time_open, time_close, draw) ==
  time_open + (draw % (time_close - time_open))

-------------------------------------------------------------------------------
\* The daily limits for this many petents: a tenth for each of four desks, and
\* the rest for SA, of which the second counter gets all but half of it.
DeskLimit(count) == (count * 10) \div 100
SaShare(count) ==
  LET sa_max == (count * 60) \div 100
  IN  sa_max + (count - sa_max - 4 * DeskLimit(count))
SaLimit(count) ==
  LET sa_half == SaShare(count) \div 2 IN <<sa_half, count - sa_half>>
===============================================================================
