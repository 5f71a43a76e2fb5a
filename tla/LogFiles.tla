------------------------------ MODULE LogFiles ------------------------------
(***************************************************************************)
(* The files of the daemon's log (crates/vpndaemon/src/logging.rs): one a  *)
(* day, named by its date, and those too old removed when the daemon comes *)
(* up.  A date is a day of the calendar; date_to_unix counts its days with *)
(* a leap year every fourth year from 1974.                                *)
(***************************************************************************)
EXTENDS Integers

Dates == [year : 1970 .. 2099, month : 1 .. 12, day : 1 .. 31]

\* cum_days
MonthDays == <<0, 31, 59, 90, 120, 151, 181, 212, 243, 273, 304, 334>>

DaysOf(date) ==
    (date.year - 1970) * 365 + (date.year - 1970) \div 4
        + MonthDays[date.month] + date.day - 1

\* cleanup_old_logs, run in the course of the day today, a number of days since 1970:
\* the start of the file's day is more than keep days ago.
Removed(date, today, keep) == DaysOf(date) <= today - keep
=============================================================================
