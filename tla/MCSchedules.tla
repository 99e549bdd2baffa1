---- MODULE MCSchedules ----
EXTENDS Schedules

Ask(k, n, d) == [kind |-> k, number |-> n, duration |-> d, fragment |-> "plugin"]

\* Three bits: 1m is 6 seconds, 1m2s wraps to 0 and 1m3s to 1.
MCAsks ==
    {Ask("at", n, <<>>) : n \in {-4, 0, 2, 4}} \union
    {Ask("random", n, <<>>) : n \in {-1, 0}} \union
    {Ask("interval", 0, <<<<1, "m">>, <<n, "s">>>>) : n \in {2, 3}} \union
    {Ask("cron", 0, <<>>), Ask("badcron", 0, <<>>)}

MCUnitSecs == [s |-> 1, m |-> 6]
====
