-------------------------- MODULE MCBatteryCounters --------------------------
(* One channel and the network task, with little of each thing that can      *)
(* happen: currents and a command, currents alone, each with and without a    *)
(* reset and refused saves, and changes of the configuration.                 *)
EXTENDS BatteryCounters

MCCurrent == {-1, 0, 2}
B(t, l, c, r, f) == [ticks |-> t, calls |-> l, changes |-> c, resets |-> r, fails |-> f]
MCBudgets == {B(4, 1, 0, 0, 0), B(3, 1, 0, 0, 1), B(2, 1, 0, 1, 0), B(1, 1, 0, 1, 1),
              B(5, 0, 0, 1, 1), B(4, 0, 0, 0, 2), B(1, 0, 2, 1, 0)}
=============================================================================
