------------------------------ MODULE MCUplink ------------------------------
(* Scenarios with few samples and a little of what can go wrong in each.    *)
EXTENDS Uplink

Quiet == [hasCreds |-> TRUE, hasCard |-> TRUE, samples |-> 2, far |-> 0, outage |-> 0, broker |-> 0,
          setup |-> 0, console |-> 0, flush |-> 0, card |-> 0, write |-> 0, reset |-> 0]
Offline == [Quiet EXCEPT !.hasCreds = FALSE]
AllScenarios == <<
  [Quiet EXCEPT !.samples = 1, !.outage = 1, !.broker = 1],
  [Quiet EXCEPT !.samples = 3, !.broker = 3],
  [Quiet EXCEPT !.broker = 1, !.reset = 1],
  [Quiet EXCEPT !.broker = 1, !.card = 1],
  [Quiet EXCEPT !.samples = 0, !.outage = 1, !.setup = 1],
  [Quiet EXCEPT !.samples = 0, !.outage = 1, !.console = 1],
  [Offline EXCEPT !.samples = 0, !.setup = 2],
  [Offline EXCEPT !.samples = 7],
  [Offline EXCEPT !.samples = 5, !.card = 1],
  [Offline EXCEPT !.samples = 3, !.far = 1, !.flush = 1],
  [Offline EXCEPT !.samples = 4, !.reset = 1],
  [Offline EXCEPT !.samples = 6, !.write = 2],
  [Quiet EXCEPT !.samples = 3, !.outage = 1]>>
MCScenarios == {AllScenarios[k] : k \in DOMAIN AllScenarios}
=============================================================================
