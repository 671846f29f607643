---------------------------- MODULE MCWavePlanner ----------------------------
(* Small boards for WavePlanner.                                              *)
EXTENDS WavePlanner

CONSTANTS w1, w2

Plain == [zone |-> 0, deps |-> {}, parent |-> 0, marks |-> {}]

(* A ticket with a zone of its own; one in zone 4 that waits for the most
   urgent ticket; one that waits for a ticket that is not there, is marked,
   and is a part of the most urgent ticket.                                   *)
MCFields ==
  {Plain, [Plain EXCEPT !.zone = 4, !.deps = {1}],
   [zone |-> 4, deps |-> {0}, parent |-> 1,
    marks |-> {"deferred", "no_model_for_role"}]}

Unblock == {<<"other", "todo">>}
==============================================================================
