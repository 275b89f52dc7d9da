---------------------------- MODULE MCSearchClock ----------------------------
(***************************************************************************)
(* An instance of SearchClock: clocks of three kinds and times around the  *)
(* deadlines of each.                                                      *)
(***************************************************************************)
EXTENDS SearchClock, TLC

Clock(mine, theirs, inc, byoyomi, movetime) ==
  [mine |-> mine, theirs |-> theirs, inc |-> inc, byoyomi |-> byoyomi,
   movetime |-> movetime, ply |-> 0, nodes |-> FALSE, infinite |-> FALSE]

Option(cap, cap1m, overhead, extension, mode) ==
  [cap |-> cap, cap1m |-> cap1m, overhead |-> overhead, extension |-> extension,
   mode |-> mode]

(* A long game, for the search's own behaviour: 2000, 2500, 4375 and       *)
(* 102000 ms are its earliest, target, latest and response times.  The     *)
(* byoyomi makes the earliest time later than the best move must be stable. *)
(* Beside it, a clock that is almost at zero and a fixed time per move,    *)
(* with a cap below the overhead and without.                              *)
Clocks  == {Clock(100000, 100000, 0, 2100, 0), Clock(30, 30, 0, 0, 0), Clock(0, 0, 0, 0, 60)}
CapOrNone == {Option(cap, 0, 100, 175, "on") : cap \in {0, 80}}

(* At the start, before the target, between target and latest, after all.  *)
Around == {0, 260, 2500, 7000}
=============================================================================
