----------------------------- MODULE SingleFlight -----------------------------
(***************************************************************************)
(* What a claim guard promises: of all the flights (running handlers) that *)
(* could work on one job, at most one is in the air at a time.  A flight   *)
(* is a pair <<job, origin>>; a process death takes every flight down.     *)
(* The specification says nothing of how the guard is built.               *)
(***************************************************************************)
CONSTANTS Jobs, Origins

VARIABLE flights    \* the flights in the air, a subset of Jobs \X Origins

Init == flights = {}

(* A flight starts only when no flight of the same job is in the air. *)
TakeOff(j, o) ==
  /\ \A p \in Origins : <<j, p>> \notin flights
  /\ flights' = flights \cup {<<j, o>>}

Land(j, o) == flights' = flights \ {<<j, o>>}

ProcessDeath == flights' = {}

Next ==
  \/ \E j \in Jobs, o \in Origins : TakeOff(j, o) \/ Land(j, o)
  \/ ProcessDeath

Spec == Init /\ [][Next]_flights

(* No job has two flights. *)
Exclusive ==
  \A j \in Jobs : \A o, p \in Origins :
    <<j, o>> \in flights /\ <<j, p>> \in flights => o = p
===============================================================================
