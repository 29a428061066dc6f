---------------------------- MODULE Ns3Simulator ----------------------------
(***************************************************************************)
(* The discrete-event scheduler of ns-3, as far as the applications of     *)
(* this repository use it (Simulator::Schedule, ScheduleNow, Cancel, Now). *)
(* ns-3 is external code: it is modelled from its use in                   *)
(* model/goose-publisher-app.cc and model/sv-publisher-app.cc.             *)
(*                                                                         *)
(* A simulator is a record: the current time now, the identifier uid the   *)
(* next scheduled event gets, and the set of pending events.  An event     *)
(* carries the time it is due, its identifier and the function it calls.   *)
(* Events run in the order of their times, and events due at the same time *)
(* in the order they were scheduled.                                       *)
(***************************************************************************)
EXTENDS Naturals

Event(Fns) == [at : Nat, uid : Nat, fn : Fns]

Simulator(Fns) == [now : Nat, uid : Nat, pending : SUBSET Event(Fns)]

Precedes(e, f) == e.at < f.at \/ (e.at = f.at /\ e.uid < f.uid)

\* e is the event Simulator::Run takes from the event list next.
IsNext(sim, e) ==
    /\ e \in sim.pending
    /\ \A f \in sim.pending \ {e} : Precedes(e, f)

\* Simulator::Run removes the event and advances the clock before the call.
Dispatch(sim, e) == [now |-> e.at, uid |-> sim.uid, pending |-> sim.pending \ {e}]

\* Simulator::Schedule (ScheduleNow is Schedule with delay 0).  The EventId it
\* returns is sim.uid.
Schedule(sim, delay, f) ==
    [now |-> sim.now,
     uid |-> sim.uid + 1,
     pending |-> sim.pending \cup {[at |-> sim.now + delay, uid |-> sim.uid, fn |-> f]}]

\* Simulator::Cancel: without effect on an event that already ran.
Cancel(sim, id) ==
    [now |-> sim.now,
     uid |-> sim.uid,
     pending |-> {e \in sim.pending : e.uid # id}]
=============================================================================
