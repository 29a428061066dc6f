--------------------------- MODULE GoosePublisher ---------------------------
(***************************************************************************)
(* The counters of the GOOSE publisher of libiec61850                      *)
(* (model/libiec61850/src/goose/goose_publisher.cc).                       *)
(*                                                                         *)
(* A publisher is a record of the fields of struct sGoosePublisher that    *)
(* change while it runs: stNum, the number of the state of the data set;   *)
(* sqNum, the number of the next message of that state; and t, the time of *)
(* the last change of state in milliseconds.  Both counters are uint32_t   *)
(* and skip 0 when they overflow.                                          *)
(***************************************************************************)
EXTENDS Naturals

CONSTANT CounterMod     \* 2^32 in the code: the modulus of stNum and sqNum

ASSUME CounterModAssumption == CounterMod \in Nat /\ CounterMod > 2

Counter == 0 .. CounterMod - 1

Publisher == [stNum : Counter, sqNum : Counter, t : Nat]

IncrementNoSkip(n) == (n + 1) % CounterMod

\* "n++; if (n == 0) n = 1" on a uint32_t.
Increment(n) == IF n + 1 = CounterMod THEN 1 ELSE n + 1

\* GoosePublisher_createEx: the time is stamped, GoosePublisher_reset sets the counters.
GoosePublisher_create(ms) == [stNum |-> 1, sqNum |-> 0, t |-> ms]

GoosePublisher_increaseStNum(self, ms) ==
    [stNum |-> Increment(self.stNum), sqNum |-> 0, t |-> ms]

\* createGoosePayload encodes the counters as they are before publish increases sqNum.
Payload(self) == [stNum |-> self.stNum, sqNum |-> self.sqNum, t |-> self.t]

\* GoosePublisher_publish.  fits: the encoded payload is at most maxPayloadSize;
\* otherwise the call returns -1, sends nothing and leaves sqNum alone.
GoosePublisher_publish(self, fits) ==
    IF fits THEN [self EXCEPT !.sqNum = Increment(self.sqNum)] ELSE self
=============================================================================
