---------------------------- MODULE GooseReceiver ----------------------------
(***************************************************************************)
(* The GOOSE receiver and its subscribers, model/libiec61850/src/goose/    *)
(* goose_receiver.cc and goose_subscriber.cc: what one received frame does *)
(* to the list of subscribers.                                             *)
(*                                                                         *)
(* A subscriber is a record of the fields of struct sGooseSubscriber that  *)
(* the receiver reads or writes.  The data set is [alloc, slots], where    *)
(* alloc says who allocated it ("app" or "receiver"), or NoDataSet (NULL). *)
(* timeLeft is invalidityTime minus the current time in milliseconds, and  *)
(* -1 once it is negative.                                                 *)
(*                                                                         *)
(* A frame carries the APPID of its header and the fields of the PDU.      *)
(***************************************************************************)
EXTENDS GooseDataSet, Integers

AnyAppId == -1

NoDataSet == [alloc |-> "none", slots |-> <<>>]

GooseParseError ==
    {"NO_ERROR", "UNKNOWN_TAG", "TAGDECODE", "SUBLEVEL", "OVERFLOW", "UNDERFLOW",
     "TYPE_MISMATCH", "LENGTH_MISMATCH"}

Subscriber ==
    [goCBRef : STRING, appId : Int, dstMacSet : BOOLEAN, isObserver : BOOLEAN,
     dataSet : [alloc : {"none", "app", "receiver"}, slots : Seq(Slot)],
     selfAllocated : BOOLEAN, confRev : Nat, stNum : Nat, sqNum : Nat,
     stateValid : BOOLEAN, timeLeft : Int, parseError : GooseParseError]

\* GooseSubscriber_create, then the setters: slots is the data set the
\* application provides, or <<>> for none.
GooseSubscriber_create(goCBRef, slots, appId, dstMacSet, isObserver) ==
    [goCBRef |-> goCBRef, appId |-> appId, dstMacSet |-> dstMacSet, isObserver |-> isObserver,
     dataSet |-> IF slots = <<>> THEN NoDataSet ELSE [alloc |-> "app", slots |-> slots],
     selfAllocated |-> slots = <<>>,
     confRev |-> 0, stNum |-> 0, sqNum |-> 0,
     stateValid |-> FALSE, timeLeft |-> 0, parseError |-> "NO_ERROR"]

\* A subscriber no message has reached.
Created(self) ==
    /\ self \in Subscriber
    /\ self = GooseSubscriber_create(self.goCBRef, self.dataSet.slots, self.appId,
                                     self.dstMacSet, self.isObserver)

IsValidIgnoringTime(self) == self.stateValid

GooseSubscriber_isValid(self) == self.stateValid /\ self.timeLeft >= 0

\* A millisecond passes.
Elapse(self) == [self EXCEPT !.timeLeft = IF @ < 0 THEN @ ELSE @ - 1]

-----------------------------------------------------------------------------
\* The walk along the subscriber list stops at the first hit; 0 if there is none.
First(hits) ==
    IF hits = {} THEN 0 ELSE CHOOSE i \in hits : \A j \in hits : i =< j

\* parseGooseMessage looks for an interested subscriber.  The bytes it takes for
\* the destination address are the VLAN tag, the Ethertype and the APPID (the
\* socket strips the addresses), which are never the configured address.
Interested(self, f) ==
    \/ self.isObserver
    \/ self.appId \in {AnyAppId, f.appId} /\ ~self.dstMacSet

\* An observer takes over the header fields of the frame.
NoteHeader(subs, f) ==
    LET i == First({j \in 1 .. Len(subs) : Interested(subs[j], f)})
    IN  IF i # 0 /\ subs[i].isObserver THEN [subs EXCEPT ![i].appId = f.appId] ELSE subs

\* With the result of that search taken into account.
MatchingInterested(subs, f) ==
    First({j \in 1 .. Len(subs) : Interested(subs[j], f) /\ subs[j].goCBRef = f.goCBRef})

\* parseGoosePayload takes the first subscriber that is an observer or has the
\* control block reference of the message.
MatchingSubscriber(subs, f) ==
    First({j \in 1 .. Len(subs) : subs[j].isObserver \/ subs[j].goCBRef = f.goCBRef})

\* The data set a message is parsed into: a data set the receiver allocated is
\* deleted when confRev changed, the one of an observer always.
DataSetKeptForever(self, f) == self.dataSet

DataSetKept(self, f) ==
    IF self.isObserver \/ (self.selfAllocated /\ self.confRev # f.confRev)
    THEN NoDataSet ELSE self.dataSet

\* A message that repeats the state must have a larger sequence number.
InSequenceOrRepeated(self, f) == self.stNum # f.stNum \/ self.sqNum =< f.sqNum

\* State numbers that must grow, also at their overflow.
InSequenceIncreasing(self, f) ==
    self.stNum < f.stNum \/ (self.stNum = f.stNum /\ self.sqNum < f.sqNum)

InSequence(self, f) == self.stNum # f.stNum \/ self.sqNum < f.sqNum

\* parseAllDataUnknownValue sets dataSetValuesSelfAllocated whenever it succeeds,
\* for the data set or for a part of it.
SelfAllocatedUnchanged(self, f) == self.selfAllocated

SelfAllocated(self, f) ==
    \/ self.selfAllocated
    \/ DataSetKept(self, f) = NoDataSet /\ (Learnable(f.data) \/ LearnsNested(f.data))

\* The payload of a message is parsed into the data set, if there is one;
\* otherwise a data set is learned from it, and a failure to do so is no error.
Parsed(kept, data) ==
    IF kept # NoDataSet THEN parseAllData(kept.slots, data)
    ELSE [slots |-> IF Learnable(data) THEN parseAllDataUnknownValue(data) ELSE <<>>,
          error |-> "NO_ERROR"]

NewDataSet(kept, data) ==
    [alloc |-> IF kept = NoDataSet /\ Learnable(data) THEN "receiver" ELSE kept.alloc,
     slots |-> Parsed(kept, data).slots]

\* parseGoosePayload for the matching subscriber.  Learning does not touch
\* parseError.
ParsePayload(self, f) ==
    LET kept == DataSetKept(self, f)
        error == Parsed(kept, f.data).error
    IN  [self EXCEPT
            !.goCBRef = f.goCBRef,
            !.dataSet = NewDataSet(kept, f.data),
            !.selfAllocated = SelfAllocated(self, f),
            !.parseError = IF kept = NoDataSet THEN @ ELSE error,
            !.stateValid = error = "NO_ERROR" /\ InSequence(self, f),
            !.confRev = f.confRev,
            !.stNum = f.stNum,
            !.sqNum = f.sqNum,
            !.timeLeft = f.timeAllowedToLive]

\* parseGooseMessage: whether an interested subscriber was found is ignored.
parseGooseMessage(subs, f) ==
    LET noted == NoteHeader(subs, f)
        i == MatchingSubscriber(noted, f)
    IN  IF i = 0 THEN noted ELSE [noted EXCEPT ![i] = ParsePayload(noted[i], f)]
=============================================================================
