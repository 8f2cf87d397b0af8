-------------------------------- MODULE Ring --------------------------------
(***************************************************************************)
(* The shared-memory ring between an application and the checkpoint        *)
(* services: one producer, one consumer, two atomic counters and a circle  *)
(* of slots (shared/ring/ring.go and its C twin shared/ringabi/abi.c).     *)
(*                                                                         *)
(* A frame is a full slot, or the rest of the stream.  Data moves one byte *)
(* per step, so every interleaving of the two copies is explored whatever  *)
(* the lengths of the callers' buffers are.  Byte k of the stream has the  *)
(* value k; 0 is memory nobody wrote.                                      *)
(***************************************************************************)
EXTENDS Naturals

CONSTANTS Slots, SlotSize, Total

ASSUME RingAssumption ==
    /\ Slots \in Nat /\ Slots >= 2
    /\ SlotSize \in Nat /\ SlotSize >= 1
    /\ Total \in Nat /\ Total >= 1

VARIABLES
    head,   \* shared: frames published by the producer
    tail,   \* shared: frames given back by the consumer
    mem,    \* shared: the slots
    prod,   \* producer: program point and the fields of its Ring
    cons,   \* consumer: the same
    last    \* the byte the consumer copied last, 0 before the first

ringVars == <<head, tail, mem, prod, cons, last>>

-----------------------------------------------------------------------------
(* State *)

Value == 0..Total

\* "claim": the loop that waits for a slot; "copy": inside a frame; "publish":
\* the frame is complete and its counter not yet stored; "failed": an error
\* was returned.
End == [pc : {"claim", "copy", "publish", "done", "failed"},
        position : Nat, frameBytes : Nat, framePos : Nat]

Opened == [pc |-> "claim", position |-> 0, frameBytes |-> 0, framePos |-> 0]

RingInit ==
    /\ head = 0 /\ tail = 0
    /\ mem = [s \in 0..(Slots - 1) |-> [b \in 0..(SlotSize - 1) |-> 0]]
    /\ prod = Opened /\ cons = Opened
    /\ last = 0

\* Where the frame with this counter value lives.
Slot(counter) == counter % Slots

\* Variant with a fault: the last, short frame is taken for a full one.
FullFrame(position) == SlotSize

Frame(position) == IF SlotSize <= Total - position THEN SlotSize ELSE Total - position

NewFrame(end) == [end EXCEPT !.pc = "copy", !.frameBytes = Frame(end.position),
                             !.framePos = 0]

\* One byte further, and at the end of the frame to the counter store.
Copied(end) == [end EXCEPT !.position = @ + 1, !.framePos = @ + 1,
                           !.pc = IF end.framePos + 1 = end.frameBytes THEN "publish" ELSE @]

\* After the store: the end of the stream, or the next frame.
Published(end) == [end EXCEPT !.pc = IF end.position = Total THEN "done" ELSE "claim"]

Corrupt == head < tail \/ head - tail > Slots

-----------------------------------------------------------------------------
(* Write *)

\* Variant with a fault: the producer does not wait for a free slot.
ClaimAnySlot ==
    /\ prod.pc = "claim" /\ ~Corrupt
    /\ prod' = NewFrame(prod)
    /\ UNCHANGED <<head, tail, mem, cons, last>>

ClaimSlot ==
    /\ prod.pc = "claim" /\ ~Corrupt /\ head - tail # Slots
    /\ prod' = NewFrame(prod)
    /\ UNCHANGED <<head, tail, mem, cons, last>>

WriteByte ==
    /\ prod.pc = "copy"
    /\ mem' = [mem EXCEPT ![Slot(head)] = [@ EXCEPT ![prod.framePos] = prod.position + 1]]
    /\ prod' = Copied(prod)
    /\ UNCHANGED <<head, tail, cons, last>>

StoreHead ==
    /\ prod.pc = "publish"
    /\ head' = head + 1
    /\ prod' = Published(prod)
    /\ UNCHANGED <<tail, mem, cons, last>>

-----------------------------------------------------------------------------
(* Read *)

\* Variant with a fault: the consumer does not wait for a published frame.
ClaimAnyFrame ==
    /\ cons.pc = "claim" /\ ~Corrupt
    /\ cons' = NewFrame(cons)
    /\ UNCHANGED <<head, tail, mem, prod, last>>

ClaimFrame ==
    /\ cons.pc = "claim" /\ ~Corrupt /\ head # tail
    /\ cons' = NewFrame(cons)
    /\ UNCHANGED <<head, tail, mem, prod, last>>

ReadByte ==
    /\ cons.pc = "copy"
    /\ last' = mem[Slot(tail)][cons.framePos]
    /\ cons' = Copied(cons)
    /\ UNCHANGED <<head, tail, mem, prod>>

\* Variant with a fault: a frame that was read is not given back.
KeepTail ==
    /\ cons.pc = "publish"
    /\ cons' = Published(cons)
    /\ UNCHANGED <<head, tail, mem, prod, last>>

StoreTail ==
    /\ cons.pc = "publish"
    /\ tail' = tail + 1
    /\ cons' = Published(cons)
    /\ UNCHANGED <<head, mem, prod, last>>

-----------------------------------------------------------------------------
(* Errors *)

\* The deadline ends while the producer waits for a slot or the consumer for a
\* frame, a claim finds the counters corrupt, or the process dies between any
\* two steps: that end is never heard of again.
AbandonRing ==
    /\ \/ /\ prod.pc \notin {"done", "failed"}
          /\ prod' = [prod EXCEPT !.pc = "failed"] /\ UNCHANGED cons
       \/ /\ cons.pc \notin {"done", "failed"}
          /\ cons' = [cons EXCEPT !.pc = "failed"] /\ UNCHANGED prod
    /\ UNCHANGED <<head, tail, mem, last>>

-----------------------------------------------------------------------------
(* Specification *)

Producer == ClaimSlot \/ WriteByte \/ StoreHead
Consumer == ClaimFrame \/ ReadByte \/ StoreTail

RingNext == Producer \/ Consumer \/ AbandonRing

RingSpec == RingInit /\ [][RingNext]_ringVars

\* Both ends run until they fail.
FairRingSpec == RingSpec /\ WF_ringVars(Producer) /\ WF_ringVars(Consumer)

-----------------------------------------------------------------------------
(* Properties *)

RingTypeOK ==
    /\ head \in Nat /\ tail \in Nat
    /\ mem \in [0..(Slots - 1) -> [0..(SlotSize - 1) -> Value]]
    /\ prod \in End /\ cons \in End
    /\ last \in Value

\* Every byte the consumer copies out is the byte of the stream at its position:
\* the producer never overwrites a slot the consumer has not given back, and the
\* consumer never enters a slot that is not published.
Faithful == last = cons.position

\* The counters both ends check are never found corrupt.
CountersSound == ~Corrupt

\* A consumer that reaches the end of the stream (Read returns io.EOF) did so
\* after the producer wrote all of it.
CompleteAtEOF == cons.pc = "done" => prod.position = Total /\ cons.position = Total

\* The ring implements the bounded pipe of module Stream: the bytes that come out
\* of Read are those that went into Write, each once and in order, and a writer
\* is never more than the ring's capacity ahead.
Pipe == INSTANCE Stream WITH accepted <- prod.position, delivered <- last,
                             Capacity <- Slots * SlotSize
ImplementsStream == Pipe!Spec

\* The ends never wait for each other: a transfer in which neither fails is
\* completed by both.
TransferCompletes ==
    <>(\/ prod.pc = "done" /\ cons.pc = "done"
       \/ prod.pc = "failed" \/ cons.pc = "failed")

-----------------------------------------------------------------------------
(* Inductive invariant *)

\* Position in the stream at which a frame starts.
Base(counter) == counter * SlotSize

\* An end that works on the frame of its counter.
InFrame(end, counter) ==
    /\ end.pc \in {"claim", "copy", "publish"} => Base(counter) < Total
    /\ end.pc = "claim" => end.position = Base(counter)
    /\ end.pc \in {"copy", "publish"} =>
           /\ end.frameBytes = Frame(Base(counter))
           /\ end.position = Base(counter) + end.framePos
    /\ end.pc = "copy" => end.framePos < end.frameBytes
    /\ end.pc = "publish" => end.framePos = end.frameBytes
    /\ end.pc = "done" => end.position = Total
    /\ end.position = Total \/ Base(counter) <= end.position

\* The counters stay within one round of the circle.
Counters ==
    /\ tail <= head /\ head <= tail + Slots
    /\ prod.pc \in {"copy", "publish"} => head < tail + Slots
    /\ cons.pc \in {"copy", "publish"} => tail < head

\* Published frames that were not given back hold their bytes.
PublishedHeld ==
    \A i \in tail..(head - 1) :
        /\ Base(i) < Total /\ Base(i) + Frame(Base(i)) <= prod.position
        /\ \A b \in 0..(Frame(Base(i)) - 1) : mem[Slot(i)][b] = Base(i) + b + 1

\* So does the part of the producer's frame that it has copied.
OpenFrameHeld ==
    prod.pc \in {"copy", "publish"} =>
        \A b \in 0..(prod.framePos - 1) : mem[Slot(head)][b] = Base(head) + b + 1

Positions == cons.position <= prod.position /\ prod.position <= Total

RingInv ==
    /\ RingTypeOK /\ Counters /\ InFrame(prod, head) /\ InFrame(cons, tail)
    /\ PublishedHeld /\ OpenFrameHeld /\ Positions /\ Faithful

=============================================================================
