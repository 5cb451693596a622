------------------------------ MODULE FaultLog ------------------------------
(***************************************************************************)
(* What the fault ring promises its reader: a bounded queue that keeps all *)
(* it has taken in, and delivers it once and in the order it was raised.   *)
(***************************************************************************)
EXTENDS Naturals, Sequences

CONSTANT Capacity

VARIABLES queue,      (* faults taken in and not delivered: serial numbers   *)
          delivered   (* the fault last delivered                            *)

Newest(q) == IF q = <<>> THEN delivered ELSE q[Len(q)]

LInit == queue = <<>> /\ delivered = 0

TakeIn == /\ Len(queue) < Capacity
          /\ queue' # <<>> /\ queue' = Append(queue, queue'[Len(queue')])
          /\ queue'[Len(queue')] > Newest(queue)
          /\ UNCHANGED delivered

Deliver == /\ queue # <<>>
           /\ delivered' = Head(queue) /\ queue' = Tail(queue)

lvars == <<queue, delivered>>
LNext == TakeIn \/ Deliver
LSpec == LInit /\ [][LNext]_lvars
=============================================================================
