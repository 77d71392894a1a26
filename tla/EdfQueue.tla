------------------------------ MODULE EdfQueue ------------------------------
(***************************************************************************)
(* What a scheduler promises: tasks wait in a queue, the earliest deadline *)
(* first, first come first served among equal ones. A deadline is told     *)
(* from now, in even ticks; now is the deadline of the last task taken.    *)
(***************************************************************************)
EXTENDS Integers, Sequences

CONSTANTS Tasks, Delays

VARIABLE queue     \* entries [task, wait]

Waiting == {queue[i].task : i \in DOMAIN queue}

Init == queue = <<>>

Put(t, dts) ==
    LET wait == dts - (dts % 2)
        Before(e) == e.wait <= wait
        After(e) == e.wait > wait
    IN /\ t \notin Waiting
       /\ queue' = SelectSeq(queue, Before) \o <<[task |-> t, wait |-> wait]>>
                     \o SelectSeq(queue, After)

Get ==
    /\ queue # <<>>
    /\ queue' = [i \in 1..(Len(queue) - 1) |->
                   [queue[i + 1] EXCEPT !.wait = @ - Head(queue).wait]]

Cancel(t) ==
    LET Stays(e) == e.task # t
    IN queue' = SelectSeq(queue, Stays)

Next == Get \/ \E t \in Tasks : Cancel(t) \/ \E dts \in Delays : Put(t, dts)

Spec == Init /\ [][Next]_queue

=============================================================================
