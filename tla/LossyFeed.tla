----------------------------- MODULE LossyFeed ------------------------------
(***************************************************************************)
(* What live capture promises its UI, without threads, channel or          *)
(* counters.  The events of the wire are numbered as they are produced.    *)
(* They are delivered one at a time and in order; an event is lost only    *)
(* when more than Cap of them wait; every frame is published with a loss   *)
(* count that covers the gaps in what it shows; and as long as the feed is *)
(* open no event waits for ever.  LivePipeline implements this.            *)
(***************************************************************************)
EXTENDS Naturals, Sequences, SequencesExt

CONSTANT Cap

VARIABLES
    produced,   \* number of events produced
    waiting,    \* those neither delivered nor lost, in order
    seen,       \* those delivered, in order
    missed,     \* number of events lost
    shown,      \* the losses the last frame admits
    open        \* the UI still takes events

vars == <<produced, waiting, seen, missed, shown, open>>

Init ==
    /\ produced = 0 /\ waiting = <<>> /\ seen = <<>>
    /\ missed = 0 /\ shown = 0 /\ open = TRUE

\* Events of the wire, none or several at once.
Produce ==
    /\ produced' \in Nat /\ produced' > produced
    /\ waiting' = waiting \o [i \in 1 .. produced' - produced |-> produced + i]
    /\ UNCHANGED <<seen, missed, shown, open>>

Deliver ==
    /\ open
    /\ waiting # <<>>
    /\ seen' = Append(seen, Head(waiting))
    /\ waiting' = Tail(waiting)
    /\ UNCHANGED <<produced, missed, shown, open>>

\* An event is lost behind Cap others, and counted in the same step.
Lose ==
    /\ \E i \in Cap + 1 .. Len(waiting) : waiting' = RemoveAt(waiting, i)
    /\ missed' = missed + 1
    /\ UNCHANGED <<produced, seen, shown, open>>

\* The events missing before the newest one delivered.
Gaps == IF seen = <<>> THEN 0 ELSE Last(seen) - Len(seen)

Publish ==
    /\ open
    /\ shown' \in Gaps .. missed
    /\ UNCHANGED <<produced, waiting, seen, missed, open>>

Close ==
    /\ open
    /\ open' = FALSE
    /\ UNCHANGED <<produced, waiting, seen, missed, shown>>

Next == Produce \/ Deliver \/ Lose \/ Publish \/ Close

Spec == Init /\ [][Next]_vars

FairSpec == Spec /\ WF_vars(Deliver)
=============================================================================
