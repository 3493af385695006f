----------------------------- MODULE MCTraining -----------------------------
(* Small instances of Training. *)
EXTENDS Training

Torn(accum, interval, freq, keepBest) ==
  {[accum |-> accum, interval |-> interval, freq |-> freq, best |-> keepBest, torn |-> t]
     : t \in BOOLEAN}

\* Checkpoints inside of epochs, at every epoch, at some epochs, or of the best
\* epoch only; windows that divide an epoch and the interval, or are cut short.
MCSettings == Torn(2, 2, 1, FALSE) \cup Torn(1, 1, 1, FALSE)
              \cup Torn(3, 0, 3, FALSE) \cup Torn(2, 0, 1, TRUE)

\* Two windows, and one that the end of an epoch of five batches cuts short.
MCAccum == {[accum |-> 2, interval |-> 2, freq |-> 1, best |-> FALSE, torn |-> FALSE]}

MCLosses == {1, 2}
=============================================================================
