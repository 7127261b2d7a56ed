------------------------------ MODULE YsfStream ------------------------------
(***************************************************************************)
(* What a receiver of YSF frames may rely on: frames come in streams, a    *)
(* header, numbered data frames, a terminator that repeats the number of   *)
(* the last data frame, all under the name the header gave.  A new header  *)
(* may cut a stream short, and the sender may start afresh.                *)
(***************************************************************************)
EXTENDS Integers

CONSTANTS
    Source,        \* who may be named as the sender of a stream
    Nobody,        \* none of them
    SequenceSpan,  \* sequence numbers of a stream are taken modulo this
    FrameSpan      \* frame numbers modulo this

VARIABLES
    frame,   \* the frame sent last
    open,    \* it left a stream open
    count    \* data frames of the stream, modulo SequenceSpan

NoFrame == [kind |-> "none", source |-> Nobody, number |-> 0, sequence |-> 0]

Init == frame = NoFrame /\ open = FALSE /\ count = 0

Header(s) ==
    /\ frame' = [kind |-> "header", source |-> s, number |-> 0, sequence |-> 0]
    /\ open' = TRUE
    /\ count' = 0

Data ==
    /\ open
    /\ count' = (count + 1) % SequenceSpan
    /\ frame' = [kind |-> "data", source |-> frame.source, number |-> count % FrameSpan,
                  sequence |-> count']
    /\ UNCHANGED open

Terminator ==
    /\ open
    /\ frame' = [kind |-> "term", source |-> frame.source, number |-> 0, sequence |-> count]
    /\ open' = FALSE
    /\ UNCHANGED count

Restart == frame' = NoFrame /\ open' = FALSE /\ count' = 0

Next == (\E s \in Source : Header(s)) \/ Data \/ Terminator \/ Restart

Spec == Init /\ [][Next]_<<frame, open, count>>
=============================================================================
