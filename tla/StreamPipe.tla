----------------------------- MODULE StreamPipe ------------------------------
(***************************************************************************)
(* What a stream promises to the two applications at its ends while the    *)
(* connection lasts: a pipe in each direction that loses nothing, whose    *)
(* ends close in an orderly way.  Nothing is said of packets, credits or   *)
(* ids.                                                                    *)
(***************************************************************************)
EXTENDS Naturals, Sequences

CONSTANT Opener     \* the end that opens the stream

Ends == {"host", "device"}
Far(p) == IF p = "host" THEN "device" ELSE "host"

VARIABLES
    end,        \* end[p]: "none", "open", "draining" (takes no more, gives what is left), "closed"
    hung,       \* hung[p]: the application at p hung up
    took,       \* took[p]: how many chunks were taken from the application at p
    transit,    \* transit[p]: the numbers of those that are on their way to Far(p)
    given       \* given[p]: the numbers of those of Far(p) the application at p was given

pipe == <<end, hung, took, transit, given>>

Init ==
    /\ end = [p \in Ends |-> "none"]
    /\ hung = [p \in Ends |-> FALSE]
    /\ took = [p \in Ends |-> 0]
    /\ transit = [p \in Ends |-> <<>>]
    /\ given = [p \in Ends |-> <<>>]

\* An end opens, the opener's first.
Open(p) ==
    /\ end[p] = "none"
    /\ p = Opener \/ end[Far(p)] # "none"
    /\ end' = [end EXCEPT ![p] = "open"]
    /\ UNCHANGED <<hung, took, transit, given>>

Hangup(p) ==
    /\ end[p] \in {"open", "draining"}
    /\ hung' = [hung EXCEPT ![p] = TRUE]
    /\ UNCHANGED <<end, took, transit, given>>

\* A chunk taken from p may be lost only if an end is not open any more or yet,
\* or if the opener hung up and nothing of what it wrote was passed on.
MayLose(p) ==
    \/ \E q \in Ends : end[q] # "open"
    \/ p = Opener /\ hung[p] /\ transit[p] = <<>> /\ given[Far(p)] = <<>>

\* What becomes of end p, with left of what was on its way to it, when it closes.
After(left) == IF left = <<>> THEN "closed" ELSE "draining"

\* Chunks from p: one more is taken and passed on or lost.
Passed(p) ==
    \/ transit' = [transit EXCEPT ![p] = Append(@, took'[p])]
    \/ MayLose(p) /\ UNCHANGED transit

Take(p) ==
    /\ end[p] \in {"open", "draining"}
    /\ took' = [took EXCEPT ![p] = @ + 1]
    /\ Passed(p)
    /\ UNCHANGED <<end, hung, given>>

\* The application at p hung up and its end closes: the first k chunks on their
\* way to it may still be given to it.  What was taken from it is passed on.
Quit(p, k) ==
    /\ hung[p]
    /\ \/ end[p] = "open" /\ k \in 0..Len(transit[Far(p)])
       \/ end[p] = "draining" /\ k = 0
    /\ LET left == SubSeq(transit[Far(p)], 1, k) IN
       /\ end' = [end EXCEPT ![p] = After(left)]
       /\ \/ /\ UNCHANGED took
             /\ transit' = [transit EXCEPT ![Far(p)] = left]
          \/ /\ took' = [took EXCEPT ![p] = @ + 1]
             /\ \/ transit' = [transit EXCEPT ![Far(p)] = left, ![p] = Append(@, took'[p])]
                \/ MayLose(p) /\ transit' = [transit EXCEPT ![Far(p)] = left]
    /\ UNCHANGED <<hung, given>>

\* The far end is gone, or refused: this end closes, once it has given all that
\* is on its way.
Follow(p) ==
    /\ end[p] = "open" /\ end[Far(p)] # "open"
    /\ end' = [end EXCEPT ![p] = After(transit[Far(p)])]
    /\ UNCHANGED <<hung, took, transit, given>>

\* The application at p is given the next k chunks.
Give(p, k) ==
    LET rest == SubSeq(transit[Far(p)], k + 1, Len(transit[Far(p)])) IN
    /\ end[p] \in {"open", "draining"}
    /\ given' = [given EXCEPT ![p] = @ \o SubSeq(transit[Far(p)], 1, k)]
    /\ transit' = [transit EXCEPT ![Far(p)] = rest]
    /\ end' = [end EXCEPT ![p] = IF @ = "draining" THEN After(rest) ELSE @]
    /\ UNCHANGED <<hung, took>>

Next ==
    \E p \in Ends :
        \/ Open(p)
        \/ Hangup(p)
        \/ Take(p)
        \/ \E k \in 0..Len(transit[Far(p)]) : Quit(p, k)
        \/ Follow(p)
        \/ \E k \in 1..Len(transit[Far(p)]) : Give(p, k)

Spec == Init /\ [][Next]_pipe
=============================================================================
