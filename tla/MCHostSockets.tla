---------------------------- MODULE MCHostSockets ----------------------------
(* HostSockets for TLC. *)
EXTENDS HostSockets, TLC

CONSTANTS c1, c2, c3, t1, t2, l1

Of(kinds, ts) == {Req(k, t, l1) : k \in kinds, t \in ts}

\* One client that asks for anything but forwards.
MCServices == [c \in {c1} |-> Of({"half", "data", "transport", "open", "thread", "track"}, {t1})]

\* Two clients that make, take over and unmake forwards to two devices, and a
\* third that only dials them.
MCForwards ==
    [c \in {c1, c2, c3} |->
        CASE c = c1 -> Of({"forward"}, {t1})
          [] c = c2 -> Of({"forward", "norebind", "killforward"}, {t2}) \cup Of({"killall"}, {t1})
          [] OTHER  -> {}]
=============================================================================
