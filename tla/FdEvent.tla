------------------------------- MODULE FdEvent -------------------------------
(***************************************************************************)
(* The event loop of fdevent.cpp: what install, set and remove do to an    *)
(* fdevent and to g_pending_list, one round of poll(), and the call of one *)
(* pending callback.  The callbacks themselves, and when a descriptor is   *)
(* ready, belong to the module that extends this one: a callback's step    *)
(* says with LoopChange which fdevents it changes, its own included.       *)
(***************************************************************************)
EXTENDS FiniteSets

CONSTANT Fds    \* the fdevents there may be, each with a descriptor of its own

VARIABLES
    fde,        \* fde[x]: the fdevent x
    pending     \* g_pending_list; poll() reports in no order, so neither has it one

loopvars == <<fde, pending>>

Wanted == {"READ", "WRITE"}
Events == Wanted \cup {"ERROR"}

\* active: FDE_ACTIVE, and its descriptor is in g_poll_node_map.  want: FDE_READ
\* and FDE_WRITE.  pend: FDE_PENDING.  events: what poll() reported.
Fdevent == [active : BOOLEAN, want : SUBSET Wanted, pend : BOOLEAN, events : SUBSET Events]
Removed == [active |-> FALSE, want |-> {}, pend |-> FALSE, events |-> {}]
Installed == [Removed EXCEPT !.active = TRUE]

\* fdevent_set, fdevent_add and fdevent_del: a pending event that is no longer
\* wanted is not reported, not even the READ that stands for a hang-up.
SetTo(e, want) ==
    IF e.want = want THEN e
    ELSE LET left == IF e.pend THEN e.events \cap want ELSE e.events
         IN  [e EXCEPT !.want = want, !.events = left, !.pend = @ /\ left # {}]

\* What a callback does to an fdevent.
Install(want) == [op |-> "install", want |-> want]
Set(want) == [op |-> "set", want |-> want]
Remove == [op |-> "remove", want |-> {}]

Change(e, c) ==
    CASE c.op = "install" -> SetTo(Installed, c.want)
      [] c.op = "set"     -> SetTo(e, c.want)
      [] OTHER            -> Removed

\* Mutant: fdevent_remove leaves the fdevent on g_pending_list.
LeavesPendingSetOnly(e, c) == c.op = "set" /\ e.pend /\ ~Change(e, c).pend

\* g_pending_list.remove, in fdevent_remove and in fdevent_set.
LeavesPending(e, c) == e.pend /\ ~Change(e, c).pend

\* The changes chg (a function on some of Fds) made by the callback that runs.
LoopChange(chg) ==
    /\ fde' = [x \in Fds |-> IF x \in DOMAIN chg THEN Change(fde[x], chg[x]) ELSE fde[x]]
    /\ pending' = pending \ {x \in DOMAIN chg : LeavesPending(fde[x], chg[x])}

LoopInit ==
    /\ fde = [x \in Fds |-> Removed]
    /\ pending = {}

\* fdevent_process: poll() reported revents; the pending list is empty by then.
Process(revents) ==
    /\ pending = {}
    /\ \E x \in Fds : revents[x] # {}
    /\ \A x \in Fds : revents[x] # {} => fde[x].active
    /\ fde' = [x \in Fds |-> IF revents[x] = {} THEN fde[x]
                             ELSE [fde[x] EXCEPT !.events = @ \cup revents[x], !.pend = TRUE]]
    /\ pending' = {x \in Fds : revents[x] # {}}

\* fdevent_loop takes an fdevent from the list, fdevent_call_fdfunc clears it
\* and calls its function with the events it had.
CallFdfunc(x) ==
    /\ x \in pending
    /\ pending' = pending \ {x}
    /\ fde' = [fde EXCEPT ![x].pend = FALSE, ![x].events = {}]

LoopType ==
    /\ fde \in [Fds -> Fdevent]
    /\ pending \subseteq Fds

\* The callbacks that will run are those of active fdevents that have FDE_PENDING
\* and an event: fdevent_loop calls none that a callback before it removed or
\* told to listen for nothing (the CHECK in fdevent_call_fdfunc).
PendingInv ==
    \A x \in Fds :
        /\ x \in pending <=> fde[x].pend
        /\ fde[x].pend <=> fde[x].events # {}
        /\ fde[x].pend => fde[x].active
        /\ ~fde[x].active => fde[x].want = {}
=============================================================================
