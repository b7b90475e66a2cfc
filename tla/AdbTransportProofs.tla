------------------------- MODULE AdbTransportProofs -------------------------
(***************************************************************************)
(* What keeps an atransport alive while a thread may touch it, and its     *)
(* handle open while a kick or a write may reach it, and that its sockets  *)
(* are closed before it is deleted, for any number of packets, on the host *)
(* and on the device.                                                      *)
(***************************************************************************)
EXTENDS AdbTransport, TLAPS, SequenceTheorems

\* The reference a thread has.
Held(x) == IF pc[x] \in Live THEN 1 ELSE 0

\* Until the threads start nothing refers to the transport but its message.
NotStarted ==
    /\ pc = [x \in Thread |-> "none"]
    /\ refs = 0 /\ ~active /\ ~closed /\ ~bound /\ ~online /\ mpc = "loop"
    /\ toMain = <<>> /\ toWriter = <<>>
    /\ \/ where = "new" /\ regq = <<>>
       \/ where = "pending" /\ regq = <<"add">>

\* From then on the references are those of the threads; the last one to leave
\* closes the transport and posts the only message that removes it.
Started ==
    /\ \A x \in Thread : pc[x] # "none"
    /\ where # "new"
    /\ refs = Held("reader") + Held("writer")
    /\ regq \in {<<>>, <<"remove">>}
    /\ regq = <<"remove">> \/ where = "deleted" => \A x \in Thread : pc[x] = "done"
    /\ \A x, y \in Thread : x # y /\ pc[x] \in Closing => pc[y] = "done" /\ regq = <<>> /\ where # "deleted"

\* transport_lock is held exactly by the one that is kicking.
LockInv ==
    /\ lock = "main" <=> mpc = "kicking"
    /\ \A x \in Thread : lock = x <=> pc[x] = "kicking"
    /\ kick = "flag" <=> lock # "free"

\* The writer thread does nothing before the transport is on transport_list,
\* so that its own kick finds it there.
WriterInv ==
    /\ pc["writer"] # "none" /\ where = "pending" =>
          /\ mpc = "list" /\ ~active /\ pc["writer"] = "wait"
          /\ toWriter \in Seq({"NONE", "CNXN"})
    /\ mpc = "list" => where = "pending"
    /\ pc["writer"] \in {"unref", "done"} \union Closing => kick = "done"
    /\ closed => \A x \in Thread : pc[x] \in {"remove", "done"}

\* The reader thread has told the main thread that the transport is down.
Told == pc["reader"] \in {"kick", "kicking", "unref", "done"} \union Closing

\* SYNC(0, 0) is in a queue.
Has(q) == \E i \in 1..Len(q) : q[i] = "SYNC0"

\* SYNC(0, 0) is the last thing the reader thread passes on.
LastOf(q) == \A i \in 1..Len(q) : q[i] = "SYNC0" => Told /\ i = Len(q)

\* The writer thread has SYNC(0, 0) before it, or has left because of it.
WriterOff == Has(toWriter) \/ (pc["writer"] \notin {"none", "wait", "write"} /\ ~failed)

\* That comes after handle_offline: nothing refers to the transport and no packet is
\* left that could change that.
OfflineInv == LastOf(toMain) /\ (WriterOff => Told /\ toMain = <<>> /\ ~online /\ ~bound)

\* The inductive invariant.
IInv ==
    /\ TypeOK
    /\ NotStarted \/ Started
    /\ LockInv
    /\ WriterInv
    /\ OfflineInv

-----------------------------------------------------------------------------

\* transport_lock stays with the one that is kicking.
LEMMA LockStep ==
    ASSUME IInv, [Next]_vars PROVE LockInv'
<1> USE DEF Goto, vars, obj, queues, main, count, IInv, TypeOK, NotStarted, Started, LockInv, Thread
<1>0. CASE UNCHANGED vars
  BY <1>0
<1>1. CASE RegisterTransport
  BY <1>1 DEF RegisterTransport
<1>2. CASE TransportRegistered
  BY <1>2 DEF TransportRegistered
<1>3. CASE TransportListed
  BY <1>3 DEF TransportListed
<1>4. CASE TransportRemoved
  BY <1>4 DEF TransportRemoved
<1>5. CASE HandleSyncOnline
  BY <1>5 DEF HandleSyncOnline
<1>6. CASE HandleSyncOffline
  BY <1>6 DEF HandleSyncOffline
<1>7. CASE HandleCnxn
  BY <1>7 DEF HandleCnxn
<1>8. ASSUME NEW binds \in BOOLEAN, NEW answers \in BOOLEAN, HandleData(binds, answers) PROVE LockInv'
  BY <1>8 DEF HandleData
<1>9. CASE OpenStream
  BY <1>9 DEF OpenStream
<1>10. CASE StreamSends
  BY <1>10 DEF StreamSends
<1>11. CASE StreamCloses
  BY <1>11 DEF StreamCloses
<1>12. CASE MainKicks
  BY <1>12 DEF MainKicks
<1>13. CASE ServiceKicks
  BY <1>13 DEF ServiceKicks
<1>14. CASE MainKickFunc
  BY <1>14 DEF MainKickFunc
<1>15. CASE ServiceKickFunc
  BY <1>15 DEF ServiceKickFunc
<1>16. CASE ReaderSyncOnline
  BY <1>16 DEF ReaderSyncOnline
<1>17. ASSUME NEW c \in {"CNXN", "DATA"}, ReaderReads(c) PROVE LockInv'
  BY <1>17 DEF ReaderReads
<1>18. CASE ReaderResends
  BY <1>18 DEF ReaderResends
<1>19. CASE ReaderFails
  BY <1>19 DEF ReaderFails
<1>20. CASE ReaderSyncOffline
  BY <1>20 DEF ReaderSyncOffline
<1>21. CASE WriterSyncOnline
  BY <1>21 DEF WriterSyncOnline
<1>22. CASE WriterSyncOffline
  BY <1>22 DEF WriterSyncOffline
<1>23. CASE WriterTakes
  BY <1>23 DEF WriterTakes
<1>24. CASE WriterWrites
  BY <1>24 DEF WriterWrites
<1>25. CASE WriterFails
  BY <1>25 DEF WriterFails
<1>26. ASSUME NEW x \in Thread, KickTransport(x) PROVE LockInv'
  BY <1>26 DEF KickTransport
<1>27. ASSUME NEW x \in Thread, KickFunc(x) PROVE LockInv'
  BY <1>27 DEF KickFunc
<1>28. ASSUME NEW x \in Thread, TransportUnref(x) PROVE LockInv'
  BY <1>28 DEF TransportUnref
<1>29. ASSUME NEW x \in Thread, TransportClose(x) PROVE LockInv'
  BY <1>29 DEF TransportClose
<1>30. ASSUME NEW x \in Thread, RemoveTransport(x) PROVE LockInv'
  BY <1>30 DEF RemoveTransport
<1>31. CASE Finished
  BY <1>31 DEF Finished
<1> QED
  BY <1>0, <1>1, <1>2, <1>3, <1>4, <1>5, <1>6, <1>7, <1>8, <1>9, <1>10, <1>11, <1>12, <1>13, <1>14, <1>15,
     <1>16, <1>17, <1>18, <1>19, <1>20, <1>21, <1>22, <1>23, <1>24, <1>25, <1>26, <1>27, <1>28, <1>29, <1>30, <1>31
     DEF Next, Registration, HandlePacket, Client, Reader, Writer, Exit

\* A step of an unstarted transport may start it; the references follow the
\* threads.
LEMMA StartedStep ==
    ASSUME IInv, [Next]_vars PROVE (NotStarted \/ Started)'
<1> USE DEF Goto, vars, obj, queues, main, count, IInv, TypeOK, NotStarted, Started, Held, Live, Closing, Thread
<1>0. CASE UNCHANGED vars
  BY <1>0
<1>1. CASE RegisterTransport
  BY <1>1 DEF RegisterTransport
<1>2. CASE TransportRegistered
  BY <1>2 DEF TransportRegistered
<1>3. CASE TransportListed
  BY <1>3 DEF TransportListed
<1>4. CASE TransportRemoved
  BY <1>4 DEF TransportRemoved
<1>5. CASE HandleSyncOnline
  BY <1>5 DEF HandleSyncOnline
<1>6. CASE HandleSyncOffline
  BY <1>6 DEF HandleSyncOffline
<1>7. CASE HandleCnxn
  BY <1>7 DEF HandleCnxn
<1>8. ASSUME NEW binds \in BOOLEAN, NEW answers \in BOOLEAN, HandleData(binds, answers) PROVE (NotStarted \/ Started)'
  BY <1>8 DEF HandleData
<1>9. CASE OpenStream
  BY <1>9 DEF OpenStream
<1>10. CASE StreamSends
  BY <1>10 DEF StreamSends
<1>11. CASE StreamCloses
  BY <1>11 DEF StreamCloses
<1>12. CASE MainKicks
  BY <1>12 DEF MainKicks
<1>13. CASE ServiceKicks
  BY <1>13 DEF ServiceKicks
<1>14. CASE MainKickFunc
  BY <1>14 DEF MainKickFunc
<1>15. CASE ServiceKickFunc
  BY <1>15 DEF ServiceKickFunc
<1>16. CASE ReaderSyncOnline
  BY <1>16 DEF ReaderSyncOnline
<1>17. ASSUME NEW c \in {"CNXN", "DATA"}, ReaderReads(c) PROVE (NotStarted \/ Started)'
  BY <1>17 DEF ReaderReads
<1>18. CASE ReaderResends
  BY <1>18 DEF ReaderResends
<1>19. CASE ReaderFails
  BY <1>19 DEF ReaderFails
<1>20. CASE ReaderSyncOffline
  BY <1>20 DEF ReaderSyncOffline
<1>21. CASE WriterSyncOnline
  BY <1>21 DEF WriterSyncOnline
<1>22. CASE WriterSyncOffline
  BY <1>22 DEF WriterSyncOffline
<1>23. CASE WriterTakes
  BY <1>23 DEF WriterTakes
<1>24. CASE WriterWrites
  BY <1>24 DEF WriterWrites
<1>25. CASE WriterFails
  BY <1>25 DEF WriterFails
<1>26. ASSUME NEW x \in Thread, KickTransport(x) PROVE (NotStarted \/ Started)'
  BY <1>26 DEF KickTransport
<1>27. ASSUME NEW x \in Thread, KickFunc(x) PROVE (NotStarted \/ Started)'
  BY <1>27 DEF KickFunc
<1>28. ASSUME NEW x \in Thread, TransportUnref(x) PROVE (NotStarted \/ Started)'
  BY <1>28 DEF TransportUnref
<1>29. ASSUME NEW x \in Thread, TransportClose(x) PROVE (NotStarted \/ Started)'
  BY <1>29 DEF TransportClose
<1>30. ASSUME NEW x \in Thread, RemoveTransport(x) PROVE (NotStarted \/ Started)'
  <2>1. Started /\ regq = <<>> /\ \A y \in Thread : y # x => pc[y] = "done"
    BY <1>30 DEF RemoveTransport
  <2>2. regq' = <<"remove">>
    BY <1>30, <2>1 DEF RemoveTransport
  <2>3. \A y \in Thread : pc'[y] = "done"
    BY <1>30, <2>1 DEF RemoveTransport
  <2> QED
    BY <1>30, <2>1, <2>2, <2>3 DEF RemoveTransport
<1>31. CASE Finished
  BY <1>31 DEF Finished
<1> QED
  BY <1>0, <1>1, <1>2, <1>3, <1>4, <1>5, <1>6, <1>7, <1>8, <1>9, <1>10, <1>11, <1>12, <1>13, <1>14, <1>15,
     <1>16, <1>17, <1>18, <1>19, <1>20, <1>21, <1>22, <1>23, <1>24, <1>25, <1>26, <1>27, <1>28, <1>29, <1>30, <1>31
     DEF Next, Registration, HandlePacket, Client, Reader, Writer, Exit

\* Before the transport is listed only what the reader thread sends by itself
\* is queued for the writer.
LEMMA PendingHead ==
    ASSUME IInv, pc["writer"] = "wait", toWriter # <<>>, Head(toWriter) \in {"SYNC0", "SYNC1"}
    PROVE  where # "pending"
<1>1. toWriter \in Seq({"NONE", "CNXN"}) => Head(toWriter) \in {"NONE", "CNXN"}
  BY HeadTailProperties
<1> QED
  BY <1>1 DEF IInv, WriterInv

\* The writer thread waits for the transport to be listed, and kicks it before
\* it leaves.
LEMMA WriterStep ==
    ASSUME IInv, [Next]_vars PROVE WriterInv'
<1> USE DEF Goto, vars, obj, queues, main, count, IInv, TypeOK, NotStarted, Started, Held, Live, Closing, LockInv, WriterInv, Thread
<1>0. CASE UNCHANGED vars
  BY <1>0
<1>1. CASE RegisterTransport
  BY <1>1 DEF RegisterTransport
<1>2. CASE TransportRegistered
  <2>1. toWriter' \in Seq({"NONE", "CNXN"})
    BY <1>2 DEF TransportRegistered
  <2>2. where' = "pending" /\ mpc' = "list" /\ ~active' /\ pc'["writer"] = "wait" /\ ~closed'
    BY <1>2 DEF TransportRegistered
  <2> QED
    BY <2>1, <2>2
<1>3. CASE TransportListed
  BY <1>3 DEF TransportListed
<1>4. CASE TransportRemoved
  BY <1>4 DEF TransportRemoved
<1>5. CASE HandleSyncOnline
  BY <1>5 DEF HandleSyncOnline
<1>6. CASE HandleSyncOffline
  BY <1>6 DEF HandleSyncOffline
<1>7. CASE HandleCnxn
  BY <1>7 DEF HandleCnxn
<1>8. ASSUME NEW binds \in BOOLEAN, NEW answers \in BOOLEAN, HandleData(binds, answers) PROVE WriterInv'
  BY <1>8 DEF HandleData
<1>9. CASE OpenStream
  BY <1>9 DEF OpenStream
<1>10. CASE StreamSends
  BY <1>10 DEF StreamSends
<1>11. CASE StreamCloses
  BY <1>11 DEF StreamCloses
<1>12. CASE MainKicks
  BY <1>12 DEF MainKicks
<1>13. CASE ServiceKicks
  BY <1>13 DEF ServiceKicks
<1>14. CASE MainKickFunc
  BY <1>14 DEF MainKickFunc
<1>15. CASE ServiceKickFunc
  BY <1>15 DEF ServiceKickFunc
<1>16. CASE ReaderSyncOnline
  BY <1>16 DEF ReaderSyncOnline
<1>17. ASSUME NEW c \in {"CNXN", "DATA"}, ReaderReads(c) PROVE WriterInv'
  BY <1>17 DEF ReaderReads
<1>18. CASE ReaderResends
  <2>1. ConnectMsgs \in Seq({"NONE", "CNXN"})
    BY DEF ConnectMsgs
  <2>2. toWriter \in Seq({"NONE", "CNXN"}) => toWriter' \in Seq({"NONE", "CNXN"})
    BY <1>18, <2>1, ConcatProperties DEF ReaderResends
  <2> QED
    BY <1>18, <2>2 DEF ReaderResends
<1>19. CASE ReaderFails
  BY <1>19 DEF ReaderFails
<1>20. CASE ReaderSyncOffline
  BY <1>20 DEF ReaderSyncOffline
<1>21. CASE WriterSyncOnline
  <2>1. where # "pending"
    BY <1>21, PendingHead DEF WriterSyncOnline
  <2> QED
    BY <1>21, <2>1 DEF WriterSyncOnline
<1>22. CASE WriterSyncOffline
  <2>1. where # "pending"
    BY <1>22, PendingHead DEF WriterSyncOffline
  <2> QED
    BY <1>22, <2>1 DEF WriterSyncOffline
<1>23. CASE WriterTakes
  BY <1>23 DEF WriterTakes
<1>24. CASE WriterWrites
  BY <1>24 DEF WriterWrites
<1>25. CASE WriterFails
  BY <1>25 DEF WriterFails
<1>26. ASSUME NEW x \in Thread, KickTransport(x) PROVE WriterInv'
  BY <1>26 DEF KickTransport
<1>27. ASSUME NEW x \in Thread, KickFunc(x) PROVE WriterInv'
  BY <1>27 DEF KickFunc
<1>28. ASSUME NEW x \in Thread, TransportUnref(x) PROVE WriterInv'
  BY <1>28 DEF TransportUnref
<1>29. ASSUME NEW x \in Thread, TransportClose(x) PROVE WriterInv'
  BY <1>29 DEF TransportClose
<1>30. ASSUME NEW x \in Thread, RemoveTransport(x) PROVE WriterInv'
  BY <1>30 DEF RemoveTransport
<1>31. CASE Finished
  BY <1>31 DEF Finished
<1> QED
  BY <1>0, <1>1, <1>2, <1>3, <1>4, <1>5, <1>6, <1>7, <1>8, <1>9, <1>10, <1>11, <1>12, <1>13, <1>14, <1>15,
     <1>16, <1>17, <1>18, <1>19, <1>20, <1>21, <1>22, <1>23, <1>24, <1>25, <1>26, <1>27, <1>28, <1>29, <1>30, <1>31
     DEF Next, Registration, HandlePacket, Client, Reader, Writer, Exit

\* Every step keeps the types, whatever the bounds.
LEMMA TypeStep ==
    ASSUME IInv, [Next]_vars PROVE TypeOK'
<1> USE DEF Goto, vars, obj, queues, main, count, IInv, TypeOK, Live, Closing, Thread, Command
<1>0. CASE UNCHANGED vars
  BY <1>0
<1>1. CASE RegisterTransport
  <2>1. regq' \in Seq({"add", "remove"})
    BY <1>1, AppendProperties DEF RegisterTransport
  <2> QED
    BY <1>1, <2>1 DEF RegisterTransport
<1>2. CASE TransportRegistered
  <2>1. regq' \in Seq({"add", "remove"})
    BY <1>2 DEF TransportRegistered
  <2>2. pc' \in [Thread -> {"none", "done"} \union Live \union Closing]
    BY <1>2 DEF TransportRegistered
  <2> QED
    BY <1>2, <2>1, <2>2 DEF TransportRegistered
<1>3. CASE TransportListed
  BY <1>3 DEF TransportListed
<1>4. CASE TransportRemoved
  <2>1. regq' \in Seq({"add", "remove"})
    BY <1>4 DEF TransportRemoved
  <2>2. toMain' \in Seq(Command) /\ toWriter' \in Seq(Command)
    BY <1>4, EmptySeq DEF TransportRemoved
  <2> QED
    BY <1>4, <2>1, <2>2 DEF TransportRemoved
<1>5. CASE HandleSyncOnline
  <2>1. toMain' \in Seq(Command)
    BY <1>5 DEF HandleSyncOnline
  <2>2. ConnectMsgs \in Seq(Command) /\ <<>> \in Seq(Command) /\ Append(toWriter, "SYNC1") \in Seq(Command)
    BY AppendProperties DEF ConnectMsgs, Command
  <2>3. toWriter' \in Seq(Command)
    BY <1>5, <2>2, ConcatProperties DEF HandleSyncOnline
  <2> QED
    BY <1>5, <2>1, <2>3 DEF HandleSyncOnline
<1>6. CASE HandleSyncOffline
  <2>1. toMain' \in Seq(Command)
    BY <1>6 DEF HandleSyncOffline
  <2>2. toWriter' \in Seq(Command)
    BY <1>6, AppendProperties DEF HandleSyncOffline
  <2>3. online' \in BOOLEAN /\ bound' \in BOOLEAN
    BY <1>6, Zenon DEF HandleSyncOffline
  <2>4. UNCHANGED <<obj, regq, pc, mpc, active, resent, failed, count>>
    BY <1>6 DEF HandleSyncOffline
  <2> QED
    BY <2>1, <2>2, <2>3, <2>4
<1>7. CASE HandleCnxn
  <2>1. toMain' \in Seq(Command)
    BY <1>7 DEF HandleCnxn
  <2>2. toWriter' \in Seq(Command)
    BY <1>7, AppendProperties DEF HandleCnxn
  <2>3. online' \in BOOLEAN /\ bound' \in BOOLEAN
    BY <1>7, Zenon DEF HandleCnxn
  <2>4. UNCHANGED <<obj, regq, pc, mpc, active, resent, failed, count>>
    BY <1>7 DEF HandleCnxn
  <2> QED
    BY <2>1, <2>2, <2>3, <2>4
<1>8. ASSUME NEW binds \in BOOLEAN, NEW answers \in BOOLEAN, HandleData(binds, answers) PROVE TypeOK'
  BY <1>8 DEF HandleData
<1>9. CASE OpenStream
  BY <1>9 DEF OpenStream
<1>10. CASE StreamSends
  BY <1>10 DEF StreamSends
<1>11. CASE StreamCloses
  <2>1. bound' \in BOOLEAN
    BY <1>11, Zenon DEF StreamCloses
  <2> QED
    BY <1>11, <2>1 DEF StreamCloses
<1>12. CASE MainKicks
  BY <1>12 DEF MainKicks
<1>13. CASE ServiceKicks
  BY <1>13 DEF ServiceKicks
<1>14. CASE MainKickFunc
  BY <1>14 DEF MainKickFunc
<1>15. CASE ServiceKickFunc
  BY <1>15 DEF ServiceKickFunc
<1>16. CASE ReaderSyncOnline
  BY <1>16 DEF ReaderSyncOnline
<1>17. ASSUME NEW c \in {"CNXN", "DATA"}, ReaderReads(c) PROVE TypeOK'
  BY <1>17 DEF ReaderReads
<1>18. CASE ReaderResends
  <2>1. toWriter' \in Seq(Command)
    <3>1. ConnectMsgs \in Seq(Command)
      BY DEF ConnectMsgs
    <3> QED
      BY <1>18, <3>1, ConcatProperties DEF ReaderResends
  <2> QED
    BY <1>18, <2>1 DEF ReaderResends
<1>19. CASE ReaderFails
  BY <1>19 DEF ReaderFails
<1>20. CASE ReaderSyncOffline
  BY <1>20 DEF ReaderSyncOffline
<1>21. CASE WriterSyncOnline
  BY <1>21 DEF WriterSyncOnline
<1>22. CASE WriterSyncOffline
  BY <1>22 DEF WriterSyncOffline
<1>23. CASE WriterTakes
  BY <1>23 DEF WriterTakes
<1>24. CASE WriterWrites
  BY <1>24 DEF WriterWrites
<1>25. CASE WriterFails
  BY <1>25 DEF WriterFails
<1>26. ASSUME NEW x \in Thread, KickTransport(x) PROVE TypeOK'
  BY <1>26 DEF KickTransport
<1>27. ASSUME NEW x \in Thread, KickFunc(x) PROVE TypeOK'
  BY <1>27 DEF KickFunc
<1>28. ASSUME NEW x \in Thread, TransportUnref(x) PROVE TypeOK'
  <2>1. refs' \in 0..2
    BY <1>28 DEF TransportUnref, NotStarted, Started, Held
  <2> QED
    BY <1>28, <2>1 DEF TransportUnref
<1>29. ASSUME NEW x \in Thread, TransportClose(x) PROVE TypeOK'
  BY <1>29 DEF TransportClose
<1>30. ASSUME NEW x \in Thread, RemoveTransport(x) PROVE TypeOK'
  BY <1>30 DEF RemoveTransport
<1>31. CASE Finished
  BY <1>31 DEF Finished
<1> QED
  BY <1>0, <1>1, <1>2, <1>3, <1>4, <1>5, <1>6, <1>7, <1>8, <1>9, <1>10, <1>11, <1>12, <1>13, <1>14, <1>15,
     <1>16, <1>17, <1>18, <1>19, <1>20, <1>21, <1>22, <1>23, <1>24, <1>25, <1>26, <1>27, <1>28, <1>29, <1>30, <1>31
     DEF Next, Registration, HandlePacket, Client, Reader, Writer, Exit

\* Where a command is in a queue that one is added to or taken from.
LEMMA HasLaws ==
    /\ \A s \in Seq(Command), e \in Command : Has(Append(s, e)) => Has(s) \/ e = "SYNC0"
    /\ \A s \in Seq(Command) : s # <<>> /\ (Has(Tail(s)) \/ Head(s) = "SYNC0") => Has(s)
    /\ \A s \in Seq(Command) : Has(s \o ConnectMsgs) => Has(s)
    /\ ~Has(<<>>)
<1>1. ASSUME NEW s \in Seq(Command), NEW e \in Command, Has(Append(s, e)) PROVE Has(s) \/ e = "SYNC0"
  <2>1. PICK i \in 1..Len(Append(s, e)) : Append(s, e)[i] = "SYNC0"
    BY <1>1 DEF Has
  <2>2. CASE i = Len(s) + 1
    BY <2>1, <2>2
  <2>3. CASE i \in 1..Len(s)
    BY <2>1, <2>3 DEF Has
  <2> QED BY <2>1, <2>2, <2>3
<1>2. ASSUME NEW s \in Seq(Command), s # <<>>, Has(Tail(s)) \/ Head(s) = "SYNC0" PROVE Has(s)
  <2>1. CASE Head(s) = "SYNC0"
    BY <1>2, <2>1 DEF Has
  <2>2. CASE Has(Tail(s))
    <3>1. PICK i \in 1..Len(Tail(s)) : Tail(s)[i] = "SYNC0"
      BY <2>2 DEF Has
    <3>2. i + 1 \in 1..Len(s) /\ s[i + 1] = "SYNC0"
      BY <1>2, <3>1
    <3> QED BY <3>2 DEF Has
  <2> QED BY <1>2, <2>1, <2>2
<1>3. ASSUME NEW s \in Seq(Command), Has(s \o ConnectMsgs) PROVE Has(s)
  <2>0. ConnectMsgs \in Seq(Command) /\ Len(ConnectMsgs) = 2 /\ ConnectMsgs[1] = "NONE" /\ ConnectMsgs[2] = "CNXN"
    BY DEF ConnectMsgs, Command
  <2>1. PICK i \in 1..Len(s \o ConnectMsgs) : (s \o ConnectMsgs)[i] = "SYNC0"
    BY <1>3 DEF Has
  <2>2. CASE i \in 1..Len(s)
    BY <2>0, <2>1, <2>2 DEF Has
  <2>3. CASE i \in {Len(s) + 1, Len(s) + 2}
    BY <2>0, <2>1, <2>3
  <2>4. Len(s \o ConnectMsgs) = Len(s) + 2 /\ Len(s) \in Nat
    <3>1. Len(s) \in Nat
      BY <1>3
    <3>2. Len(s \o ConnectMsgs) = Len(s) + Len(ConnectMsgs)
      BY <1>3, <2>0, ConcatProperties
    <3> QED BY <2>0, <3>1, <3>2
  <2>5. i \in 1..Len(s) \/ i \in {Len(s) + 1, Len(s) + 2}
    BY <2>1, <2>4
  <2> QED BY <2>2, <2>3, <2>5
<1>4. ~Has(<<>>)
  BY DEF Has
<1> QED BY <1>1, <1>2, <1>3, <1>4

\* What the reader thread has passed on: SYNC(0, 0) is the last of it.
LEMMA ReaderStep ==
    ASSUME IInv, [Next]_vars PROVE LastOf(toMain)' /\ (Told => Told')
<1> USE DEF Goto, vars, obj, queues, main, count, Thread, Told, Closing
<1>t. toMain \in Seq(Command) /\ LastOf(toMain) /\ pc \in [Thread -> {"none", "done"} \union Live \union Closing]
      /\ (NotStarted \/ Started)
  BY DEF IInv, TypeOK, OfflineInv
<1>k. ASSUME toMain' = toMain, Told => Told' PROVE LastOf(toMain)' /\ (Told => Told')
  BY <1>k, <1>t DEF LastOf
<1>h. ASSUME toMain # <<>>, toMain' = Tail(toMain), pc' = pc PROVE LastOf(toMain)' /\ (Told => Told')
  BY <1>h, <1>t DEF LastOf
<1>a. ASSUME NEW e \in Command, ~Told, toMain' = Append(toMain, e), e = "SYNC0" => Told'
      PROVE LastOf(toMain)' /\ (Told => Told')
  BY <1>a, <1>t DEF LastOf
<1>1. CASE TransportRegistered
  BY <1>1, <1>t DEF TransportRegistered, NotStarted, Started, LastOf
<1>2. CASE TransportRemoved
  <2>1. toMain' = <<>> /\ pc' = pc
    BY <1>2 DEF TransportRemoved
  <2> QED BY <2>1 DEF LastOf
<1>3. CASE HandleSyncOnline \/ HandleSyncOffline \/ HandleCnxn
  BY <1>3, <1>h DEF HandleSyncOnline, HandleSyncOffline, HandleCnxn
<1>4. ASSUME NEW binds, NEW answers, HandleData(binds, answers) PROVE LastOf(toMain)' /\ (Told => Told')
  BY <1>4, <1>h DEF HandleData
<1>5. CASE ReaderSyncOnline
  BY <1>5, <1>a, <1>t DEF ReaderSyncOnline, Command
<1>6. ASSUME NEW c \in {"CNXN", "DATA"}, ReaderReads(c) PROVE LastOf(toMain)' /\ (Told => Told')
  BY <1>6, <1>a, <1>t DEF ReaderReads, Command
<1>7. CASE ReaderSyncOffline
  BY <1>7, <1>a, <1>t DEF ReaderSyncOffline, Command
<1>8. CASE ReaderFails
  BY <1>8, <1>k, <1>t DEF ReaderFails
<1>9. CASE WriterSyncOffline \/ WriterTakes \/ WriterWrites \/ WriterFails
  BY <1>9, <1>k, <1>t DEF WriterSyncOffline, WriterTakes, WriterWrites, WriterFails
<1>10. ASSUME NEW x \in Thread, Exit(x) PROVE LastOf(toMain)' /\ (Told => Told')
  BY <1>10, <1>k, <1>t DEF Exit, KickTransport, KickFunc, TransportUnref, TransportClose, RemoveTransport
<1>11. CASE UNCHANGED <<toMain, pc>>
  BY <1>11, <1>k
<1> QED
  BY <1>1, <1>2, <1>3, <1>4, <1>5, <1>6, <1>7, <1>8, <1>9, <1>10, <1>11
     DEF Next, RegisterTransport, Registration, TransportListed, HandlePacket, Client, OpenStream, StreamSends,
         StreamCloses, MainKicks, ServiceKicks, MainKickFunc, ServiceKickFunc, Reader, ReaderResends, Writer,
         WriterSyncOnline, Finished

\* handle_offline has run before SYNC(0, 0) reaches the writer thread, and nothing comes
\* to the transport after it.
LEMMA OfflineStep ==
    ASSUME IInv, [Next]_vars PROVE OfflineInv'
<1> USE DEF Goto, vars, obj, queues, main, count, Thread
<1>r. LastOf(toMain)' /\ (Told => Told') /\ LastOf(toMain)
  BY ReaderStep DEF IInv, OfflineInv
<1>t. /\ toMain \in Seq(Command) /\ toWriter \in Seq(Command)
      /\ pc \in [Thread -> {"none", "done"} \union Live \union Closing]
      /\ NotStarted \/ Started
      /\ failed \in BOOLEAN /\ online \in BOOLEAN /\ bound \in BOOLEAN
  BY DEF IInv, TypeOK
<1>o. WriterOff => Told /\ toMain = <<>> /\ ~online /\ ~bound
  BY DEF IInv, OfflineInv
<1> SUFFICES (WriterOff => Told /\ toMain = <<>> /\ ~online /\ ~bound)'
  BY <1>r DEF OfflineInv
<1>k. ASSUME (WriterOff)' => WriterOff, WriterOff => toMain' = <<>> /\ ~online' /\ ~bound'
      PROVE (WriterOff => Told /\ toMain = <<>> /\ ~online /\ ~bound)'
  BY <1>k, <1>o, <1>r
<1>s. ASSUME (WriterOff)' => WriterOff, UNCHANGED <<toMain, online, bound>>
      PROVE (WriterOff => Told /\ toMain = <<>> /\ ~online /\ ~bound)'
  BY <1>k, <1>o, <1>s
<1>w. ASSUME Has(toWriter)' => Has(toWriter), UNCHANGED <<pc, failed>> PROVE (WriterOff)' => WriterOff
  BY <1>w DEF WriterOff
<1>0. Has(Append(toWriter, "DATA")) \/ Has(Append(toWriter, "CNXN")) \/ Has(Append(toWriter, "SYNC1"))
        \/ Has(toWriter \o ConnectMsgs) \/ Has(Append(toWriter, "SYNC1") \o ConnectMsgs)
        \/ Has(Append(toWriter, "SYNC1") \o <<>>)
        \/ (toWriter # <<>> /\ Has(Tail(toWriter))) => Has(toWriter)
  <2>1. {"DATA", "CNXN", "SYNC1"} \subseteq Command
    BY DEF Command
  <2>2. Append(toWriter, "SYNC1") \in Seq(Command) /\ Append(toWriter, "SYNC1") \o <<>> = Append(toWriter, "SYNC1")
    BY <1>t, <2>1
  <2> QED BY <1>t, <2>1, <2>2, HasLaws
<1>1. CASE TransportRegistered
  <2>1. NotStarted
    BY <1>1, <1>t DEF TransportRegistered, Started
  <2>2. ~(WriterOff)'
    BY <1>1, <2>1, HasLaws DEF TransportRegistered, NotStarted, WriterOff
  <2> QED BY <2>2
<1>2. CASE TransportRemoved
  <2>1. (WriterOff)' => WriterOff
    BY <1>2, HasLaws DEF TransportRemoved, WriterOff
  <2> QED BY <1>2, <1>k, <1>o, <2>1 DEF TransportRemoved
<1>3. CASE HandleSyncOnline \/ HandleCnxn
  <2>1. (WriterOff)' => WriterOff
    BY <1>3, <1>w, <1>0 DEF HandleSyncOnline, HandleCnxn
  <2>2. ~WriterOff
    BY <1>3, <1>o DEF HandleSyncOnline, HandleCnxn
  <2> QED BY <2>1, <2>2
<1>4. ASSUME NEW binds, NEW answers, HandleData(binds, answers)
      PROVE (WriterOff => Told /\ toMain = <<>> /\ ~online /\ ~bound)'
  <2>1. (WriterOff)' => WriterOff
    BY <1>4, <1>w, <1>0 DEF HandleData
  <2>2. ~WriterOff
    BY <1>4, <1>o DEF HandleData
  <2> QED BY <2>1, <2>2
<1>5. CASE HandleSyncOffline
  <2>1. toMain # <<>> /\ toMain[1] = "SYNC0"
    BY <1>5, <1>t DEF HandleSyncOffline
  <2>n. Len(toMain) \in Nat \ {0}
    BY <1>t, <2>1, EmptySeq, LenProperties
  <2>2. Told /\ Len(toMain) = 1
    <3>1. 1 \in 1..Len(toMain)
      BY <2>n
    <3> QED BY <1>r, <2>1, <3>1 DEF LastOf
  <2>3. Tail(toMain) = <<>>
    <3>1. Tail(toMain) \in Seq(Command) /\ Len(Tail(toMain)) = 0
      BY <1>t, <2>1, <2>2, HeadTailProperties
    <3> QED BY <3>1, EmptySeq
  <2> QED BY <1>5, <1>r, <2>2, <2>3 DEF HandleSyncOffline
<1>6. CASE OpenStream \/ StreamSends
  <2>1. (WriterOff)' => WriterOff
    BY <1>6, <1>w, <1>0 DEF OpenStream, StreamSends
  <2>2. ~WriterOff
    BY <1>6, <1>o DEF OpenStream, StreamSends
  <2> QED BY <2>1, <2>2
<1>7. CASE StreamCloses
  <2>1. (WriterOff)' => WriterOff
    BY <1>7, <1>w DEF StreamCloses
  <2> QED BY <1>7, <1>k, <1>o, <2>1 DEF StreamCloses
<1>8. CASE ReaderSyncOnline \/ ReaderSyncOffline
  <2>1. (WriterOff)' => WriterOff
    BY <1>8, <1>t DEF ReaderSyncOnline, ReaderSyncOffline, WriterOff
  <2>2. ~WriterOff
    BY <1>8, <1>o DEF ReaderSyncOnline, ReaderSyncOffline, Told, Closing
  <2> QED BY <2>1, <2>2
<1>9. ASSUME NEW c \in {"CNXN", "DATA"}, ReaderReads(c)
      PROVE (WriterOff => Told /\ toMain = <<>> /\ ~online /\ ~bound)'
  <2>1. (WriterOff)' => WriterOff
    BY <1>9, <1>w DEF ReaderReads
  <2>2. ~WriterOff
    BY <1>9, <1>o DEF ReaderReads, Told, Closing
  <2> QED BY <2>1, <2>2
<1>10. CASE ReaderResends
  BY <1>10, <1>w, <1>s, <1>0 DEF ReaderResends
<1>11. CASE ReaderFails
  <2>1. (WriterOff)' => WriterOff
    BY <1>11, <1>t DEF ReaderFails, WriterOff
  <2> QED BY <1>11, <1>s, <2>1 DEF ReaderFails
<1>12. CASE WriterSyncOnline
  <2>1. (WriterOff)' => WriterOff
    BY <1>12, <1>w, <1>0 DEF WriterSyncOnline
  <2> QED BY <1>12, <1>s, <2>1 DEF WriterSyncOnline
<1>13. CASE WriterSyncOffline
  <2>1. WriterOff
    BY <1>13, <1>t, HasLaws DEF WriterSyncOffline, WriterOff
  <2> QED BY <1>13, <1>s, <2>1 DEF WriterSyncOffline
<1>14. CASE WriterTakes \/ WriterWrites \/ WriterFails
  <2>1. (WriterOff)' => WriterOff
    BY <1>14, <1>t, <1>0 DEF WriterTakes, WriterWrites, WriterFails, WriterOff
  <2> QED BY <1>14, <1>s, <2>1 DEF WriterTakes, WriterWrites, WriterFails
<1>15. ASSUME NEW x \in Thread, Exit(x)
       PROVE (WriterOff => Told /\ toMain = <<>> /\ ~online /\ ~bound)'
  <2>1. (WriterOff)' => WriterOff
    BY <1>15, <1>t DEF Exit, KickTransport, KickFunc, TransportUnref, TransportClose, RemoveTransport, WriterOff
  <2> QED BY <1>15, <1>s, <2>1 DEF Exit, KickTransport, KickFunc, TransportUnref, TransportClose, RemoveTransport
<1>16. CASE UNCHANGED <<toMain, toWriter, pc, failed, online, bound>>
  BY <1>16, <1>s, <1>w
<1> QED
  BY <1>1, <1>2, <1>3, <1>4, <1>5, <1>6, <1>7, <1>8, <1>9, <1>10, <1>11, <1>12, <1>13, <1>14, <1>15, <1>16
     DEF Next, RegisterTransport, Registration, TransportListed, HandlePacket, Client, MainKicks, ServiceKicks,
         MainKickFunc, ServiceKickFunc, Reader, Writer, Finished

\* The transport that a main loop starts with satisfies the invariant.
LEMMA InitIInv == Init => IInv
<1> SUFFICES ASSUME Init PROVE IInv
  OBVIOUS
<1> USE DEF Init, Thread
<1>1. TypeOK
  <2>1. <<>> \in Seq({"add", "remove"}) /\ <<>> \in Seq(Command)
    OBVIOUS
  <2>2. pc \in [Thread -> {"none", "done"} \union Live \union Closing]
    OBVIOUS
  <2>3. lock \in {"free", "main", "service"} \union Thread
    OBVIOUS
  <2>4. closed \in BOOLEAN /\ active \in BOOLEAN /\ online \in BOOLEAN /\ bound \in BOOLEAN /\ resent \in BOOLEAN /\ failed \in BOOLEAN
    BY Zenon
  <2>5. refs \in 0..2 /\ ins \in Nat /\ outs \in Nat
    OBVIOUS
  <2>6. type \in {"usb", "local"} /\ where \in {"new", "pending", "listed", "deleted"} /\ kick \in {"no", "flag", "done"} /\ mpc \in {"loop", "list", "kicking"}
    OBVIOUS
  <2>7. regq = <<>> /\ toMain = <<>> /\ toWriter = <<>>
    OBVIOUS
  <2> HIDE DEF Init
  <2> QED
    BY <2>1, <2>2, <2>3, <2>4, <2>5, <2>6, <2>7 DEF TypeOK
<1>2. NotStarted
  BY DEF NotStarted
<1>3. LockInv
  BY DEF LockInv
<1>4. WriterInv
  BY DEF WriterInv, Closing
<1>5. OfflineInv
  BY HasLaws DEF OfflineInv, LastOf, WriterOff
<1> QED
  BY <1>1, <1>2, <1>3, <1>4, <1>5 DEF IInv

\* The invariant is inductive.
LEMMA Inductive == Spec => []IInv
<1>1. IInv /\ [Next]_vars => IInv'
  BY TypeStep, StartedStep, LockStep, WriterStep, OfflineStep DEF IInv
<1> QED
  BY InitIInv, <1>1, PTL DEF Spec

-----------------------------------------------------------------------------

\* Type correctness of the transport model, on the host and on the device.
THEOREM TransportTypes == Spec => []TypeOK
<1>1. IInv => TypeOK
  BY DEF IInv
<1> QED
  BY Inductive, <1>1, PTL

\* transport_unref's reference count does its work: when the main thread
\* deletes the transport, both of its threads have ended.
THEOREM ThreadsPin == Spec => []ThreadsPinTransport
<1>1. IInv => ThreadsPinTransport
  BY DEF IInv, NotStarted, Started, ThreadsPinTransport
<1> QED
  BY Inductive, <1>1, PTL

\* t->close runs after every kick and write: the handle it closes is used by
\* nobody else.
THEOREM CloseComesLast == Spec => []ClosedLast
<1>1. ASSUME IInv, closed PROVE ClosedLast
  <2>1. Started
    BY <1>1 DEF IInv, NotStarted
  <2>2. \A x \in Thread : pc[x] \in {"remove", "done"}
    BY <1>1 DEF IInv, WriterInv
  <2>3. kick = "done"
    BY <1>1, <2>2 DEF IInv, WriterInv, Closing, Thread
  <2>4. lock = "free"
    BY <1>1, <2>3 DEF IInv, LockInv
  <2> QED
    BY <2>2, <2>3, <2>4 DEF ClosedLast, Live
<1>2. IInv => ClosedLast
  BY <1>1 DEF ClosedLast
<1> QED
  BY Inductive, <1>2, PTL

\* handle_offline closes the sockets and runs the disconnects before the transport can
\* be deleted, unless a failing write has ended the writer thread: no other path from
\* the end of the reader thread to transport_registration_func leaves them out.
THEOREM OfflineFirst == Spec => []OfflineBeforeDelete
<1>1. ASSUME IInv, where = "deleted", bound PROVE failed
  <2>1. pc["writer"] = "done"
    BY <1>1 DEF IInv, NotStarted, Started, Thread
  <2>2. ~WriterOff
    BY <1>1 DEF IInv, OfflineInv
  <2> QED BY <2>1, <2>2 DEF WriterOff
<1>2. IInv => OfflineBeforeDelete
  BY <1>1 DEF OfflineBeforeDelete
<1> QED
  BY Inductive, <1>2, PTL
=============================================================================
