----------------------------- MODULE MCObjects ------------------------------
(***************************************************************************)
(* The objects threads wait on, each with the threads, priorities and      *)
(* waiting times that make its cases happen.  A behaviour is about one of  *)
(* them: kind says which, and the variables of the others are None.        *)
(***************************************************************************)
EXTENDS Integers, TLC

CONSTANTS
  Idle, Slice, Defunct,
  idle, a, b, c,     \* threads: b above a, and c above b where there is a c
  q1, q2,            \* the wait lists of the object
  v1, v2,              \* values, events, blocks and works
  None,
  NoThread, NoValue, NoWork, Wild

VARIABLES
  k, irq, pc, wait,
  kind,
  mtx, want, held,                   \* Mutex
  set, info, asked,                  \* Event
  mb, mail, got,                     \* Mailbox and Fmq; mail and got are DataQueue's too
  mq, hand, buf,                     \* MsgQueue, with got
  mp, used,                          \* MemPool
  completed, owed,                   \* Completion
  dq,                                \* DataQueue
  works, current, arg, ended,        \* WorkQueue
  flag, ring, amount                      \* Pipe

mutexVars      == <<mtx, want, held>>
eventVars      == <<set, info, asked>>
mailVars       == <<mail, got>>
msgVars        == <<mq, hand, buf>>
poolVars       == <<mp, used>>
completionVars == <<completed, owed>>
workVars       == <<works, current, arg, ended>>
pipeVars       == <<flag, ring, amount>>

vars == <<k, irq, pc, wait, kind, mutexVars, eventVars, mb, mailVars, msgVars, poolVars,
          completionVars, dq, workVars, pipeVars>>

-----------------------------------------------------------------------------
Forever == -1

\* Two threads above idle, and three.
Two == {idle, a, b}

TwoRanked == [t \in Two |-> CASE t = idle -> 2 [] t = a -> 1 [] t = b -> 0]

TwoOrder == <<idle, a, b>>

Three == {idle, a, b, c}

Ranked == [t \in Three |-> CASE t = idle -> 3 [] t = a -> 2 [] t = b -> 1 [] t = c -> 0]

\* a and b are equals.
Paired == [t \in Three |-> CASE t = idle -> 2 [] t = c -> 0 [] OTHER -> 1]

ThreeOrder == <<idle, a, b, c>>

\* No module tells the two values apart.
Symmetry == Permutations({v1, v2})

MX == INSTANCE Mutex WITH
  Thread <- Three, PrioMax <- 4, InitPrio <- Ranked, StartOrder <- ThreeOrder, MaxTick <- 1,
  Queue <- {q1}, Mutexes <- {q1}, Flag <- "PRIO", MaxHold <- 2, Times <- {Forever, 0, 1}

EV == INSTANCE Event WITH
  Thread <- Two, PrioMax <- 3, InitPrio <- TwoRanked, StartOrder <- TwoOrder,
  Flag <- "FIFO", MaxTick <- 1, Queue <- {q1}, Ev <- q1, Bit <- {v1, v2},
  Options <- [mode : {"AND", "OR"}, clear : BOOLEAN], Times <- {Forever, 0, 1}

MB == INSTANCE Mailbox WITH
  Thread <- Two, PrioMax <- 3, InitPrio <- TwoRanked, StartOrder <- TwoOrder,
  MaxTick <- 2, Queue <- {q1, q2}, Flag <- "FIFO", Times <- {Forever, 0, 2},
  Receivers <- q1, Senders <- q2, Mail <- {v1, v2}, NoMail <- NoValue, Size <- 2

FQ == INSTANCE Fmq WITH
  Thread <- Two, PrioMax <- 3, InitPrio <- TwoRanked, StartOrder <- TwoOrder,
  MaxTick <- 1, Queue <- {q1, q2},
  Receivers <- q1, Senders <- q2, Mail <- {v1, v2}, NoMail <- NoValue, Size <- 2,
  Times <- {Forever, 0, 1}, PeekTimes <- {0}, Flag <- "PRIO"

MQ == INSTANCE MsgQueue WITH
  Thread <- Two, PrioMax <- 3, InitPrio <- TwoRanked, StartOrder <- TwoOrder,
  Flag <- "FIFO", MaxTick <- 1, Queue <- {q1},
  Receivers <- q1, Msg <- {v1, v2}, NoMsg <- NoValue, MaxMsgs <- 2,
  Times <- {Forever, 0, 1}

MP == INSTANCE MemPool WITH
  Thread <- Three, PrioMax <- 3, InitPrio <- Paired, StartOrder <- ThreeOrder,
  Flag <- "FIFO", MaxTick <- 0, Queue <- {q1}, Pool <- q1,
  Blocks <- {v1, v2}, Times <- {Forever, 0}

CP == INSTANCE Completion WITH
  Thread <- Three, PrioMax <- 4, InitPrio <- Ranked, StartOrder <- ThreeOrder,
  Flag <- "FIFO", MaxTick <- 1, Queue <- {q1},
  Comp <- q1, Waiter <- b, Times <- {Forever, 0}

DQ == INSTANCE DataQueue WITH
  Thread <- Two, PrioMax <- 3, InitPrio <- TwoRanked, StartOrder <- TwoOrder,
  Queue <- {q1, q2}, Flag <- "FIFO", MaxTick <- 1,
  Pushers <- q1, Poppers <- q2, Data <- {v1, v2}, NoData <- NoValue, Size <- 3,
  Lwm <- 1, Width <- 8, MaxPut <- 5, Times <- {Forever, 0, 1}

WQ == INSTANCE WorkQueue WITH
  Thread <- Three, PrioMax <- 4, InitPrio <- Ranked, StartOrder <- ThreeOrder, MaxTick <- 1,
  Queue <- {q1}, Sem <- q1, Work <- {v1, v2}, Worker <- c, AnyClient <- FALSE

PI == INSTANCE Pipe WITH
  Thread <- Two, PrioMax <- 3, InitPrio <- TwoRanked, StartOrder <- TwoOrder, MaxTick <- 0,
  Queue <- {q1, q2}, Readers <- q1, Writers <- q2, Byte <- {NoValue}, Size <- 4,
  Amounts <- {1, 3, 5}, AnyUse <- FALSE,
  Flags <- {{"BLOCK_RD", "BLOCK_WR"}, {"BLOCK_RD"}, {"BLOCK_WR"}, {"BLOCK_RD", "FORCE_WR"}}

ASSUME ObjectsAssumption ==
  /\ MX!ConstantsOK /\ EV!ConstantsOK /\ MB!ConstantsOK /\ FQ!ConstantsOK /\ MQ!ConstantsOK
  /\ MP!ConstantsOK /\ CP!ConstantsOK /\ DQ!ConstantsOK /\ WQ!ConstantsOK
  /\ PI!ConstantsOK

-----------------------------------------------------------------------------
Nobody == wait = None

NoMutex == mtx = None /\ want = None /\ held = None

NoEvent == set = None /\ info = None /\ asked = None

NoMail == mail = None /\ got = None

NoMsg == mq = None /\ hand = None /\ buf = None

NoPool == mp = None /\ used = None

NoCompletion == completed = None /\ owed = None

NoWorks == works = None /\ current = None /\ arg = None /\ ended = None

NoPipe == flag = None /\ ring = None /\ amount = None

Init ==
  \/ /\ kind = "mutex" /\ MX!Init
     /\ Nobody /\ NoEvent /\ mb = None /\ NoMail /\ NoMsg /\ NoPool /\ NoCompletion /\ dq = None
     /\ NoWorks /\ NoPipe
  \/ /\ kind = "event" /\ EV!Init
     /\ Nobody /\ NoMutex /\ mb = None /\ NoMail /\ NoMsg /\ NoPool /\ NoCompletion /\ dq = None
     /\ NoWorks /\ NoPipe
  \/ /\ kind \in {"mailbox", "fmq"} /\ MB!Init
     /\ NoMutex /\ NoEvent /\ NoMsg /\ NoPool /\ NoCompletion /\ dq = None /\ NoWorks /\ NoPipe
  \/ /\ kind = "msgqueue" /\ MQ!Init
     /\ NoMutex /\ NoEvent /\ mb = None /\ mail = None /\ NoPool /\ NoCompletion /\ dq = None
     /\ NoWorks /\ NoPipe
  \/ /\ kind = "mempool" /\ MP!Init
     /\ NoMutex /\ NoEvent /\ mb = None /\ NoMail /\ NoMsg /\ NoCompletion /\ dq = None /\ NoWorks /\ NoPipe
  \/ /\ kind = "completion" /\ CP!Init
     /\ NoMutex /\ NoEvent /\ mb = None /\ NoMail /\ NoMsg /\ NoPool /\ dq = None /\ NoWorks /\ NoPipe
  \/ /\ kind = "dataqueue" /\ DQ!Init
     /\ NoMutex /\ NoEvent /\ mb = None /\ NoMsg /\ NoPool /\ NoCompletion /\ NoWorks /\ NoPipe
  \/ /\ kind = "workqueue" /\ WQ!Init
     /\ Nobody /\ NoMutex /\ NoEvent /\ mb = None /\ NoMail /\ NoMsg /\ NoPool /\ NoCompletion
     /\ dq = None /\ NoPipe
  \/ /\ kind = "pipe" /\ PI!Init
     /\ Nobody /\ NoMutex /\ NoEvent /\ mb = None /\ NoMail /\ NoMsg /\ NoPool /\ NoCompletion
     /\ dq = None /\ NoWorks

Next ==
  /\ \/ /\ kind = "mutex" /\ MX!Next
        /\ UNCHANGED <<wait, eventVars, mb, mailVars, msgVars, poolVars, completionVars, dq, workVars, pipeVars>>
     \/ /\ kind = "event" /\ EV!Next
        /\ UNCHANGED <<wait, mutexVars, mb, mailVars, msgVars, poolVars, completionVars, dq, workVars, pipeVars>>
     \/ /\ kind = "mailbox" /\ MB!Next
        /\ UNCHANGED <<mutexVars, eventVars, msgVars, poolVars, completionVars, dq, workVars, pipeVars>>
     \/ /\ kind = "fmq" /\ FQ!FmqNext
        /\ UNCHANGED <<mutexVars, eventVars, msgVars, poolVars, completionVars, dq, workVars, pipeVars>>
     \/ /\ kind = "msgqueue" /\ MQ!Next
        /\ UNCHANGED <<mutexVars, eventVars, mb, mail, poolVars, completionVars, dq, workVars, pipeVars>>
     \/ /\ kind = "mempool" /\ MP!Next
        /\ UNCHANGED <<mutexVars, eventVars, mb, mailVars, msgVars, completionVars, dq, workVars, pipeVars>>
     \/ /\ kind = "completion" /\ CP!Next
        /\ UNCHANGED <<mutexVars, eventVars, mb, mailVars, msgVars, poolVars, dq, workVars, pipeVars>>
     \/ /\ kind = "dataqueue" /\ DQ!Next
        /\ UNCHANGED <<mutexVars, eventVars, mb, msgVars, poolVars, completionVars, workVars, pipeVars>>
     \/ /\ kind = "workqueue" /\ WQ!Next
        /\ UNCHANGED <<wait, mutexVars, eventVars, mb, mailVars, msgVars, poolVars, completionVars, dq,
                      pipeVars>>
     \/ /\ kind = "pipe" /\ PI!Next
        /\ UNCHANGED <<wait, mutexVars, eventVars, mb, mailVars, msgVars, poolVars, completionVars, dq,
                      workVars>>
  /\ UNCHANGED kind

Spec == Init /\ [][Next]_vars

-----------------------------------------------------------------------------
\* The state of each object has the types of its C structure; in particular counts
\* stay within the size of the object.
TypeOK ==
  /\ kind = "mutex" => MX!TypeOK
  /\ kind = "event" => EV!TypeOK
  /\ kind = "mailbox" => MB!TypeOK
  /\ kind = "fmq" => FQ!FmqTypeOK
  /\ kind = "msgqueue" => MQ!TypeOK
  /\ kind = "mempool" => MP!TypeOK
  /\ kind = "completion" => CP!TypeOK
  /\ kind = "dataqueue" => DQ!TypeOK
  /\ kind = "workqueue" => WQ!TypeOK
  /\ kind = "pipe" => PI!TypeOK

\* The wait lists hold exactly the threads suspended in a call on the object, and
\* agree with the ready lists and the timers.
WaitersExact ==
  /\ kind = "mutex" => MX!WaitersExact
  /\ kind = "event" => EV!WaitersExact
  /\ kind = "mailbox" => MB!WaitersExact
  /\ kind = "fmq" => FQ!WaitersExact
  /\ kind = "msgqueue" => MQ!WaitersExact
  /\ kind = "mempool" => MP!WaitersExact
  /\ kind = "completion" => CP!WaitersExact
  /\ kind = "dataqueue" => DQ!WaitersExact
  /\ kind = "workqueue" => WQ!WaitersExact
  /\ kind = "pipe" => PI!WaitersExact

\* Nobody sleeps on what is there: a mail, a free slot or block, an event, a
\* completion, a work, without a resumed thread on its way to it.
NoLostWakeup ==
  /\ kind = "event" => EV!NoMissedEvent
  /\ kind = "mailbox" => MB!NoLostWakeup
  /\ kind = "fmq" => FQ!NoLostWakeup
  /\ kind = "msgqueue" => MQ!NoLostWakeup
  /\ kind = "mempool" => MP!NoLostWakeup
  /\ kind = "completion" => CP!NoLostWakeup
  /\ kind = "dataqueue" => DQ!NoLostWakeup
  /\ kind = "workqueue" => WQ!NoLostWakeup
  /\ kind = "pipe" => PI!NoLostWakeup

\* A call that is resumed and has to wait again sleeps until exactly the time its
\* caller asked for.
TimeKeeps == kind \in {"mailbox", "fmq", "msgqueue"} => MB!TimeoutKept

\* No block of a message queue or a memory pool is lost or shared.
BlocksPartitioned ==
  /\ kind = "msgqueue" => MQ!BlocksPartitioned
  /\ kind = "mempool" => MP!BlocksPartitioned

\* The ring of a mailbox, of a FreeRTOS queue and of a data queue, and the pointers of
\* a message queue, implement a first-in first-out queue: nothing is lost, delivered
\* twice, changed or out of order, however calls, resets and time-outs interleave.
IsFifo ==
  /\ kind = "mailbox" => MB!Promise!Init
  /\ kind = "fmq" => FQ!FmqPromise!Init
  /\ kind = "msgqueue" => MQ!Promise!Init
  /\ kind = "dataqueue" => DQ!Promise!Init
  /\ [][/\ kind = "mailbox" => MB!Promise!Next \/ UNCHANGED <<MB!Contents, got>>
        /\ kind = "fmq" => FQ!FmqPromise!Next \/ UNCHANGED <<FQ!Contents, got>>
        /\ kind = "msgqueue" => MQ!Promise!Next \/ UNCHANGED <<MQ!Contents, got>>
        /\ kind = "dataqueue" => DQ!Promise!Next \/ UNCHANGED <<DQ!Contents, got>>]_vars

\* A mutex and its threads agree on who holds it and how often.
OwnershipExact == kind = "mutex" => MX!OwnershipExact

\* A thread that owns no mutex runs at its own priority.
OwnPriority == kind = "mutex" => MX!OwnPriority


\* A receive that waited reports events it asked for.
ReportsWhatWasAsked == kind = "event" => EV!ReportsWhatWasAsked

\* What a waiter that clears has received is gone from the events.
ClearsWhatItGives == [][kind = "event" => EV!ClearsStep]_vars

\* The worker has a work to do when it takes one, and when the call that cancels a
\* work and waits for its end returns, the work is neither waiting nor being done.
WorkSound == kind = "workqueue" => WQ!HasWork /\ WQ!CancelHolds
=============================================================================
