------------------------------- MODULE Library -------------------------------
(***************************************************************************)
(* The components of the library that keep a state of their own, side by   *)
(* side: a behavior is that of one of them.  part says which, and s is its *)
(* state.                                                                  *)
(***************************************************************************)
EXTENDS Naturals, Sequences, SequencesExt

CONSTANTS
  Parts,                                      \* the components that are there
  Fds, INIT_EVENTS, Growth, MaxList,          \* EventTable
  init_size, READBYTES, Copied, Arriving,     \* Streams
  Align, MaxBytes, PerChunk, Sizes, MaxChunks, \* Memory
  Conns, Paths, MAX_BODY_SIZE, MaxFds, MaxSize, Requests,   \* WebServer
  Readers, Writers,                           \* RwLock
  Workers, queue_size, Tasks,                 \* Pools
  Askers, Rate, SecondTicks, Slack, Boot, EndOfClock,       \* Clock
  Threads, Names, Logged, Reload, Period, Configured, EndOfLog, Lines  \* Logger

VARIABLES part, s
vars == <<part, s>>

Table == INSTANCE EventTable
Bytes == INSTANCE Streams
Heap  == INSTANCE Memory
Web   == INSTANCE WebServer
Lock  == INSTANCE RwLock
Pool  == INSTANCE Pools WITH Threads <- Workers
Time  == INSTANCE Clock WITH Readers <- Askers, EndOfTime <- EndOfClock
Logs  == INSTANCE Logger WITH EndOfTime <- EndOfLog

Init == /\ part \in Parts
        /\ \/ part = "table" /\ Table!Init
           \/ part = "bytes" /\ Bytes!Init
           \/ part = "heap" /\ Heap!Init
           \/ part = "web" /\ Web!Init
           \/ part = "lock" /\ Lock!Init
           \/ part = "pool" /\ Pool!Init
           \/ part = "time" /\ Time!Init
           \/ part = "logs" /\ Logs!Init
In(p) == part = p /\ UNCHANGED part
Next == \/ In("table") /\ Table!Next
        \/ In("bytes") /\ Bytes!Next
        \/ In("heap") /\ Heap!Next
        \/ In("web") /\ Web!Next
        \/ In("lock") /\ Lock!Next
        \/ In("pool") /\ Pool!Next
        \/ In("time") /\ Time!Next
        \/ In("logs") /\ Logs!Next

\* The loop's thread runs, stop_loop does its second step, and so do the pool's threads, that of
\* one the lock is free for: the scheduler runs every thread.
Fairness == /\ WF_vars(In("table") /\ Table!Loop)
            /\ WF_vars(In("table") /\ s.stop = "flag" /\ Table!StopLoop)
            /\ \A t \in Workers : /\ SF_vars(In("pool") /\ Pool!Locked(t))
                                  /\ WF_vars(In("pool") /\ Pool!Wait(t))
                                  /\ WF_vars(In("pool") /\ Pool!Run(t))
Spec == Init /\ [][Next]_vars /\ Fairness
-----------------------------------------------------------------------------
\* The event loop's table agrees with epoll (event_loop.cc:137-448).
TableSound == part = "table" => Table!TableSound
\* A loop that is told to stop ends, though it may be in epoll_wait (event_loop.cc:539-561).
LoopEnds == (part = "table" /\ s.stop = "told") ~> (part = "table" /\ s.loop = "ended")

\* No byte is lost, repeated or overtaken between the socket and the parser (buffer.h:41-137).
UnreadKept == part = "bytes" => Bytes!UnreadKept
\* Nor between the handler and the socket (connector.cc:193-237).
WrittenInOrder == part = "bytes" => Bytes!WrittenInOrder
\* Parse hands the parser what is unread (http_server.cc:80-109).
ParserSeesUnread == part = "bytes" => Bytes!ParserSeesUnread

\* Blocks of memory that are out do not overlap (memory_pool.cc:38-112).
BlocksApart == part = "heap" => Heap!BlocksApart

\* A message is freed once, whatever closes the connection (http_server.cc:48-158).
MessagesFreedOnce == part = "web" => Web!MessagesFreedOnce
\* A peer gets the answer to its first request, then the close (http_server.cc:112-158).
AnsweredOnce == part = "web" => Web!AnsweredOnce

\* A writer is alone (rw_locker.h:26-49).
Excludes == part = "lock" => Lock!Excludes

\* No task is lost, doubled or overtaken, nor one added that the queue has no room for
\* (thread_pool.cc:64-111).
TasksInOrder == part = "pool" => Pool!TasksInOrder
\* What was added is started unless the pool is destroyed: no wake-up is lost.  (All of it at one
\* time: the tasks of a run are bounded.)
TaskStarted == (part = "pool" /\ s.added # <<>>)
                 ~> (part = "pool" /\ (s.shutdown \/ ToSet(s.added) \subseteq ToSet(s.started)))

\* No clock goes back or runs ahead (time_provider.cc:41-120, time_t.cc).
ClockRight == part = "time" => Time!ClockRight

\* No line of a level that is switched off for long, none in the file of an earlier period
\* (logging.cc:108-243).
LinesRight == part = "logs" => Logs!LinesRight

-----------------------------------------------------------------------------
(* What the components promise together.                                   *)

\* What the program keeps its data in stays sound, in whatever order it is called and however it
\* grows: the table of events against epoll, the bytes of a connection on their way in and out
\* against those that were sent, and the blocks of the memory pool against each other
\* (event_loop.cc:137-448, buffer.h:41-137, connector.cc:193-237, memory_pool.cc:38-112).
DataSound == /\ TableSound
             /\ UnreadKept /\ WrittenInOrder /\ ParserSeesUnread
             /\ BlocksApart

\* What threads share without knowing of each other is right in every interleaving: a writer is
\* alone, tasks start once and in order, no clock goes back, and lines are those that the
\* configuration asks for (rw_locker.h:26-49, thread_pool.cc:64-111, time_provider.cc:41-120,
\* logging.cc:108-243).
ThreadsRight == Excludes /\ TasksInOrder /\ ClockRight /\ LinesRight

\* A request is served once: its message is freed once and its peer hears once, whatever closes
\* the connection while requests wait (http_server.cc:48-158).
RequestsServed == MessagesFreedOnce /\ AnsweredOnce

\* A loop that is told to stop ends, and a task that was added starts (event_loop.cc:539-561,
\* thread_pool.cc:64-111).
Progress == LoopEnds /\ TaskStarted
=============================================================================
