------------------------------- MODULE SysStat -------------------------------
(***************************************************************************)
(* system/cpu_usage.cc and mem_usage.cc: figures that are read from /proc  *)
(* while processes run, end, and give their number to others.  Time is in  *)
(* ticks of times(); a uint64_t wraps at 2^Width.                          *)
(***************************************************************************)
EXTENDS Naturals

CONSTANTS Cpus, Hertz, Width,
          EndOfTime,  \* bound
          Sleep       \* usleep, in ticks, at least

VARIABLE s  \* [now, total, p, r]

Minus(a, b) == (a + 2^Width - b) % 2^Width

\* The process: which life of its number this is (0 when there is none), when it started, what
\* it used itself, what its children that it has waited for used, and what one thread used.
NoProcess == [life |-> 0, start |-> 0, own |-> 0, waited |-> 0, thread |-> 0]
NotRunning == [pc |-> "idle", of |-> "process", t1 |-> 0, t2 |-> 0, p1 |-> 0, p2 |-> 0,
               life |-> 0, waited |-> 0, at |-> 0, exact |-> FALSE, cpu |-> 0, same |-> FALSE]
Init == s = [now |-> 0, total |-> 0, lives |-> 1, p |-> [NoProcess EXCEPT !.life = 1], r |-> NotRunning]

\* A tick: every processor counts it, as user or idle time; the time of a guest system is in
\* user and in guest, and is added twice.
Tick == /\ s.now < EndOfTime
        /\ \E used \in 0..Cpus, guest \in 0..1, waits \in 0..1 :
             s' = [s EXCEPT !.now = @ + 1, !.total = @ + Cpus + guest,
                            !.p = IF @.life = 0 THEN @
                                  ELSE [@ EXCEPT !.own = @ + used, !.thread = @ + (IF used > 0 THEN 1 ELSE 0),
                                                 !.waited = @ + 2 * waits],
                            !.r.exact = @ /\ guest = 0 /\ waits = 0]
Exit == s.p.life # 0 /\ s' = [s EXCEPT !.p = NoProcess]
Start == /\ s.p.life = 0 /\ s.lives < 2
         /\ s' = [s EXCEPT !.lives = @ + 1, !.p = [NoProcess EXCEPT !.life = s.lives + 1, !.start = s.now]]

\* GetTotalCpuTime
TotalCpuTime == s.total
\* IsPathValid; OpenAndReadFile, SkipBracket and StringToUINT64: the fields utime, stime, cutime
\* and cstime of the file of the process, or of a thread.
IsPathValid == s.p.life # 0
FileOf(of) == IF of = "process" THEN [times |-> s.p.own, children |-> s.p.waited]
              ELSE [times |-> s.p.thread, children |-> 0]
\* GetProcessCpuTime and GetThreadCpuTime, which leaves the children out.
\* Variant: the children are left out the second time.
CpuTimeOwn(of) == FileOf(of).times + (IF s.r.pc = "process" THEN FileOf(of).children ELSE 0)
CpuTime(of)    == FileOf(of).times + FileOf(of).children

\* GetProcessCpuUsage and GetThreadCpuUsage: the total before the process, each time.
First == \E of \in {"process", "thread"} :
           /\ s.r.pc = "idle"
           /\ s' = [s EXCEPT !.r = [NotRunning EXCEPT !.pc = "process", !.of = of, !.t1 = TotalCpuTime,
                                                      !.at = s.now, !.exact = TRUE]]
Failed == s' = [s EXCEPT !.r = [NotRunning EXCEPT !.pc = "failed"]]
FirstProcess ==
  /\ s.r.pc = "process"
  /\ IF ~IsPathValid THEN Failed
     ELSE s' = [s EXCEPT !.r.pc = "asleep", !.r.p1 = CpuTime(s.r.of), !.r.life = s.p.life,
                         !.r.exact = @ /\ s.now = s.r.at, !.r.at = s.now]
Second ==
  /\ s.r.pc = "asleep" /\ s.now >= s.r.at + Sleep
  /\ s' = [s EXCEPT !.r.pc = "again", !.r.t2 = TotalCpuTime, !.r.at = s.now]
\* 100 * (p2 - p1) / (t2 - t1) * processors, here rounded down; the same total is an error.
SecondProcess ==
  /\ s.r.pc = "again"
  /\ IF ~IsPathValid \/ s.r.t2 = s.r.t1 THEN Failed
     ELSE s' = [s EXCEPT !.r.pc = "done", !.r.p2 = CpuTime(s.r.of),
                         !.r.cpu = (100 * Minus(CpuTime(s.r.of), s.r.p1) * Cpus) \div Minus(s.r.t2, s.r.t1),
                         !.r.same = s.p.life = s.r.life,
                         !.r.exact = @ /\ s.now = s.r.at]
\* The caller takes the result.
Return == s.r.pc \in {"done", "failed"} /\ s' = [s EXCEPT !.r = NotRunning]

\* GetCpuUsageSinceLastCall, which GetCpuUsage calls: the average since the process started, in
\* seconds of its life, and not since the last call.  Per mille.
SinceStart ==
  LET seconds == Minus(s.now \div Hertz, s.p.start \div Hertz)
  IN IF seconds = 0 THEN 0 ELSE ((CpuTime("process") * 1000) \div Hertz) \div seconds

\* GetMemoryUsedKiloBytes, GetMemoryUsedBytes: pages of 4 K.
KiloBytes(pages) == pages * 4
Bytes(pages)     == KiloBytes(pages) * 1024

Next == Tick \/ Exit \/ Start \/ First \/ FirstProcess \/ Second \/ SecondProcess \/ Return
-----------------------------------------------------------------------------
\* If each pair of figures was read in one tick, of one life of the process, with no guest
\* system and no child waited for in between, the usage is between none and all of the
\* processors, and of a thread that of one.  (In any other case it can be anything: a number
\* that another process has taken wraps below zero.)  The average since the start is at most
\* twice all processors, as the parts of seconds of both ends are cut off.
UsageRight ==
  /\ s.r.pc = "done" /\ s.r.same /\ s.r.exact =>
       s.r.cpu <= 100 * (IF s.r.of = "thread" THEN 1 ELSE Cpus)
  /\ s.r.pc = "done" /\ s.r.same => Minus(s.r.p2, s.r.p1) = s.r.p2 - s.r.p1
  /\ s.p.life # 0 /\ s.p.waited = 0 => SinceStart <= 1000 * Cpus * 2
=============================================================================
