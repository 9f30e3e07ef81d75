-------------------------------- MODULE Clock --------------------------------
(***************************************************************************)
(* base/time_provider.cc: one thread keeps the time in two slots, readers  *)
(* take the seconds from the current one without a lock.  And              *)
(* TimeT::get_timeofday of base/time_t.cc, for one thread, which counts    *)
(* cycles of the processor between two calls of gettimeofday.  The clock   *)
(* of the system is not set back; the processor counts Rate cycles a tick; *)
(* a reader that took the index before the slots were turned is done when  *)
(* the thread, which waits 800 ms in between, fills the next one.          *)
(***************************************************************************)
EXTENDS Integers

CONSTANTS Readers,
          Rate,        \* cycles in a tick, which stands for a microsecond
          SecondTicks, \* ticks of a second
          Slack,       \* the 800 of get_timeofday
          Boot,        \* cycles before the program started
          EndOfTime    \* bound

VARIABLE s  \* [kind, now, tv, tsc, idx, pc, since, cycle, r, t]; kind: the clock of this run

Tsc == Boot + s.now * Rate
\* TimeProvider(), getInstance; the thread starts.  -1: no answer yet.
Reader == [pc |-> "idle", i |-> 0, asked |-> 0, got |-> -1, last |-> -1, ms |-> -1]
Init == \E k \in {"provider", "kept"} :
        s = [kind |-> k, since |-> 0, now |-> 1, tv |-> [i \in 0..1 |-> 1], tsc |-> [i \in 0..1 |-> 0], idx |-> 0, pc |-> "write",
             cycle |-> 0, r |-> [q \in Readers |-> Reader],
             t |-> [cycle |-> FALSE, first |-> -1, tsc |-> 0, last |-> -1, got |-> -1, gotLast |-> -1]]

Tick == s.now < EndOfTime /\ s' = [s EXCEPT !.now = @ + 1]

\* setTsc: integers are divided, a few microseconds by thousands of cycles, so that the result
\* is 0 until a cycle lasts a microsecond.
\* Variant: the division of the real numbers, here rounded up.
CycleReal(us, cycles) == IF us = 0 THEN 0 ELSE 1
CycleOf(us, cycles)   == us \div cycles
setTsc(x, i) ==
  [x EXCEPT !.tsc[i] = Tsc,
            !.cycle = IF x.tsc[1 - i] = 0 \/ x.tsc[i] = 0 THEN 0
                      ELSE CycleOf(x.tv[i] - x.tv[1 - i], Tsc - x.tsc[1 - i])]
\* run: the slot that is not current gets the time, then becomes current; then the thread waits
\* (cv.wait_for), longer than a tick.  A reader that is held up over that wait could go back.
Due  == s.pc = "write" /\ s.since < s.now /\ \A q \in Readers : s.r[q].pc = "index" => s.r[q].i = s.idx
Fill == Due /\ s' = setTsc([s EXCEPT !.tv[1 - s.idx] = s.now, !.pc = "flip"], 1 - s.idx)
\* Variant: the other way round.
FlipFirst == \/ Due /\ s' = [s EXCEPT !.idx = 1 - @, !.pc = "flip"]
             \/ s.pc = "flip" /\ s' = setTsc([s EXCEPT !.tv[s.idx] = s.now, !.pc = "write", !.since = s.now], s.idx)
Flip == \/ Fill
        \/ s.pc = "flip" /\ s' = [s EXCEPT !.idx = 1 - @, !.pc = "write", !.since = s.now]

\* getNow: the index, then the slot; the thread may run in between, more than once.
LoadIndex(q) == /\ s.r[q].pc = "idle"
                /\ s' = [s EXCEPT !.r[q].pc = "index", !.r[q].i = s.idx, !.r[q].last = s.r[q].got]
LoadTime(q)  == s.r[q].pc = "index" /\ s' = [s EXCEPT !.r[q].pc = "idle", !.r[q].got = s.tv[s.r[q].i] \div SecondTicks]

\* getNow(tv) and getNowMs: the parameter hides the member, so what is copied is the caller's own
\* memory (0 here), to which addTimeOffset adds; only a cycle of 0 makes it ask the system instead.
addTimeOffset(i) == ((Tsc - s.tsc[i]) \div Rate) * s.cycle
getNowMs(q) == /\ s.r[q].pc = "idle"
               /\ s' = [s EXCEPT !.r[q].asked = s.now,
                                 !.r[q].ms = IF s.cycle # 0 THEN addTimeOffset(s.idx) ELSE s.now]

\* TimeT::get_timeofday: until a second has passed since the first call it asks the system; then
\* only when the cycles since it last asked make more than Slack.
Calibrate == LET first == IF s.t.first = -1 THEN s.now ELSE s.t.first
             IN /\ ~s.t.cycle
                /\ s' = [s EXCEPT !.t = [@ EXCEPT !.first = first, !.got = s.now, !.gotLast = s.t.got, !.last = s.now,
                                                  !.cycle = s.now \div SecondTicks - first \div SecondTicks >= 1]]
get_timeofday ==
  /\ s.t.cycle
  /\ LET offset == (Tsc - s.t.tsc) \div Rate
         last   == IF offset > Slack THEN s.now ELSE s.t.last
     IN s' = [s EXCEPT !.t = [@ EXCEPT !.tsc = IF offset > Slack THEN Tsc ELSE s.t.tsc, !.last = last,
                                       !.got = last, !.gotLast = s.t.got]]

Next == \/ Tick
        \/ s.kind = "kept" /\ (Calibrate \/ get_timeofday)
        \/ s.kind = "provider" /\ (Flip \/ \E q \in Readers : LoadIndex(q) \/ LoadTime(q) \/ getNowMs(q))
Spec == Init /\ [][Next]_s
-----------------------------------------------------------------------------
\* The seconds a reader gets never go back, wherever the thread fills or turns the slots between the
\* index and the slot (time_provider.h:65), and never are later than now; milliseconds are those of the call.
ProviderRight ==
  \A q \in Readers :
    /\ s.r[q].pc = "idle" => s.r[q].last <= s.r[q].got /\ s.r[q].got <= s.now \div SecondTicks
    /\ s.r[q].ms # -1 => s.r[q].ms = s.r[q].asked
\* get_timeofday does not go back either, whether the time is asked for or kept.
KeptTimeRight == s.t.gotLast <= s.t.got /\ s.t.got <= s.now
ClockRight == ProviderRight /\ KeptTimeRight
=============================================================================
