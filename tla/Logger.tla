-------------------------------- MODULE Logger --------------------------------
(***************************************************************************)
(* log/logging.cc: loggers by name, a level that is read again from        *)
(* log.conf, files that are named by the time.  Several threads log; only  *)
(* getLog and the writing of a line hold a mutex.                          *)
(***************************************************************************)
EXTENDS Integers, Sequences, FiniteSets

CONSTANTS Threads, Names,
          Logged,    \* levels of the lines of a run
          Reload,    \* the seconds between two readings of log.conf, 10 in check_loginfo
          Period,    \* the seconds of the period that names a file
          Configured,\* what log.conf may say: a sequence of values, "" if there is no such file
          EndOfTime, \* bound
          Lines      \* bound: lines of a run

VARIABLE s  \* [now, conf, since, overtaken, logger, t, log]; overtaken, a history: the clock has moved
            \* while a thread was between the time it checked and the test of the level

Levels   == <<"DEBUG", "INFO", "WARN", "ERROR">>
LEVEL(w) == CHOOSE i \in 1..4 : Levels[i] = w
Modes    == {"NONE", "PERIOD"}  \* SPLIT_NONE; month, day or hour
NONE     == -1

\* get_level_by_name; a value is <<characters before the first letter, word>>: more than one
\* such character hides the word, as the index and the pointer both advance.
get_level_by_name(v) == IF v[1] <= 1 /\ \E i \in 1..4 : Levels[i] = v[2] THEN LEVEL(v[2]) ELSE NONE

\* The level after log.conf is read: the last line that names a level wins.
ReadConf(level, conf) ==
  LET good == {i \in 1..Len(conf) : get_level_by_name(conf[i]) # NONE}
  IN IF good = {} THEN level ELSE get_level_by_name(conf[CHOOSE i \in good : \A j \in good : j <= i])

Idle == [pc |-> "idle", name |-> "", level |-> 0, first |-> TRUE, checked |-> 0, read |-> 0,
         stamp |-> 0, file |-> 0]
Init == \E c \in Configured :
          s = [now |-> Reload + 1, conf |-> c, since |-> 0, overtaken |-> FALSE, log |-> {},
               logger |-> [n \in Names |-> [mode |-> "no", level |-> LEVEL("INFO"), updated |-> 0]],
               t |-> [p \in Threads |-> Idle]]

At(p, pc) == s.t[p].pc = pc
Mine(p)   == s.logger[s.t[p].name]

\* LoggerFactory::getLog, under logMutex: a name has one logger, and the mode of its first use.
getLog(p) ==
  \E n \in Names, l \in Logged, m \in Modes :
    /\ At(p, "idle") /\ Cardinality(s.log) < Lines
    /\ s' = [s EXCEPT !.logger[n].mode = IF @ = "no" THEN m ELSE @,
                      !.t[p] = [Idle EXCEPT !.pc = "check", !.name = n, !.level = l]]

\* check_loginfo, which a line calls twice, from getLevel and from debug, info, warn or error: it
\* reads the time, then the file, sets the level if one is named, then the time; no mutex is held.
Check(p) ==
  /\ At(p, "check")
  /\ s' = [s EXCEPT !.t[p].pc = IF s.now - Mine(p).updated > Reload THEN "read" ELSE "test",
                    !.t[p].checked = s.now]
Read(p)   == At(p, "read") /\ s' = [s EXCEPT !.t[p].pc = "set", !.t[p].read = ReadConf(NONE, s.conf)]
Set(p)    == /\ At(p, "set")
             /\ s' = [s EXCEPT !.t[p].pc = "update",
                               !.logger[s.t[p].name].level = IF s.t[p].read = NONE THEN @ ELSE s.t[p].read]
\* Variant: the time of the next reading is set instead.
UpdateAhead(p) == /\ At(p, "update")
                  /\ s' = [s EXCEPT !.t[p].pc = "test", !.logger[s.t[p].name].updated = s.t[p].checked + Reload]
Update(p) == /\ At(p, "update")
             /\ s' = [s EXCEPT !.t[p].pc = "test", !.logger[s.t[p].name].updated = s.t[p].checked]

\* The macros of logging.h test the level, then call debug, info, warn or error, which check and
\* test again.
Silent(p) == s.t[p].level < Mine(p).level
Macro(p) == /\ At(p, "test") /\ s.t[p].first
            /\ s' = [s EXCEPT !.t[p] = IF Silent(p) THEN Idle ELSE [@ EXCEPT !.pc = "check", !.first = FALSE]]
Method(p) == /\ At(p, "test") /\ ~s.t[p].first
             /\ s' = [s EXCEPT !.t[p] = IF Silent(p) THEN Idle ELSE [@ EXCEPT !.pc = "prefix"]]

\* set_msg_prefix and set_filename_by_savemode read the time, one after the other.
Prefix(p) == At(p, "prefix") /\ s' = [s EXCEPT !.t[p].pc = "file", !.t[p].stamp = s.now]
Name(p) ==
  /\ At(p, "file")
  /\ s' = [s EXCEPT !.t[p].pc = "write", !.t[p].file = IF Mine(p).mode = "NONE" THEN 0 ELSE s.now \div Period]

\* The rest of output, under writeMutex.
Write(p) ==
  LET c == s.t[p]
  IN /\ At(p, "write")
     /\ s' = [s EXCEPT !.t[p] = Idle,
                       !.log = @ \cup {[name |-> c.name, level |-> c.level, checked |-> c.checked,
                                        stamp |-> c.stamp, file |-> c.file]}]

\* The clock, and one change of log.conf in a run.
Checking == \E p \in Threads : s.t[p].pc \in {"read", "set", "update", "test"}
Tick == s.now < EndOfTime /\ s' = [s EXCEPT !.now = @ + 1, !.overtaken = @ \/ Checking]
Configure == \E c \in Configured :
               s.since = 0 /\ s' = [s EXCEPT !.conf = c, !.since = s.now]

Step(p) == getLog(p) \/ Check(p) \/ Read(p) \/ Set(p) \/ Update(p)
           \/ Macro(p) \/ Method(p) \/ Prefix(p) \/ Name(p) \/ Write(p)
Next == (\E p \in Threads : Step(p)) \/ Tick \/ Configure
Spec == Init /\ [][Next]_s
-----------------------------------------------------------------------------
\* A level that log.conf has switched off for longer than Reload leaves no line, however the
\* unlocked checks of several threads interleave, as long as none of them is held up in its check
\* for a second: one that is may set a level that it read before the change.  And a line is never
\* in the file of a period before the one it is stamped with, whoever is held up.
LinesRight ==
  \A l \in s.log :
    /\ ~s.overtaken /\ s.since > 0 /\ l.checked > s.since + Reload => l.level >= ReadConf(1, s.conf)
    /\ l.file # 0 => l.file >= l.stamp \div Period
=============================================================================
