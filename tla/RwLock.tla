-------------------------------- MODULE RwLock --------------------------------
(***************************************************************************)
(* base/rw_locker.h: a lock of two mutexes; the first reader takes the     *)
(* mutex of the writers and the last one gives it back.                    *)
(***************************************************************************)
EXTENDS Naturals

CONSTANTS Readers, Writers
VARIABLE s  \* [pc, read_mtx, write_mtx, read_cnt]; a mutex is taken or not

Init == s = [pc |-> [t \in Readers \cup Writers |-> "out"], read_mtx |-> FALSE,
             write_mtx |-> FALSE, read_cnt |-> 0]

At(t, from, to) == s.pc[t] = from /\ s' = [s EXCEPT !.pc[t] = to]

\* readLock; read_mtx is held from "count" to "give".
LockCount(t) ==
  /\ s.pc[t] = "out" /\ ~s.read_mtx
  /\ s' = [s EXCEPT !.read_mtx = TRUE, !.read_cnt = @ + 1,
                    !.pc[t] = IF s.read_cnt = 0 THEN "count" ELSE "give"]
LockWriters(t) ==
  /\ s.pc[t] = "count" /\ ~s.write_mtx
  /\ s' = [s EXCEPT !.write_mtx = TRUE, !.pc[t] = "give"]
LockGive(t) ==
  /\ s.pc[t] = "give"
  /\ s' = [s EXCEPT !.read_mtx = FALSE, !.pc[t] = "reading"]
\* readUnlock
\* Variant: every reader gives the writers' mutex back.
UnlockEach(t) ==
  /\ s.pc[t] = "reading" /\ ~s.read_mtx
  /\ s' = [s EXCEPT !.read_cnt = @ - 1, !.write_mtx = FALSE, !.pc[t] = "out"]
Unlock(t) ==
  /\ s.pc[t] = "reading" /\ ~s.read_mtx
  /\ s' = [s EXCEPT !.read_cnt = @ - 1, !.write_mtx = IF s.read_cnt = 1 THEN FALSE ELSE @,
                    !.pc[t] = "out"]
\* writeLock, writeUnlock
Write(t) == \/ /\ s.pc[t] = "out" /\ ~s.write_mtx
               /\ s' = [s EXCEPT !.write_mtx = TRUE, !.pc[t] = "writing"]
            \/ /\ s.pc[t] = "writing"
               /\ s' = [s EXCEPT !.write_mtx = FALSE, !.pc[t] = "out"]

Next == \/ \E t \in Readers : LockCount(t) \/ LockWriters(t) \/ LockGive(t) \/ Unlock(t)
        \/ \E t \in Writers : Write(t)
Spec == Init /\ [][Next]_s
-----------------------------------------------------------------------------
Inside(what) == {t \in DOMAIN s.pc : s.pc[t] = what}
\* A writer is alone, readers share; and the writers' mutex is free when nobody is inside.
Excludes ==
  /\ \A t \in Inside("writing") : Inside("reading") = {} /\ Inside("writing") = {t}
  /\ Inside("writing") \cup Inside("reading") \cup Inside("give") = {} => ~s.write_mtx
=============================================================================
