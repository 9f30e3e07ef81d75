------------------------------ MODULE EventTable ------------------------------
(***************************************************************************)
(* base/event_loop.cc in full: the table of events by descriptor, what     *)
(* epoll watches, and the loop that stop_loop has to wake.  Each call of   *)
(* event_ctl and event_stop holds eventMutex; mod_ev_only, public too,     *)
(* holds none and takes effect with its epoll_ctl.  odd are the            *)
(* descriptors whose entry a call has left in disagreement with epoll: a   *)
(* delete_event, an add_event on an entry in use, one that the kernel      *)
(* refused.  own says that epoll was last told other flags than the        *)
(* entry's, by mod_ev_only.                                                *)
(***************************************************************************)
EXTENDS Naturals, Sequences, FiniteSets, SequencesExt

CONSTANTS Fds, INIT_EVENTS, Growth,  \* Growth is 16 in array_needsize
          MaxList                  \* bound: the list of an entry, which every refused addition prolongs
Events == {"READ", "WRITE"}
Off    == {"off"}                 \* not registered with epoll

VARIABLE s  \* [anfds, max_events, epoll, odd, null, stop, loop, wake]

Unused == [used |-> FALSE, events |-> {}, list |-> <<>>, own |-> FALSE]
Init == s = [anfds |-> [i \in 0..INIT_EVENTS - 1 |-> Unused], max_events |-> INIT_EVENTS,
             epoll |-> [f \in Fds |-> Off], odd |-> {}, null |-> {},
             stop |-> "no", loop |-> "top", wake |-> FALSE]

\* array_needsize
Grown(n, need) == LET grown[k \in Nat] == IF need <= k THEN k ELSE grown[k + k \div 2 + Growth]
                  IN grown[n]
array_needsize(x, need) ==
  LET n == Grown(x.max_events, need)
  IN [x EXCEPT !.max_events = n,
               !.anfds = [i \in 0..n - 1 |-> IF i < x.max_events THEN @[i] ELSE Unused]]

\* add_event; ok says that the kernel has room.  An entry that is in use without a list is
\* walked from NULL.
\* Variant: the descriptor next to the end of the table is taken to be in it.
add_event_short(x0, f, ev, ctl, ok) ==
  LET x == IF f > x0.max_events THEN array_needsize(x0, f + 1) ELSE x0
  IN IF f \notin DOMAIN x.anfds THEN [x EXCEPT !.null = @ \cup {f}] ELSE x
add_event(x0, f, ev, ctl, ok) ==
  LET x   == IF f >= x0.max_events THEN array_needsize(x0, f + 1) ELSE x0
      e   == x.anfds[f]
      new == ~e.used \/ ~(ev \subseteq e.events)
      l   == IF ~e.used THEN <<ev>> ELSE IF new THEN Append(e.list, ev) ELSE e.list
      in  == ctl /\ new
      bad == in /\ (x.epoll[f] # Off \/ ~ok)
  IN IF e.used /\ new /\ e.list = <<>> THEN [x EXCEPT !.null = @ \cup {f}]
     ELSE [x EXCEPT !.anfds[f] = [used |-> TRUE, list |-> l,
                                  events |-> IF bad THEN e.events ELSE UNION ToSet(l),
                                  own |-> e.used /\ e.own],
                    !.epoll[f] = IF in /\ ~bad THEN ev ELSE @,
                    !.odd = IF bad THEN @ \cup {f} ELSE @]

\* delete_event: the first element of the list keeps its events, and EPOLL_CTL_DEL takes the
\* descriptor out of epoll whatever is left.
delete_event(x, f, ev) ==
  LET e    == x.anfds[f]
      Cut(n) == IF n \cap ev = {} THEN n ELSE (n \ ev) \cup (ev \ n)
      rest == SelectSeq([i \in 1..Len(e.list) - 1 |-> Cut(e.list[i + 1])], LAMBDA n : n # {})
      left == (e.events \ ev) \cup (ev \ e.events)
  IN IF ~e.used \/ e.events \cap ev = {} THEN x
     ELSE [x EXCEPT !.anfds[f].events = left,
                    !.anfds[f].list = IF left = {} THEN rest ELSE <<e.list[1]>> \o rest,
                    !.epoll[f] = Off, !.odd = @ \cup {f}]

\* event_stop
\* Variant: without EPOLL_CTL_DEL.
event_stop_table(x, f) == [x EXCEPT !.anfds[f].used = FALSE, !.anfds[f].list = <<>>, !.odd = @ \ {f}]
event_stop(x, f) ==
  IF ~x.anfds[f].used THEN x
  ELSE [x EXCEPT !.anfds[f].used = FALSE, !.anfds[f].list = <<>>, !.epoll[f] = Off, !.odd = @ \ {f}]

\* mod_ev_only: epoll's flags alone; without effect on what epoll does not watch.
mod_ev_only(x, f, ev) ==
  IF ~x.anfds[f].used \/ x.epoll[f] = Off THEN x
  ELSE [x EXCEPT !.epoll[f] = ev, !.anfds[f].own = ev # x.anfds[f].events]

\* mod_event, which ends with mod_ev_only's epoll_ctl
mod_event(x, f, ev) ==
  IF ~x.anfds[f].used THEN x
  ELSE LET y == add_event([x EXCEPT !.anfds[f].used = FALSE, !.anfds[f].list = <<>>], f, ev, FALSE, TRUE)
       IN [y EXCEPT !.epoll[f] = IF @ = Off THEN @ ELSE ev,
                    !.odd = IF x.epoll[f] = Off THEN @ ELSE @ \ {f}]

\* add_event, delete_event and mod_event are private: event_ctl calls them with ctl_poll TRUE, and
\* mod_event alone calls add_event without.  Calls on a descriptor beyond the table return false;
\* on the one next to its end the code reads beyond it: not modelled; nor is a mod_ev_only that
\* reads the table, without eventMutex, while add_event moves it to a longer one.
Ctl == \E f \in Fds, ev \in SUBSET Events \ {{}} :
         \/ \E ok \in BOOLEAN :
              /\ f < s.max_events => Len(s.anfds[f].list) < MaxList
              /\ s' = add_event(s, f, ev, TRUE, ok)
         \/ f < s.max_events /\ s' \in {delete_event(s, f, ev), mod_event(s, f, ev), mod_ev_only(s, f, ev),
                                           event_stop(s, f)}

\* start_loop, and stop_loop in its two steps; an event that comes before epoll_wait is kept.
Loop == \/ /\ s.loop = "top"
           /\ s' = [s EXCEPT !.loop = IF s.stop = "no" THEN "wait" ELSE "ended"]
        \/ /\ s.loop = "wait" /\ s.wake
           /\ s' = [s EXCEPT !.loop = "top", !.wake = FALSE]
\* Variant: the flag alone.
StopFlag == s.stop = "no" /\ s' = [s EXCEPT !.stop = "told"]
StopLoop == \/ /\ s.stop = "no"
               /\ s' = [s EXCEPT !.stop = "flag"]
            \/ /\ s.stop = "flag"
               /\ s' = [s EXCEPT !.stop = "told", !.wake = TRUE]

Next == (s.null = {} /\ Ctl) \/ Loop \/ StopLoop
Spec == Init /\ [][Next]_s
-----------------------------------------------------------------------------
\* An entry in use has a list, its flags are those of the list, and epoll watches them, or what
\* mod_ev_only has set since; an unused one is not watched; the walk over NULL is only ever taken
\* through an odd entry.
TableSound ==
  /\ s.null \subseteq s.odd
  /\ \A f \in Fds \ s.odd :
       LET e == IF f < s.max_events THEN s.anfds[f] ELSE Unused
       IN IF e.used THEN e.list # <<>> /\ e.events = UNION ToSet(e.list)
                            /\ s.epoll[f] # Off /\ (s.epoll[f] = e.events \/ e.own)
          ELSE s.epoll[f] = Off
=============================================================================
