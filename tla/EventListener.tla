---------------------------- MODULE EventListener ----------------------------
(***************************************************************************)
(* EXTERNAL: the event_listener crate, as the pool arbiter uses it.  An    *)
(* Event is a FIFO list of listeners; each listener is                     *)
(*   "absent"      not registered,                                         *)
(*   "waiting"     registered and not notified,                            *)
(*   "plain"       notified by notify(n),                                  *)
(*   "additional"  notified by notify(n.additional()).                     *)
(* The crate fences every listen and notify, so each is one atomic step.   *)
(***************************************************************************)
EXTENDS SequencesExt

Notes == {"absent", "waiting", "plain", "additional"}
NotifiedNotes == {"plain", "additional"}

\* notify(1.additional()) when kind is "additional": the oldest listener that
\* is not yet notified receives the notification; none waiting, none stored.
NotifyNext(q, note, kind) ==
    LET pending == {i \in 1..Len(q) : note[q[i]] = "waiting"}
    IN  IF pending = {} THEN note
                        ELSE [note EXCEPT ![q[Min(pending)]] = kind]

\* notify(usize::MAX): every registered listener ends up notified.
NotifyEvery(note) ==
    [l \in DOMAIN note |-> IF note[l] = "waiting" THEN "plain" ELSE note[l]]

\* Dropping a listener that was notified but never awaited hands its
\* notification on: an additional one to the next listener in line, a plain
\* one only if no listener of the list is notified already.
NotesAfterDrop(q, note, l) ==
    LET rest == [note EXCEPT ![l] = "absent"]
        left == RemoveFirst(q, l)
    IN  IF \/ note[l] = "additional"
           \/ note[l] = "plain" /\ \A i \in 1..Len(left) : rest[left[i]] \notin NotifiedNotes
        THEN NotifyNext(left, rest, note[l])
        ELSE rest
=============================================================================
