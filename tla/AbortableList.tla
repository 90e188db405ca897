---------------------------- MODULE AbortableList ----------------------------
(***************************************************************************)
(* AbortableList: maps from keys to abort handles, join handles and other  *)
(* lists, whose tasks are to be aborted when they leave the map.           *)
(*                                                                         *)
(* The order of a list matters only for the order of abort calls, which    *)
(* are independent: a list is a function, and where the order decides      *)
(* which of two entries displaces the other, either may.                   *)
(***************************************************************************)

CONSTANTS
    AbortTasks, JoinTasks,  \* tasks handled by an AbortHandle, by a JoinHandle
    Lists, Keys,
    Vacant

ASSUME ListAssumption ==
    /\ AbortTasks \cap JoinTasks = {} /\ (AbortTasks \cup JoinTasks) \cap Lists = {}
    /\ Vacant \notin AbortTasks \cup JoinTasks \cup Lists

ListTasks == AbortTasks \cup JoinTasks
Members == ListTasks \cup Lists

VARIABLES
    content,     \* the entries of each list
    owned,       \* the lists held by the program itself, not moved into another or dropped
    handed,      \* the tasks whose handle was put into a list
    aborting,    \* abort was called on the task's handle
    taskEnded    \* the task has run to its end or noticed the abort

listVars == <<content, owned, handed, aborting, taskEnded>>

NoEntries == [k \in Keys |-> Vacant]

ListInit ==
    /\ content = [l \in Lists |-> NoEntries]
    /\ owned = Lists
    /\ handed = {} /\ aborting = {} /\ taskEnded = {}

Entries(l) == {content[l][k] : k \in Keys} \ {Vacant}

\* What a member holds, through any number of lists: the least set that has the member and
\* the entries of each of its lists.  The tasks among it.
Closed(S) == \A l \in S \cap Lists : Entries(l) \subseteq S
Reach(m) == {e \in Members : \A S \in SUBSET Members : m \in S /\ Closed(S) => e \in S}
Leaves(m) == Reach(m) \cap ListTasks

\* AbortHandle::is_aborted looks at the flag, JoinHandle::is_finished at the task; a list
\* is aborted when everything in it is.
WasAborted(m) ==
    \A t \in Leaves(m) : IF t \in AbortTasks THEN t \in aborting ELSE t \in taskEnded

\* The tasks on which m.abort_task() calls abort: a list skips what was aborted.
CalledBy(m) ==
    IF m \in ListTasks THEN {m} ELSE {t \in Leaves(m) : ~WasAborted(t)}

Abort(members) == aborting' = aborting \cup UNION {CalledBy(m) : m \in members}

\* A task handle not yet in any list, or a list the program owns, is moved into l.
Movable(m, l) == IF m \in ListTasks THEN m \notin handed ELSE m \in owned /\ m # l

\* Mutant: the entry that had the key is dropped with no abort.
InsertForgetting(l, k, m) ==
    /\ l \in owned /\ Movable(m, l)
    /\ content' = [content EXCEPT ![l][k] = m]
    /\ owned' = owned \ {m} /\ handed' = handed \cup ({m} \cap ListTasks)
    /\ UNCHANGED <<aborting, taskEnded>>

\* The entry that had the key is aborted.
Insert(l, k, m) ==
    /\ l \in owned /\ Movable(m, l)
    /\ content' = [content EXCEPT ![l][k] = m]
    /\ Abort({content[l][k]} \ {Vacant})
    /\ owned' = owned \ {m} /\ handed' = handed \cup ({m} \cap ListTasks)
    /\ UNCHANGED taskEnded

\* abort_one removes the entry, and aborts it unless it was aborted.
AbortOne(l, k) ==
    /\ l \in owned /\ content[l][k] # Vacant
    /\ content' = [content EXCEPT ![l][k] = Vacant]
    /\ Abort({content[l][k]} \ {m \in Members : WasAborted(m)})
    /\ UNCHANGED <<owned, handed, taskEnded>>

\* Mutant: the entries are copied, and other's Drop finds them still there.
ExtendFromCopying(l, other, keyMap) ==
    LET from(k) == {j \in Keys : content[other][j] # Vacant /\ keyMap[j] = k}
        kept == [k \in Keys |-> IF from(k) = {} THEN Vacant ELSE content[other][CHOOSE j \in from(k) : TRUE]]
    IN  /\ {l, other} \subseteq owned /\ l # other
        /\ content' = [content EXCEPT ![l] = [k \in Keys |-> IF kept[k] = Vacant THEN @[k] ELSE kept[k]]]
        /\ Abort(Entries(other) \cup ({content[l][k] : k \in {j \in Keys : kept[j] # Vacant}} \ {Vacant}))
        /\ owned' = owned \ {other}
        /\ UNCHANGED <<handed, taskEnded>>

\* extend_from (with the identity) and flat_map_extend_from drain other into l, one insert
\* after another; what an insert displaces is aborted, be it of l or of other.
ExtendFrom(l, other, keyMap) ==
    LET from(k) == {j \in Keys : content[other][j] # Vacant /\ keyMap[j] = k}
        taken == {k \in Keys : from(k) # {}}
    IN  /\ {l, other} \subseteq owned /\ l # other
        /\ \E last \in [taken -> Keys] :
             /\ \A k \in taken : last[k] \in from(k)
             /\ content' = [content EXCEPT
                    ![l] = [k \in Keys |-> IF k \in taken THEN content[other][last[k]] ELSE @[k]],
                    ![other] = NoEntries]
             /\ Abort((Entries(other) \cup {content[l][k] : k \in taken})
                        \ ({content[other][last[k]] : k \in taken} \cup {Vacant}))
        /\ owned' = owned \ {other}
        /\ UNCHANGED <<handed, taskEnded>>

AbortAll(l) ==
    /\ l \in owned /\ Abort({l})
    /\ UNCHANGED <<content, owned, handed, taskEnded>>

DropList(l) ==
    /\ l \in owned /\ Abort({l})
    /\ owned' = owned \ {l}
    /\ content' = [content EXCEPT ![l] = NoEntries]
    /\ UNCHANGED <<handed, taskEnded>>

\* The task runs to its end, or stops because it was aborted.
TaskEnds(t) ==
    /\ t \notin taskEnded /\ taskEnded' = taskEnded \cup {t}
    /\ UNCHANGED <<content, owned, handed, aborting>>

ListNext ==
    \/ \E l \in Lists :
         \/ \E k \in Keys : AbortOne(l, k) \/ \E m \in Members : Insert(l, k, m)
         \/ \E other \in Lists, keyMap \in [Keys -> Keys] : ExtendFrom(l, other, keyMap)
         \/ AbortAll(l) \/ DropList(l)
    \/ \E t \in ListTasks : TaskEnds(t)

ListSpec == ListInit /\ [][ListNext]_listVars
-----------------------------------------------------------------------------
(* Properties. *)

\* AbortableList "allows safely managing abortable tasks": whatever inserts, removals,
\* merges, nestings and drops come after, a task once handed over has ended, was told to
\* abort or is still in a list that some owner can abort.
NoRunaway ==
    \A t \in handed : t \in aborting \cup taskEnded \/ \E l \in owned : t \in Leaves(l)

\* extend_from and flat_map_extend_from move tasks "without aborting them", and abort_one,
\* insert and a drop stop only what they remove: a task that is told to abort and stays in
\* a list was stopped by a call that moved nothing, together with everything in that list.
NoInnocentAbort ==
    [][\A t \in aborting' \ aborting, l \in owned' :
          t \in Leaves(l)' => /\ UNCHANGED <<content, owned>>
                             /\ Leaves(l)' \subseteq aborting' \cup taskEnded]_listVars
=============================================================================
