------------------------------ MODULE Dismissals ------------------------------
(***************************************************************************)
(* The sessions a reader has marked handled (dismissals.py): the file that *)
(* every dashboard on the machine shares, this dashboard's copy of it, and *)
(* the request threads that mark and restore. A request changes the copy   *)
(* in its hold of the lock and writes the file after it; a collection      *)
(* reads the file and assigns the copy in two steps as well. The count     *)
(* bound (256 marks) is not reached here.                                  *)
(***************************************************************************)
EXTENDS Integers

CONSTANTS Sessions,
          Clicks,      \* request threads that mark and restore
          Here,        \* those of this dashboard; the others share only its file
          DiskFaults   \* what may befall the file: "unreadable", "unwritable"

ASSUME DismissalsAssumption ==
  /\ Here \subseteq Clicks
  /\ DiskFaults \subseteq {"unreadable", "unwritable"}

\* A session's clock is its writes, from 1 on, and stands for last_activity; a mark
\* is the clock it was made at, and 0 where there is none.
Marks == [Sessions -> Nat]
NoMarks == [s \in Sessions |-> 0]
Idle == [at |-> "idle", for |-> {}, kept |-> NoMarks]

VARIABLES
  writes,   \* each session's last activity
  file,     \* compass-dismissals.json
  copy,     \* state.dismissals
  click,    \* each request thread: idle, or holding what it is to save
  unsaved   \* history: marks made here and answered persisted: false

dismissals == <<file, copy, click, unsaved>>

DismissalsTyped ==
  /\ writes \in [Sessions -> Nat \ {0}]
  /\ file \in Marks /\ copy \in Marks /\ unsaved \in Marks
  /\ click \in [Clicks -> [at: {"idle", "save"}, for: SUBSET Sessions, kept: Marks]]

\* A dashboard that has collected at least once, over a file with nothing in it.
DismissalsInit ==
  /\ writes = [s \in Sessions |-> 1]
  /\ file = NoMarks /\ copy = NoMarks /\ unsaved = NoMarks
  /\ click = [c \in Clicks |-> Idle]

\* holds: a mark stands until its session moves past it.
Holds(marks, s, activity) == activity <= marks[s]

\* load: a file that cannot be read or parsed is an empty one.
Loads == {file} \cup (IF "unreadable" \in DiskFaults THEN {NoMarks} ELSE {})

\* dismiss or restore up to the end of its hold: what the file holds, with this
\* session's mark made or taken out, becomes the copy.
Hold(c, s, mark) ==
  /\ click[c].at = "idle" /\ mark \in {0, writes[s]}
  /\ \E marks \in Loads :
       LET kept == [marks EXCEPT ![s] = mark] IN
       /\ click' = [click EXCEPT ![c] = [at |-> "save", for |-> {s}, kept |-> kept]]
       /\ copy' = IF c \in Here THEN kept ELSE copy
  /\ unsaved' = [unsaved EXCEPT ![s] = 0]
  /\ UNCHANGED <<writes, file>>

\* The write, outside the lock; one that fails is told to the reader.
Save(c, s) ==
  /\ click[c].at = "save" /\ s \in click[c].for
  /\ \/ file' = click[c].kept /\ UNCHANGED unsaved
     \/ /\ "unwritable" \in DiskFaults
        /\ unsaved' = IF c \in Here
                      THEN [unsaved EXCEPT ![s] = click[c].kept[s]]
                      ELSE unsaved
        /\ UNCHANGED file
  /\ click' = [click EXCEPT ![c] = Idle] /\ UNCHANGED <<writes, copy>>

-----------------------------------------------------------------------------
\* A mark that did not reach the file holds for as long as this process runs: the
\* row stays off this board until its session moves (save, the dismiss route).
MarkHoldsThisRun ==
  \A s \in Sessions : unsaved[s] # 0 => Holds(copy, s, unsaved[s])
=============================================================================
