---------------------------- MODULE SerialListen ----------------------------
(***************************************************************************)
(* tools/serial-listen.py: the scanner of main and one watch thread for    *)
(* each serial node it attaches to, across the power cycles of a board     *)
(* whose nodes are destroyed and made again, under any name (udev and the  *)
(* tty driver are external).                                               *)
(***************************************************************************)
EXTENDS Naturals

CONSTANTS
  Paths,         \* names of nodes: /dev/ttyUSB*, /dev/ttyACM*
  Threads,       \* numbers of watch threads alive together, a bound
  MaxPlugs,      \* a bound on the times a node is made
  GoneInOpen     \* a node may go away between os.open and tcgetattr

ASSUME ListenAssumption == Threads \subseteq Nat /\ MaxPlugs \in Nat /\ GoneInOpen \in BOOLEAN

VARIABLES
  node,      \* node[p]: 0, or the incarnation of the node of that name
  plugs,     \* nodes made so far
  main,      \* main: "glob", "each" or "join", "done"
  found,     \* what glob returned and main has not looked at yet
  watched,   \* the shared set
  thread,    \* thread[t]: its state, its path and the node it has open
  over       \* the deadline has passed

vars == <<node, plugs, main, found, watched, thread, over>>

Idle == [st |-> "none", path |-> "-", fd |-> 0]
Live == {t \in Threads : thread[t] # Idle}

Init ==
  /\ node = [p \in Paths |-> 0] /\ plugs = 0
  /\ main = "glob" /\ found = {} /\ watched = {}
  /\ thread = [t \in Threads |-> Idle]
  /\ over = FALSE

-----------------------------------------------------------------------------
(* The world (external).                                                   *)

Plug(p) ==
  /\ node[p] = 0 /\ plugs < MaxPlugs
  /\ plugs' = plugs + 1
  /\ node' = [node EXCEPT ![p] = plugs']
  /\ UNCHANGED <<main, found, watched, thread, over>>

Unplug(p) ==
  /\ node[p] # 0
  /\ ~GoneInOpen => \A t \in Threads : thread[t].path = p => thread[t].st # "setup"
  /\ node' = [node EXCEPT ![p] = 0]
  /\ UNCHANGED <<plugs, main, found, watched, thread, over>>

Deadline ==
  /\ ~over /\ over' = TRUE
  /\ UNCHANGED <<node, plugs, main, found, watched, thread>>

-----------------------------------------------------------------------------
(* main                                                                    *)

\* The loop condition, and a scan of the directory.
Glob ==
  /\ main = "glob"
  /\ IF over THEN main' = "join" /\ found' = {}
             ELSE main' = "each" /\ found' = {p \in Paths : node[p] # 0}
  /\ UNCHANGED <<node, plugs, watched, thread, over>>

\* A thread that is not in use; an ended thread's name is used again.
Start(p) ==
  \E t \in Threads \ Live :
    /\ \A u \in Threads \ Live : t <= u
    /\ thread' = [thread EXCEPT ![t] = [st |-> "open", path |-> p, fd |-> 0]]

\* Mutant: the path is not added to the set.
AdoptUnwatched(p) ==
  /\ main = "each" /\ p \in found
  /\ found' = found \ {p}
  /\ \/ p \in watched /\ thread' = thread
     \/ /\ p \notin watched
        /\ Start(p)
  /\ UNCHANGED <<node, plugs, main, watched, over>>

\* Test and insert under the lock, then start a thread.
Adopt(p) ==
  /\ main = "each" /\ p \in found
  /\ found' = found \ {p}
  /\ \/ p \in watched /\ UNCHANGED <<watched, thread>>
     \/ /\ p \notin watched
        /\ watched' = watched \cup {p}
        /\ Start(p)
  /\ UNCHANGED <<node, plugs, main, over>>

Rescan ==
  /\ main = "each" /\ found = {}
  /\ main' = "glob"
  /\ UNCHANGED <<node, plugs, found, watched, thread, over>>

Join ==
  /\ main = "join" /\ Live = {}
  /\ main' = "done"
  /\ UNCHANGED <<node, plugs, found, watched, thread, over>>

-----------------------------------------------------------------------------
(* watch                                                                   *)

\* Mutant: a thread that cannot open the node leaves it in the set.
OpenForget(t) ==
  /\ thread[t].st = "open"
  /\ LET p == thread[t].path IN
       thread' = [thread EXCEPT ![t] = IF node[p] = 0 THEN Idle
                                       ELSE [st |-> "setup", path |-> p, fd |-> node[p]]]
  /\ UNCHANGED <<node, plugs, main, found, watched, over>>

\* The node may be gone since the scan: the path is given back.
Open(t) ==
  /\ thread[t].st = "open"
  /\ LET p == thread[t].path IN
       IF node[p] # 0
       THEN /\ thread' = [thread EXCEPT ![t] = [st |-> "setup", path |-> p, fd |-> node[p]]]
            /\ watched' = watched
       ELSE /\ thread' = [thread EXCEPT ![t] = Idle]
            /\ watched' = watched \ {p}
  /\ UNCHANGED <<node, plugs, main, found, over>>

Dead(t) == thread[t].fd # node[thread[t].path]

\* tcgetattr and tcsetattr.  On a node that is gone they raise termios.error,
\* which is not an OSError: the thread dies with its path still in the set.
Setup(t) ==
  /\ thread[t].st = "setup"
  /\ thread' = IF Dead(t) THEN [thread EXCEPT ![t] = Idle]
                          ELSE [thread EXCEPT ![t].st = "read"]
  /\ UNCHANGED <<node, plugs, main, found, watched, over>>

\* Mutant: the loop does not look at the deadline.
ReadForever(t) == thread[t].st = "read" /\ UNCHANGED vars

\* The read loop ends at the deadline, which select's timeout lets it see.  (Data
\* is only logged, and a read without data goes on with the loop.)
Read(t) ==
  /\ thread[t].st = "read" /\ over
  /\ thread' = [thread EXCEPT ![t].st = "close"]
  /\ UNCHANGED <<node, plugs, main, found, watched, over>>

\* An OSError ends it too: the read of a dead descriptor raises, or the log cannot
\* be written.  It need not happen: "with the node gone, select() simply never
\* reports readable", and a read of a dead descriptor may return no data.
ReadRaises(t) ==
  /\ thread[t].st = "read"
  /\ thread' = [thread EXCEPT ![t].st = "close"]
  /\ UNCHANGED <<node, plugs, main, found, watched, over>>

Close(t) ==
  /\ thread[t].st = "close"
  /\ thread' = [thread EXCEPT ![t] = Idle]
  /\ watched' = watched \ {thread[t].path}
  /\ UNCHANGED <<node, plugs, main, found, over>>

-----------------------------------------------------------------------------
Main     == Glob \/ (\E p \in Paths : Adopt(p)) \/ Rescan \/ Join
Watch(t) == Open(t) \/ Setup(t) \/ Read(t) \/ Close(t)

Next ==
  \/ Main
  \/ \E t \in Threads : Watch(t) \/ ReadRaises(t)
  \/ \E p \in Paths : Plug(p) \/ Unplug(p)
  \/ Deadline

Spec == Init /\ [][Next]_vars

\* The interpreter runs its threads; no fairness makes a dead descriptor raise.
FairSpec == Spec /\ WF_vars(Main) /\ \A t \in Threads : WF_vars(Watch(t))

-----------------------------------------------------------------------------
(* Properties.                                                             *)

\* Types; a path is in the set exactly while a thread has it, when no thread dies.
TypeOK ==
  /\ node \in [Paths -> 0..MaxPlugs] /\ plugs \in 0..MaxPlugs
  /\ main \in {"glob", "each", "join", "done"}
  /\ found \subseteq Paths /\ watched \subseteq Paths
  /\ thread \in [Threads -> [st : {"none", "open", "setup", "read", "close"},
                             path : Paths \cup {"-"}, fd : 0..MaxPlugs]]
  /\ over \in BOOLEAN
  /\ ~GoneInOpen => watched = {thread[t].path : t \in Live}

\* A node has one reader at most, so no byte is taken away from its log.
OneReader ==
  \A t, u \in Live : thread[t].path = thread[u].path => t = u

\* The set, the threads and the nodes belong together at every moment: each
\* watched name has its one live thread, and nobody reads an unwatched one.
WatchInv == TypeOK /\ OneReader

Reading(p) == \E t \in Threads : /\ thread[t].st = "read"
                                 /\ thread[t].path = p
                                 /\ thread[t].fd = node[p]

\* A thread holds a dead descriptor under this name, and has not noticed.
Haunted(p) == \E t \in Threads : /\ thread[t].st = "read"
                                 /\ thread[t].path = p
                                 /\ Dead(t)

\* "It picks the board back up ... whatever number it came back as": a node that
\* is there is read, is gone again, or the time is over.  The one exception is a
\* node that comes back under its old name while the thread of the old one holds
\* a dead descriptor that never raises: then it is never read.
NodeAdopted ==
  \A p \in Paths :
    node[p] # 0 ~> (Reading(p) \/ node[p] = 0 \/ over \/ []Haunted(p))

\* After the deadline every thread ends and main joins them.
Finishes == over ~> main = "done"
=============================================================================
