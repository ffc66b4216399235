------------------------- MODULE SerialListen_proofs -------------------------
(***************************************************************************)
(* Proofs about SerialListen, for every set of names, number of threads    *)
(* and number of times a board comes back: a node has one reader, and the  *)
(* set of watched names is exactly the names that live threads have, as    *)
(* long as no thread dies in tcgetattr.                                    *)
(***************************************************************************)
EXTENDS SerialListen, TLAPS

States == {"none", "open", "setup", "read", "close"}

Typed ==
  /\ node \in [Paths -> 0..MaxPlugs] /\ plugs \in 0..MaxPlugs
  /\ main \in {"glob", "each", "join", "done"}
  /\ found \subseteq Paths /\ watched \subseteq Paths
  /\ thread \in [Threads -> [st : States, path : Paths \cup {"-"}, fd : 0..MaxPlugs]]
  /\ over \in BOOLEAN

\* A thread that runs has a path of its own, which is in the set; the set has
\* nothing else, unless a thread has died with its path in it.
Owners ==
  /\ \A t \in Threads : thread[t].st = "none" <=> thread[t] = Idle
  /\ \A t \in Live : thread[t].path \in watched
  /\ \A t, u \in Live : thread[t].path = thread[u].path => t = u
  /\ ~GoneInOpen => \A p \in watched : \E t \in Live : thread[t].path = p

\* What a thread has just opened is still there.
Opened ==
  /\ \A t \in Threads : thread[t].st = "setup" => thread[t].fd # 0
  /\ ~GoneInOpen => \A t \in Threads :
       thread[t].st = "setup" => node[thread[t].path] = thread[t].fd

ListenInv == Typed /\ Owners /\ Opened

-----------------------------------------------------------------------------
LEMMA ListenInit == Init => ListenInv
<1>. SUFFICES ASSUME Init PROVE ListenInv
  OBVIOUS
<1>1. Typed
  <2>1. 0 \in 0..MaxPlugs
    BY ListenAssumption
  <2>2. Idle \in [st : States, path : Paths \cup {"-"}, fd : 0..MaxPlugs]
    BY <2>1 DEF Idle, States
  <2>. HIDE DEF Idle
  <2>. QED  BY <2>1, <2>2 DEF Init, Typed
<1>2. Live = {}
  BY DEF Init, Live
<1>3. Owners /\ Opened
  BY <1>2 DEF Init, Owners, Opened, Idle
<1>. QED  BY <1>1, <1>3 DEF ListenInv

\* The thread t goes from a path it has to a state in which it has it too.
LEMMA Stays ==
  ASSUME ListenInv, NEW t \in Threads, NEW r \in [st : States \ {"none"}, path : Paths, fd : 0..MaxPlugs],
         thread[t] # Idle, r.path = thread[t].path, thread' = [thread EXCEPT ![t] = r],
         UNCHANGED <<node, plugs, main, found, watched, over>>,
         r.st = "setup" => r.fd # 0 /\ r.fd = node[r.path]
  PROVE  ListenInv'
<1>. USE DEF ListenInv
<1>1. /\ thread'[t] = r /\ r # Idle /\ r.st # "none"
      /\ \A u \in Threads \ {t} : thread'[u] = thread[u]
  BY DEF Typed, Idle, States
<1>2. Live' = Live
  BY <1>1 DEF Live
<1>3. \A u \in Threads : thread'[u].path = thread[u].path
  BY <1>1
<1>4. Typed'
  BY <1>1 DEF Typed
<1>5. Owners'
  BY <1>1, <1>2, <1>3 DEF Owners, Live
<1>6. Opened'
  BY <1>1 DEF Opened
<1>. QED  BY <1>4, <1>5, <1>6

\* The thread t gives its path back, or dies with it in the set.
LEMMA Ends ==
  ASSUME ListenInv, NEW t \in Threads, thread[t] # Idle,
         thread' = [thread EXCEPT ![t] = Idle],
         watched' = watched \ {thread[t].path} \/ (GoneInOpen /\ watched' = watched),
         UNCHANGED <<node, plugs, main, found, over>>
  PROVE  ListenInv'
<1>. USE DEF ListenInv
<1>1. /\ thread'[t] = Idle /\ Idle.st = "none"
      /\ \A u \in Threads \ {t} : thread'[u] = thread[u]
  BY DEF Typed, Idle
<1>2. Live' = Live \ {t} /\ t \in Live
  BY <1>1 DEF Live
<1>3. Typed'
  BY <1>1, ListenAssumption DEF Typed, Idle, States
<1>4. Owners'
  <2>1. \A u \in Threads : thread'[u].st = "none" <=> thread'[u] = Idle
    BY <1>1 DEF Owners
  <2>2. \A u \in Live' : thread'[u].path \in watched'
    BY <1>1, <1>2 DEF Owners, Live
  <2>3. \A u, v \in Live' : thread'[u].path = thread'[v].path => u = v
    BY <1>1, <1>2 DEF Owners, Live
  <2>4. ~GoneInOpen => \A p \in watched' : \E u \in Live' : thread'[u].path = p
    BY <1>1, <1>2 DEF Owners, Live
  <2>. QED  BY <2>1, <2>2, <2>3, <2>4 DEF Owners
<1>5. Opened'
  BY <1>1 DEF Opened
<1>. QED  BY <1>3, <1>4, <1>5

LEMMA ListenStep == ListenInv /\ [Next]_vars => ListenInv'
<1>. SUFFICES ASSUME ListenInv, [Next]_vars PROVE ListenInv'
  OBVIOUS
<1>. USE DEF ListenInv
<1>1. ASSUME UNCHANGED <<node, watched, thread>>, Typed' PROVE ListenInv'
  BY <1>1 DEF Owners, Opened, Live
<1>2. CASE Glob \/ Rescan \/ Join \/ Deadline
  BY <1>1, <1>2 DEF Glob, Rescan, Join, Deadline, Typed
<1>3. ASSUME NEW p \in Paths, Adopt(p) PROVE ListenInv'
  <2>1. CASE p \in watched /\ UNCHANGED <<watched, thread>>
    BY <1>1, <1>3, <2>1 DEF Adopt, Typed
  <2>2. CASE p \notin watched
    <3>. DEFINE r == [st |-> "open", path |-> p, fd |-> 0]
    <3>1. PICK t \in Threads \ Live : thread' = [thread EXCEPT ![t] = r]
      BY <1>3, <2>2 DEF Adopt, Start
    <3>2. /\ watched' = watched \cup {p} /\ found' = found \ {p}
          /\ UNCHANGED <<node, plugs, main, over>>
      BY <1>3, <2>2 DEF Adopt
    <3>3. /\ thread'[t] = r /\ \A u \in Threads \ {t} : thread'[u] = thread[u]
      BY <3>1 DEF Typed
    <3>4. /\ r.st = "open" /\ r.path = p /\ r # Idle /\ r.st # "none"
          /\ r \in [st : States, path : Paths \cup {"-"}, fd : 0..MaxPlugs]
      BY ListenAssumption DEF Idle, States
    <3>5. Live' = Live \cup {t} /\ t \notin Live
      BY <3>3, <3>4 DEF Live
    <3>. HIDE DEF r
    <3>6. Typed'
      BY <3>1, <3>2, <3>4 DEF Typed
    <3>7. \A u \in Threads : thread'[u].st = "none" <=> thread'[u] = Idle
      BY <3>3, <3>4 DEF Owners
    <3>8. \A u \in Live' : thread'[u].path \in watched'
      BY <3>2, <3>3, <3>4, <3>5 DEF Owners, Live
    <3>9. \A u, v \in Live' : thread'[u].path = thread'[v].path => u = v
      BY <2>2, <3>3, <3>4, <3>5 DEF Owners, Live
    <3>10. ~GoneInOpen => \A q \in watched' : \E u \in Live' : thread'[u].path = q
      BY <3>2, <3>3, <3>4, <3>5 DEF Owners, Live
    <3>11. Opened'
      BY <3>2, <3>3, <3>4 DEF Opened
    <3>. QED  BY <3>6, <3>7, <3>8, <3>9, <3>10, <3>11 DEF Owners
  <2>. QED  BY <1>3, <2>1, <2>2 DEF Adopt
<1>4. ASSUME NEW t \in Threads, Open(t) PROVE ListenInv'
  <2>1. thread[t] # Idle /\ thread[t].path \in Paths
    BY <1>4 DEF Open, Owners, Live, Typed, Idle
  <2>2. CASE node[thread[t].path] = 0
    BY <1>4, <2>1, <2>2, Ends DEF Open
  <2>3. CASE node[thread[t].path] # 0
    <3>. DEFINE r == [st |-> "setup", path |-> thread[t].path, fd |-> node[thread[t].path]]
    <3>1. r \in [st : States \ {"none"}, path : Paths, fd : 0..MaxPlugs]
      BY <2>1 DEF Typed, States
    <3>2. /\ thread' = [thread EXCEPT ![t] = r]
          /\ UNCHANGED <<node, plugs, main, found, watched, over>>
      BY <1>4, <2>3 DEF Open
    <3>3. r.path = thread[t].path /\ r.fd # 0 /\ r.fd = node[r.path]
      BY <2>3
    <3>. HIDE DEF r
    <3>. QED  BY <2>1, <3>1, <3>2, <3>3, Stays
  <2>. QED  BY <2>2, <2>3
<1>5. ASSUME NEW t \in Threads, Setup(t) PROVE ListenInv'
  <2>1. thread[t] # Idle /\ thread[t].path \in Paths
    BY <1>5 DEF Setup, Owners, Live, Typed, Idle
  <2>2. CASE Dead(t)
    <3>1. GoneInOpen
      BY <1>5, <2>2, ListenAssumption DEF Setup, Dead, Opened
    <3>. QED  BY <1>5, <2>1, <2>2, <3>1, Ends DEF Setup
  <2>3. CASE ~Dead(t)
    <3>. DEFINE r == [thread[t] EXCEPT !.st = "read"]
    <3>1. /\ r \in [st : States \ {"none"}, path : Paths, fd : 0..MaxPlugs]
          /\ r.path = thread[t].path /\ r.st = "read"
      BY <2>1 DEF Typed, States
    <3>2. thread' = [thread EXCEPT ![t] = r]
      BY <1>5, <2>3 DEF Setup
    <3>3. UNCHANGED <<node, plugs, main, found, watched, over>>
      BY <1>5 DEF Setup
    <3>. HIDE DEF r
    <3>. QED  BY <2>1, <3>1, <3>2, <3>3, Stays
  <2>. QED  BY <2>2, <2>3
<1>6. ASSUME NEW t \in Threads, Read(t) \/ ReadRaises(t) PROVE ListenInv'
  <2>. DEFINE r == [thread[t] EXCEPT !.st = "close"]
  <2>1. thread[t] # Idle /\ thread[t].path \in Paths
    BY <1>6 DEF Read, ReadRaises, Owners, Live, Typed, Idle
  <2>2. /\ r \in [st : States \ {"none"}, path : Paths, fd : 0..MaxPlugs]
        /\ r.path = thread[t].path /\ r.st = "close"
    BY <2>1 DEF Typed, States
  <2>3. thread' = [thread EXCEPT ![t] = r]
    BY <1>6 DEF Read, ReadRaises
  <2>4. UNCHANGED <<node, plugs, main, found, watched, over>>
    BY <1>6 DEF Read, ReadRaises
  <2>. HIDE DEF r
  <2>. QED  BY <2>1, <2>2, <2>3, <2>4, Stays
<1>7. ASSUME NEW t \in Threads, Close(t) PROVE ListenInv'
  <2>1. thread[t] # Idle
    BY <1>7 DEF Close, Idle
  <2>. QED  BY <1>7, <2>1, Ends DEF Close
<1>8. ASSUME NEW p \in Paths, Plug(p) PROVE ListenInv'
  <2>1. node' \in [Paths -> 0..MaxPlugs] /\ plugs' \in 0..MaxPlugs
    BY <1>8, ListenAssumption DEF Plug, Typed
  <2>2. Typed' /\ Owners'
    BY <1>8, <2>1 DEF Plug, Typed, Owners, Live
  <2>3. Opened'
    BY <1>8 DEF Plug, Opened, Typed
  <2>. QED  BY <2>2, <2>3
<1>9. ASSUME NEW p \in Paths, Unplug(p) PROVE ListenInv'
  <2>1. node' \in [Paths -> 0..MaxPlugs]
    BY <1>9, ListenAssumption DEF Unplug, Typed
  <2>2. Typed' /\ Owners'
    BY <1>9, <2>1 DEF Unplug, Typed, Owners, Live
  <2>3. Opened'
    BY <1>9 DEF Unplug, Opened, Typed
  <2>. QED  BY <2>2, <2>3
<1>10. CASE UNCHANGED vars
  BY <1>1, <1>10 DEF vars, Typed
<1>. QED
  BY <1>2, <1>3, <1>4, <1>5, <1>6, <1>7, <1>8, <1>9, <1>10 DEF Next, Main, Watch

-----------------------------------------------------------------------------
\* At every moment of a run of serial-listen.py, whatever nodes come and go, a
\* node has one reader, and the shared set is the names that the live threads
\* have, unless tcgetattr can find its node gone: it then still has those.
THEOREM NamesAreWatched == Spec => []WatchInv
<1>1. ListenInv => WatchInv
  <2>. SUFFICES ASSUME ListenInv PROVE WatchInv
    OBVIOUS
  <2>1. ~GoneInOpen => watched = {thread[t].path : t \in Live}
    BY DEF ListenInv, Owners
  <2>. QED  BY <2>1 DEF ListenInv, Typed, Owners, States, WatchInv, TypeOK, OneReader
<1>. QED  BY <1>1, ListenInit, ListenStep, PTL DEF Spec
=============================================================================
