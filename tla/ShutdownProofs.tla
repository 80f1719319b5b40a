--------------------------- MODULE ShutdownProofs ---------------------------
(***************************************************************************)
(* Proofs about Shutdown: for any number of clients and connections, types *)
(* hold, an open always finds a number, ctx->clients never holds a number  *)
(* that has come to stand for anything but the client's own socket, and an *)
(* end in a quiet moment saves both files.                                 *)
(***************************************************************************)
EXTENDS Shutdown, TLAPS, FiniteSetTheorems, WellFoundedInduction

\* The main thread has closed nobody's socket yet.
Before == main \in {"screen", "sync", "close listener", "join", "lock"}

\* A session that is sure to have its socket: it has not been registered yet,
\* or it still is.
Held(c) == session[c] \in {"hello", "register"} \/ c \in slots

\* Where each thread is when it holds the lock, a file or a slot.
Control ==
    /\ lock = Main <=> main \in {"slots", "close slot"}
    /\ lock = Destroyed => main \in {"return", "done"}
    /\ accepting => Before /\ main # "lock"
    /\ fdw # 0 <=> main \in {"close slot", "read old", "write conf", "write menu"}
    /\ main = "close slot" => \E c \in slots : fd[c] = fdw
    /\ \A c \in Clients :
           file[c] # 0 <=> session[c] \in {"order logging", "staff logging", "saving"}
    /\ \A c \in slots : session[c] \notin {"none", "hello", "register", "close"}

\* Until main closes sockets every number stands for what its owner opened.
Honest ==
    Before =>
        /\ listen_fd # 0 => open[listen_fd] = "listener"
        /\ \A c \in Clients : fd[c] # 0 => open[fd[c]] = c
        /\ \A c \in Clients : file[c] # 0 => open[file[c]] \in Files
        /\ \A c, d \in Clients : file[c] = file[d] /\ file[c] # 0 => c = d

\* After that, too, the numbers of the sessions differ, and nobody else has
\* the number of a held socket.
Apart ==
    /\ listen_fd # 0 => main \in {"screen", "sync", "close listener"}
    /\ \A c, d \in Clients : fd[c] = fd[d] /\ fd[c] # 0 => c = d
    /\ \A c \in Clients : Held(c) =>
           /\ open[fd[c]] = c
           /\ \A d \in Clients : file[d] # fd[c]
           /\ fdw = fd[c] => main = "close slot"

\* Every number that is in use has an owner.
Owned ==
    \A n \in Numbers : open[n] # "free" =>
        n = listen_fd \/ n = fdw \/ \E c \in Clients : n = fd[c] \/ n = file[c]

IInv == TypeOK /\ Control /\ Honest /\ Apart /\ Owned

-----------------------------------------------------------------------------
(* An open always finds a number *)

\* A set of natural numbers has a least one.
LEMMA HasLeast ==
    ASSUME NEW S \in SUBSET Nat, S # {}
    PROVE  \E n \in S : \A k \in S : n <= k
<1> DEFINE R == OpToRel(<, Nat)
<1>1. IsWellFoundedOn(R, Nat)
  BY NatLessThanWellFounded
<1>2. PICK n \in S : \A k \in S : ~ (<<k, n>> \in R)
  <2> HIDE DEF R
  <2> QED BY <1>1, WFMin
<1>3. \A k \in S : ~ (k < n)
  BY <1>2 DEF OpToRel
<1> QED
  BY <1>3

\* There are more numbers than sockets and files that can be open at a time
\* beside the one that is about to be opened.
LEMMA SomeNumberIsFree ==
    ASSUME TypeOK, Owned,
           \/ fdw = 0 \/ (\E c \in Clients : fd[c] = 0 \/ file[c] = 0)
    PROVE  \E n \in Numbers : open[n] = "free"
<1> DEFINE A == {fd[c] : c \in Clients}
           B == {file[c] : c \in Clients}
           U == (A \cup B) \cup {listen_fd, fdw}
           K == Cardinality(Clients)
<1>1. K \in Nat /\ IsFiniteSet(Clients) /\ MAX_FD \in Nat /\ MAX_FD >= 2 * K + 2
  BY ShutdownAssumption, FS_CardinalityType
<1>2. /\ IsFiniteSet(A) /\ Cardinality(A) \in Nat /\ Cardinality(A) <= K
      /\ IsFiniteSet(B) /\ Cardinality(B) \in Nat /\ Cardinality(B) <= K
  <2>1. /\ IsFiniteSet(A) /\ Cardinality(A) <= K
        /\ IsFiniteSet(B) /\ Cardinality(B) <= K
    <3> DEFINE f == [c \in Clients |-> fd[c]]
               g == [c \in Clients |-> file[c]]
    <3>1. f \in Surjection(Clients, A) /\ g \in Surjection(Clients, B)
      BY DEF Surjection
    <3> HIDE DEF f, g, A, B, K
    <3> QED BY <1>1, <3>1, FS_Surjection DEF K
  <2> HIDE DEF A, B
  <2> QED BY <2>1, FS_CardinalityType
<1>3. /\ IsFiniteSet({listen_fd, fdw}) /\ Cardinality({listen_fd, fdw}) \in Nat
      /\ Cardinality({listen_fd, fdw}) <= 2
  <2>1. IsFiniteSet({listen_fd}) /\ Cardinality({listen_fd}) = 1
    BY FS_Singleton
  <2>2. /\ IsFiniteSet({listen_fd} \cup {fdw})
        /\ Cardinality({listen_fd} \cup {fdw}) \in {1, 2}
    BY <2>1, FS_AddElement
  <2>3. {listen_fd} \cup {fdw} = {listen_fd, fdw}
    OBVIOUS
  <2> QED BY <2>2, <2>3
<1>4. IsFiniteSet(U) /\ Cardinality(U) <= 2 * K + 2 /\ Cardinality(U) \in Nat
  <2> HIDE DEF A, B, K
  <2>1. /\ IsFiniteSet(A \cup B) /\ Cardinality(A \cup B) \in Nat
        /\ Cardinality(A \cup B) <= 2 * K
    <3>1. /\ IsFiniteSet(A \cup B) /\ IsFiniteSet(A \cap B)
          /\ Cardinality(A \cup B) = Cardinality(A) + Cardinality(B) - Cardinality(A \cap B)
      BY <1>2, FS_Union, FS_Intersection
    <3>2. Cardinality(A \cap B) \in Nat /\ Cardinality(A \cup B) \in Nat
      BY <3>1, FS_CardinalityType
    <3> QED BY <1>1, <1>2, <3>1, <3>2
  <2> DEFINE E == A \cup B
             L == {listen_fd, fdw}
  <2> HIDE DEF E, L
  <2>2. /\ IsFiniteSet(E \cup L) /\ IsFiniteSet(E \cap L)
        /\ Cardinality(E \cup L) = Cardinality(E) + Cardinality(L) - Cardinality(E \cap L)
    BY <1>3, <2>1, FS_Union, FS_Intersection DEF E, L
  <2>3. Cardinality(E \cap L) \in Nat /\ Cardinality(E \cup L) \in Nat
    BY <2>2, FS_CardinalityType
  <2>4. Cardinality(E \cup L) <= 2 * K + 2
    BY <1>1, <1>3, <2>1, <2>2, <2>3 DEF E, L
  <2> QED BY <2>2, <2>3, <2>4 DEF E, L
<1>5. 0 \in U
  OBVIOUS
<1>6. IsFiniteSet(U \ {0}) /\ Cardinality(U \ {0}) = Cardinality(U) - 1
  <2> HIDE DEF U
  <2> QED BY <1>4, <1>5, FS_RemoveElement
<1>7. IsFiniteSet(Numbers) /\ Cardinality(Numbers) = MAX_FD
  BY <1>1, FS_Interval DEF Numbers
<1>8. SUFFICES ASSUME \A n \in Numbers : open[n] # "free" PROVE FALSE
  OBVIOUS
<1>9. Numbers \subseteq U \ {0}
  BY <1>1, <1>8 DEF Owned, Numbers
<1>10. Cardinality(Numbers) <= Cardinality(U \ {0})
  <2> HIDE DEF U
  <2> QED BY <1>6, <1>9, FS_Subset
<1> HIDE DEF U, K
<1> QED
  BY <1>1, <1>4, <1>6, <1>7, <1>10

\* The number that open and accept give out.
LEMMA LowestIsFree ==
    ASSUME TypeOK, Owned,
           \/ fdw = 0 \/ (\E c \in Clients : fd[c] = 0 \/ file[c] = 0)
    PROVE  Lowest \in Numbers /\ Lowest # 0 /\ open[Lowest] = "free"
<1> DEFINE F == {n \in Numbers : open[n] = "free"}
<1>1. F \in SUBSET Nat /\ F # {}
  BY SomeNumberIsFree DEF Numbers
<1>2. \E n \in F : \A k \in F : n <= k
  <2> HIDE DEF F
  <2> QED BY <1>1, HasLeast
<1>3. \E n \in Numbers : open[n] = "free" /\ \A m \in Numbers : open[m] = "free" => n <= m
  BY <1>2
<1>4. Lowest \in Numbers /\ open[Lowest] = "free"
  BY <1>3 DEF Lowest
<1> QED
  BY <1>4 DEF Numbers

-----------------------------------------------------------------------------
(* Types *)

\* What a write does to peers and files has their types.
LEMMA WriteType ==
    ASSUME TypeOK, NEW ns, NEW w \in Words, Write(ns, w)
    PROVE  /\ alive' \in BOOLEAN
           /\ peer' \in [Clients -> {"away", "up", "gone", "broken", "shut"}]
           /\ text' \in [Files -> SUBSET Words]
<1>1. alive' \in BOOLEAN
  BY DEF Write
<1> QED
  BY <1>1 DEF Write, TypeOK

\* No step leaves the types: an open finds a number, whoever opens.
LEMMA TypeStep == TypeOK /\ Control /\ Owned /\ [Next]_vars => TypeOK'
<1> SUFFICES ASSUME TypeOK, Control, Owned, Lives, Late PROVE TypeOK'
  BY DEF Next, vars, threads, TypeOK
<1> USE DEF Words
<1>0. late' \in BOOLEAN
  BY DEF Late, TypeOK
<1>1. ASSUME NEW c \in Clients, Accept(c) PROVE TypeOK'
  <2>1. Lowest \in Numbers /\ Lowest # 0
    BY <1>1, LowestIsFree DEF Accept, TypeOK
  <2>2. /\ open' \in [Numbers -> {"free", "listener"} \cup Files \cup Clients]
        /\ fd' \in [Clients -> {0} \cup Numbers] /\ session' \in [Clients -> SessionSteps]
        /\ \A d \in Clients : fd'[d] = 0 <=> session'[d] = "none"
    BY <1>1, <2>1 DEF Accept, TypeOK, SessionSteps
  <2>3. peer' \in [Clients -> {"away", "up", "gone", "broken", "shut"}] /\ accepting' \in BOOLEAN
    BY <1>1 DEF Accept, TypeOK
  <2>4. connects' \in 0 .. MAX_CONNECTS
    BY <1>1, ShutdownAssumption DEF Accept, TypeOK
  <2> QED BY <1>0, <1>1, <2>2, <2>3, <2>4 DEF TypeOK, Accept
<1>2. ASSUME NEW c \in Clients, Request(c) PROVE TypeOK'
  <2>1. PICK what \in {"order", "staff", "menu"} : Session(c, "reading", what)
    BY <1>2 DEF Request
  <2>2. /\ session' \in [Clients -> SessionSteps]
        /\ \A d \in Clients : fd[d] = 0 <=> session'[d] = "none"
    BY <2>1 DEF Session, TypeOK, SessionSteps
  <2>3. lines' \in 0 .. MAX_LINES
    BY <1>2, ShutdownAssumption DEF Request, TypeOK
  <2> QED BY <1>0, <1>2, <2>1, <2>2, <2>3 DEF TypeOK, Request, Session, Unwritten
<1>3. ASSUME NEW c \in Clients, LogOpens(c) \/ SaveOpens(c) PROVE TypeOK'
  <2>1. PICK from \in {"order log", "staff log", "save"},
             to \in {"order logging", "staff logging", "saving"},
             name \in Files :
             Session(c, from, to) /\ Opens(c, name) /\ UNCHANGED <<fd, slots, lock, lines>>
    BY <1>3 DEF LogOpens, SaveOpens, Files
  <2>2. session[c] = from /\ file[c] = 0
    BY <2>1 DEF Session, Control, TypeOK
  <2>3. Lowest \in Numbers /\ Lowest # 0
    BY <2>2, LowestIsFree
  <2>4. /\ session' \in [Clients -> SessionSteps]
        /\ \A d \in Clients : fd[d] = 0 <=> session'[d] = "none"
    BY <2>1, <2>2 DEF Session, TypeOK, SessionSteps
  <2>5. /\ open' \in [Numbers -> {"free", "listener"} \cup Files \cup Clients]
        /\ file' \in [Clients -> {0} \cup Numbers]
        /\ text' \in [Files -> SUBSET Words]
    BY <2>1, <2>3 DEF Opens, TypeOK
  <2> QED BY <1>0, <2>1, <2>4, <2>5 DEF TypeOK, Session, Opens
<1>4. ASSUME NEW c \in Clients, LogEnds(c) PROVE TypeOK'
  <2>1. PICK to \in {"save", "reply"}, from \in SessionSteps \ {"none"} :
            Session(c, from, to) /\ Finishes(c, "log") /\ UNCHANGED <<fd, slots, lock, lines>>
    BY <1>4 DEF LogEnds, SessionSteps
  <2>2. /\ session' \in [Clients -> SessionSteps]
        /\ \A d \in Clients : fd[d] = 0 <=> session'[d] = "none"
    BY <2>1 DEF Session, TypeOK, SessionSteps
  <2>3. /\ open' \in [Numbers -> {"free", "listener"} \cup Files \cup Clients]
        /\ file' \in [Clients -> {0} \cup Numbers]
    BY <2>1 DEF Finishes, TypeOK
  <2> QED BY <1>0, <2>1, <2>2, <2>3, WriteType DEF TypeOK, Session, Finishes
<1>5. ASSUME NEW c \in Clients, Close(c) PROVE TypeOK'
  <2>1. peer' \in [Clients -> {"away", "up", "gone", "broken", "shut"}]
    BY <1>5 DEF Close, TypeOK
  <2>2. /\ open' \in [Numbers -> {"free", "listener"} \cup Files \cup Clients]
        /\ fd' \in [Clients -> {0} \cup Numbers] /\ session' \in [Clients -> SessionSteps]
        /\ \A d \in Clients : fd'[d] = 0 <=> session'[d] = "none"
    BY <1>5 DEF Close, Session, TypeOK, SessionSteps
  <2> QED BY <1>0, <1>5, <2>1, <2>2 DEF TypeOK, Close, Session
<1>6. CASE ShutSlot
  <2>1. PICK c \in slots :
            /\ fdw' = fd[c]
            /\ peer' = [d \in Clients |-> IF open[fd[c]] = d THEN "shut" ELSE peer[d]]
    BY <1>6 DEF ShutSlot
  <2>2. peer' \in [Clients -> {"away", "up", "gone", "broken", "shut"}] /\ fdw' \in {0} \cup Numbers
    BY <2>1 DEF TypeOK
  <2> QED BY <1>0, <1>6, <2>2 DEF TypeOK, ShutSlot, Step, MainSteps
<1>7. CASE MainOpens
  <2>1. fdw = 0
    BY <1>7 DEF MainOpens, OpensFile, Step, Control
  <2>2. Lowest \in Numbers
    BY <2>1, LowestIsFree
  <2>3. PICK name \in Files : open' = [open EXCEPT ![Lowest] = name] /\ fdw' = Lowest
    BY <1>7 DEF MainOpens, OpensFile, Files
  <2>4. text' \in [Files -> SUBSET Words] /\ main' \in MainSteps
    BY <1>7 DEF MainOpens, OpensFile, Step, MainSteps, TypeOK
  <2> QED BY <1>0, <1>7, <2>2, <2>3, <2>4 DEF TypeOK, MainOpens, OpensFile, Step
<1>8. CASE MainWrites
  <2>1. main' \in MainSteps
    BY <1>8 DEF MainWrites, WritesFile, Step, MainSteps
  <2>2. PICK w \in Words : Write({fdw}, w)
    BY <1>8 DEF MainWrites, WritesFile
  <2> QED BY ZenonT(40), <1>0, <1>8, <2>1, <2>2, WriteType DEF TypeOK, MainWrites, WritesFile, Step
<1>9. CASE MainRenames
  BY <1>0, <1>9 DEF TypeOK, MainRenames, RenamesFile, Step, Unwritten, MainSteps
<1>10. ASSUME NEW c \in Clients, ClientLeaves(c) PROVE TypeOK'
  BY <1>0, <1>10 DEF TypeOK, ClientLeaves, threads, SessionSteps
<1>11. ASSUME NEW c \in Clients, Hello(c) PROVE TypeOK'
  BY <1>0, <1>11, WriteType DEF TypeOK, Hello, Session, Finishes, SessionSteps
<1>12. ASSUME NEW c \in Clients, NoHello(c) PROVE TypeOK'
  BY <1>0, <1>12 DEF TypeOK, NoHello, Session, Unwritten, SessionSteps
<1>13. ASSUME NEW c \in Clients, Register(c) PROVE TypeOK'
  BY <1>0, <1>13, WriteType DEF TypeOK, Register, Session, Finishes, SessionSteps
<1>14. ASSUME NEW c \in Clients, Loop(c) PROVE TypeOK'
  BY <1>0, <1>14 DEF TypeOK, Loop, Session, Unwritten, SessionSteps
<1>15. ASSUME NEW c \in Clients, ReadEnds(c) PROVE TypeOK'
  BY <1>0, <1>15 DEF TypeOK, ReadEnds, Session, Unwritten, SessionSteps
<1>16. ASSUME NEW c \in Clients, OrderLocks(c) PROVE TypeOK'
  BY <1>0, <1>16 DEF TypeOK, OrderLocks, Session, Unwritten, SessionSteps
<1>17. ASSUME NEW c \in Clients, SaveEnds(c) PROVE TypeOK'
  BY <1>0, <1>17, WriteType DEF TypeOK, SaveEnds, Session, Finishes, SessionSteps
<1>18. ASSUME NEW c \in Clients, Announce(c) PROVE TypeOK'
  BY <1>0, <1>18, WriteType DEF TypeOK, Announce, Session, Finishes, SessionSteps
<1>19. ASSUME NEW c \in Clients, StaffCalls(c) PROVE TypeOK'
  BY <1>0, <1>19, WriteType DEF TypeOK, StaffCalls, Session, Finishes, SessionSteps
<1>20. ASSUME NEW c \in Clients, MenuReads(c) PROVE TypeOK'
  BY <1>0, <1>20 DEF TypeOK, MenuReads, Session, Unwritten, SessionSteps
<1>21. ASSUME NEW c \in Clients, Reply(c) PROVE TypeOK'
  BY <1>0, <1>21, WriteType DEF TypeOK, Reply, Session, Finishes, SessionSteps
<1>22. ASSUME NEW c \in Clients, Leave(c) PROVE TypeOK'
  BY <1>0, <1>22 DEF TypeOK, Leave, Session, Unwritten, SessionSteps
<1>23. CASE Broadcast
  BY <1>0, <1>23, WriteType DEF TypeOK, Broadcast, Step, Unwritten, MainSteps, threads
<1>24. CASE ScreenEnds
  BY <1>0, <1>24 DEF TypeOK, ScreenEnds, Step, Unwritten, MainSteps, threads
<1>25. CASE SigInt
  BY ZenonT(40), <1>0, <1>25 DEF TypeOK, SigInt, Step, Unwritten, MainSteps, threads
<1>26. CASE AcceptEnds
  BY ZenonT(40), <1>0, <1>26 DEF TypeOK, AcceptEnds, Step, Unwritten, MainSteps, threads
<1>27. CASE Sync
  BY <1>0, <1>27 DEF TypeOK, Sync, Step, Unwritten, MainSteps, threads
<1>28. CASE CloseListener
  BY <1>0, <1>28 DEF TypeOK, CloseListener, Step, Unwritten, MainSteps, threads
<1>29. CASE Join
  BY <1>0, <1>29 DEF TypeOK, Join, Step, Unwritten, MainSteps, threads
<1>30. CASE Lock
  BY <1>0, <1>30 DEF TypeOK, Lock, Step, Unwritten, MainSteps, threads
<1>31. CASE CloseSlot
  BY <1>0, <1>31 DEF TypeOK, CloseSlot, Step, Unwritten, MainSteps, threads
<1>32. CASE SlotsClosed
  BY <1>0, <1>32 DEF TypeOK, SlotsClosed, Step, Unwritten, MainSteps, threads
<1>33. CASE ReadOld
  BY <1>0, <1>33 DEF TypeOK, ReadOld, Step, Unwritten, MainSteps, threads
<1>34. CASE Destroy
  BY <1>0, <1>34 DEF TypeOK, Destroy, Step, Unwritten, MainSteps, threads
<1>35. CASE Return
  BY <1>0, <1>35 DEF TypeOK, Return, Step, Unwritten, MainSteps, threads
<1> QED
  BY <1>1, <1>2, <1>3, <1>4, <1>5, <1>6, <1>7, <1>8, <1>9, <1>10, <1>11, <1>12, <1>13, <1>14, <1>15, <1>16, <1>17, <1>18, <1>19, <1>20, <1>21, <1>22, <1>23, <1>24, <1>25, <1>26, <1>27, <1>28, <1>29, <1>30, <1>31, <1>32, <1>33, <1>34, <1>35 DEF Lives, Runs, Ends
-----------------------------------------------------------------------------
(* What steps do to descriptors *)

\* Nothing at all.
Same == UNCHANGED <<listen_fd, open, fd, file, fdw>>

\* A session opens a file,
SessionOpens(c) ==
    /\ file[c] = 0
    /\ \E f \in Files : open' = [open EXCEPT ![Lowest] = f]
    /\ file' = [file EXCEPT ![c] = Lowest]
    /\ UNCHANGED <<listen_fd, fd, fdw, slots>>

\* and closes it, whatever its number stands for by then.
SessionFinishes(c) ==
    /\ file[c] # 0
    /\ open' = [open EXCEPT ![file[c]] = "free"]
    /\ file' = [file EXCEPT ![c] = 0]
    /\ UNCHANGED <<listen_fd, fd, fdw, slots>>

\* The listening socket is closed, by the handler or by server_shutdown.
ListenerCloses ==
    /\ open' = IF listen_fd # 0 THEN [open EXCEPT ![listen_fd] = "free"] ELSE open
    /\ listen_fd' = 0
    /\ UNCHANGED <<fd, file, fdw, slots>>

\* The loop of server_shutdown comes to a slot.
PicksSlot ==
    /\ fdw = 0 /\ \E c \in slots : fdw' = fd[c]
    /\ main' = "close slot"
    /\ UNCHANGED <<listen_fd, open, fd, file, slots>>

\* The main thread opens a file,
MainTakes ==
    /\ fdw = 0 /\ fdw' = Lowest
    /\ \E f \in Files : open' = [open EXCEPT ![Lowest] = f]
    /\ UNCHANGED <<listen_fd, fd, file, slots>>

\* and closes it, or the socket of a slot.
MainFrees ==
    /\ fdw # 0 /\ fdw' = 0
    /\ open' = [open EXCEPT ![fdw] = "free"]
    /\ slots' = IF main = "close slot" THEN {c \in slots : fd[c] # fdw} ELSE slots
    /\ UNCHANGED <<listen_fd, fd, file>>

\* Every step is one of these.
LEMMA Effects ==
    ASSUME TypeOK, Control, Lives
    PROVE  \/ Same \/ ListenerCloses \/ PicksSlot \/ MainTakes \/ MainFrees
           \/ \E c \in Clients : Accept(c) \/ Close(c) \/ SessionOpens(c) \/ SessionFinishes(c)
<1>1. ASSUME NEW c \in Clients, ClientLeaves(c) PROVE Same
  BY <1>1 DEF ClientLeaves, Session, threads, Same
<1>2. ASSUME NEW c \in Clients, Hello(c) PROVE Same
  BY <1>2 DEF Hello, Session, threads, Same
<1>3. ASSUME NEW c \in Clients, Request(c) PROVE Same
  BY <1>3 DEF Request, Session, threads, Same
<1>4. ASSUME NEW c \in Clients, NoHello(c) PROVE Same
  BY <1>4 DEF NoHello, Session, threads, Same
<1>5. ASSUME NEW c \in Clients, Register(c) PROVE Same
  BY <1>5 DEF Register, Session, threads, Same
<1>6. ASSUME NEW c \in Clients, Loop(c) PROVE Same
  BY <1>6 DEF Loop, Session, threads, Same
<1>7. ASSUME NEW c \in Clients, ReadEnds(c) PROVE Same
  BY <1>7 DEF ReadEnds, Session, threads, Same
<1>8. ASSUME NEW c \in Clients, OrderLocks(c) PROVE Same
  BY <1>8 DEF OrderLocks, Session, threads, Same
<1>9. ASSUME NEW c \in Clients, Announce(c) PROVE Same
  BY <1>9 DEF Announce, Session, threads, Same
<1>10. ASSUME NEW c \in Clients, StaffCalls(c) PROVE Same
  BY <1>10 DEF StaffCalls, Session, threads, Same
<1>11. ASSUME NEW c \in Clients, MenuReads(c) PROVE Same
  BY <1>11 DEF MenuReads, Session, threads, Same
<1>12. ASSUME NEW c \in Clients, Reply(c) PROVE Same
  BY <1>12 DEF Reply, Session, threads, Same
<1>13. ASSUME NEW c \in Clients, Leave(c) PROVE Same
  BY <1>13 DEF Leave, Session, threads, Same
<1>14. CASE Broadcast
  BY <1>14 DEF Broadcast, Step, threads, Same
<1>15. CASE ScreenEnds
  BY <1>15 DEF ScreenEnds, Step, threads, Same
<1>16. CASE AcceptEnds
  BY <1>16 DEF AcceptEnds, Step, threads, Same
<1>17. CASE Sync
  BY <1>17 DEF Sync, Step, threads, Same
<1>18. CASE Join
  BY <1>18 DEF Join, Step, threads, Same
<1>19. CASE Lock
  BY <1>19 DEF Lock, Step, threads, Same
<1>20. CASE SlotsClosed
  BY <1>20 DEF SlotsClosed, Step, threads, Same
<1>21. CASE MainRenames
  BY <1>21 DEF MainRenames, RenamesFile, Step, threads, Same
<1>22. CASE Destroy
  BY <1>22 DEF Destroy, Step, threads, Same
<1>23. CASE Return
  BY <1>23 DEF Return, Step, threads, Same
<1>24. ASSUME NEW c \in Clients, LogOpens(c) PROVE SessionOpens(c)
  BY <1>24 DEF LogOpens, Session, Opens, SessionOpens, Files, Control
<1>25. ASSUME NEW c \in Clients, SaveOpens(c) PROVE SessionOpens(c)
  BY <1>25 DEF SaveOpens, Session, Opens, SessionOpens, Files, Control
<1>26. ASSUME NEW c \in Clients, LogEnds(c) PROVE SessionFinishes(c)
  BY <1>26 DEF LogEnds, Session, Finishes, SessionFinishes, Control
<1>27. ASSUME NEW c \in Clients, SaveEnds(c) PROVE SessionFinishes(c)
  BY <1>27 DEF SaveEnds, Session, Finishes, SessionFinishes, Control
<1>28. CASE SigInt
  BY <1>28 DEF SigInt, Step, threads, ListenerCloses
<1>29. CASE CloseListener
  BY <1>29 DEF CloseListener, Step, threads, ListenerCloses
<1>30. CASE ShutSlot
  BY <1>30 DEF ShutSlot, Step, PicksSlot, Control
<1>31. CASE MainOpens
  BY <1>31 DEF MainOpens, OpensFile, Step, MainTakes, Control, Files
<1>32. CASE CloseSlot
  BY <1>32 DEF CloseSlot, Step, MainFrees, Control
<1>33. CASE ReadOld
  BY <1>33 DEF ReadOld, Step, MainFrees, Control
<1>34. CASE MainWrites
  BY <1>34 DEF MainWrites, WritesFile, Step, MainFrees, Control
<1> QED
  BY <1>1, <1>2, <1>3, <1>4, <1>5, <1>6, <1>7, <1>8, <1>9, <1>10, <1>11, <1>12, <1>13, <1>14, <1>15, <1>16, <1>17, <1>18, <1>19, <1>20, <1>21, <1>22, <1>23, <1>24, <1>25, <1>26, <1>27, <1>28, <1>29, <1>30, <1>31, <1>32, <1>33, <1>34 DEF Lives, Runs, Ends

\* A number that gets used gets an owner, and only its closing takes it away.
LEMMA OwnedStep == TypeOK /\ Control /\ Owned /\ [Next]_vars => Owned'
<1> SUFFICES ASSUME TypeOK, Control, Owned, Same \/ Lives PROVE Owned'
  BY DEF Next, vars, threads, Same
<1> USE DEF Owned
<1>1. CASE Same
  BY <1>1 DEF Same
<1>2. CASE ListenerCloses
  BY <1>2 DEF ListenerCloses, TypeOK
<1>3. CASE PicksSlot
  <2>1. /\ fdw = 0
        /\ UNCHANGED <<listen_fd, open, fd, file>>
    BY <1>3 DEF PicksSlot
  <2>2. \A n \in Numbers : n # fdw
    BY <2>1, ShutdownAssumption DEF Numbers
  <2> QED BY <2>1, <2>2
<1>4. CASE MainTakes
  BY <1>4, LowestIsFree DEF MainTakes, TypeOK, Numbers
<1>5. CASE MainFrees
  BY <1>5 DEF MainFrees, TypeOK
<1>6. ASSUME NEW c \in Clients, Accept(c) PROVE Owned'
  <2>1. fd[c] = 0
    BY <1>6 DEF Accept, TypeOK
  <2> QED BY <1>6, <2>1 DEF Accept, TypeOK, Numbers
<1>7. ASSUME NEW c \in Clients, Close(c) PROVE Owned'
  BY <1>7 DEF Close, Session, TypeOK, Numbers
<1>8. ASSUME NEW c \in Clients, SessionOpens(c) PROVE Owned'
  BY <1>8 DEF SessionOpens, TypeOK, Numbers
<1>9. ASSUME NEW c \in Clients, SessionFinishes(c) PROVE Owned'
  BY <1>9 DEF SessionFinishes, TypeOK, Numbers
<1> QED
  BY <1>1, <1>2, <1>3, <1>4, <1>5, <1>6, <1>7, <1>8, <1>9, Effects

-----------------------------------------------------------------------------
(* Every step keeps the invariant *)

\* Who has the lock, an open file or a slot follows from where threads are.
LEMMA ControlStep == TypeOK /\ Owned /\ Control /\ [Next]_vars => Control'
<1> SUFFICES ASSUME TypeOK, Owned, Control, Lives \/ UNCHANGED vars PROVE Control'
  BY DEF Next
<1> USE DEF Before
<1>1. CASE UNCHANGED vars
  <2>1. UNCHANGED <<lock, main, accepting, fdw, slots, fd, file, session>>
    BY <1>1 DEF vars, threads
  <2> QED BY <2>1 DEF Control
<1>2. ASSUME NEW c \in Clients, NoHello(c) PROVE Control'
  BY <1>2, ShutdownAssumption DEF TypeOK, Control, NoHello, Session, LockIsFree
<1>3. ASSUME NEW c \in Clients, Loop(c) PROVE Control'
  BY <1>3, ShutdownAssumption DEF TypeOK, Control, Loop, Session, LockIsFree
<1>4. ASSUME NEW c \in Clients, ReadEnds(c) PROVE Control'
  BY <1>4, ShutdownAssumption DEF TypeOK, Control, ReadEnds, Session, LockIsFree
<1>5. ASSUME NEW c \in Clients, MenuReads(c) PROVE Control'
  BY <1>5, ShutdownAssumption DEF TypeOK, Control, MenuReads, Session, LockIsFree
<1>6. ASSUME NEW c \in Clients, OrderLocks(c) PROVE Control'
  BY <1>6, ShutdownAssumption DEF TypeOK, Control, OrderLocks, Session, LockIsFree
<1>7. ASSUME NEW c \in Clients, Announce(c) PROVE Control'
  BY <1>7, ShutdownAssumption DEF TypeOK, Control, Announce, Session, LockIsFree
<1>8. ASSUME NEW c \in Clients, StaffCalls(c) PROVE Control'
  BY <1>8, ShutdownAssumption DEF TypeOK, Control, StaffCalls, Session, LockIsFree
<1>9. ASSUME NEW c \in Clients, Hello(c) PROVE Control'
  BY <1>9, ShutdownAssumption DEF TypeOK, Control, Hello, Session, LockIsFree
<1>10. ASSUME NEW c \in Clients, Reply(c) PROVE Control'
  BY <1>10, ShutdownAssumption DEF TypeOK, Control, Reply, Session, LockIsFree
<1>11. ASSUME NEW c \in Clients, Accept(c) PROVE Control'
  BY <1>11, ShutdownAssumption DEF TypeOK, Control, Accept, Session, LockIsFree
<1>12. ASSUME NEW c \in Clients, Close(c) PROVE Control'
  BY <1>12, ShutdownAssumption DEF TypeOK, Control, Close, Session, LockIsFree
<1>13. ASSUME NEW c \in Clients, Leave(c) PROVE Control'
  BY <1>13, ShutdownAssumption DEF TypeOK, Control, Leave, Session, LockIsFree
<1>14. ASSUME NEW c \in Clients, ClientLeaves(c) PROVE Control'
  BY <1>14 DEF TypeOK, Control, ClientLeaves, threads
<1>15. ASSUME NEW c \in Clients, Request(c) PROVE Control'
  <2>1. PICK what \in {"order", "staff", "menu"} : Session(c, "reading", what)
    BY <1>15 DEF Request
  <2> QED BY <1>15, <2>1 DEF TypeOK, Control, Request, Session
<1>16. ASSUME NEW c \in Clients, Register(c) PROVE Control'
  <2>1. lock # Main /\ slots' = slots \cup {c} /\ session' = [session EXCEPT ![c] = "loop"]
        /\ session[c] = "register"
    BY <1>16, ShutdownAssumption DEF Register, Session, LockIsFree
  <2>2. \A d \in slots' : session'[d] \notin {"none", "hello", "register", "close"}
    BY <2>1 DEF TypeOK, Control
  <2>3. \A d \in Clients :
           file[d] # 0 <=> session'[d] \in {"order logging", "staff logging", "saving"}
    BY <2>1 DEF TypeOK, Control
  <2> QED BY <1>16, <2>1, <2>2, <2>3 DEF Control, Register, Session
<1>17. ASSUME NEW c \in Clients, LogOpens(c) PROVE Control'
  <2>1. file[c] = 0
    BY <1>17 DEF LogOpens, Session, Control
  <2>2. Lowest # 0
    BY <2>1, LowestIsFree
  <2>3. PICK to \in {"order logging", "staff logging"} : session' = [session EXCEPT ![c] = to]
    BY <1>17 DEF LogOpens, Session
  <2>4. \A d \in Clients :
           file'[d] # 0 <=> session'[d] \in {"order logging", "staff logging", "saving"}
    BY <1>17, <2>2, <2>3 DEF LogOpens, Opens, TypeOK, Control
  <2>5. \A d \in slots : session'[d] \notin {"none", "hello", "register", "close"}
    BY <2>3 DEF TypeOK, Control
  <2>6. UNCHANGED <<accepting, main, fdw, fd, slots, lock>>
    BY <1>17 DEF LogOpens, Session
  <2> QED BY <2>4, <2>5, <2>6 DEF Control
<1>18. ASSUME NEW c \in Clients, SaveOpens(c) PROVE Control'
  <2>1. file[c] = 0
    BY <1>18 DEF SaveOpens, Session, Control
  <2>2. Lowest # 0
    BY <2>1, LowestIsFree
  <2>3. PICK to \in {"saving"} : session' = [session EXCEPT ![c] = to]
    BY <1>18 DEF SaveOpens, Session
  <2>4. \A d \in Clients :
           file'[d] # 0 <=> session'[d] \in {"order logging", "staff logging", "saving"}
    BY <1>18, <2>2, <2>3 DEF SaveOpens, Opens, TypeOK, Control
  <2>5. \A d \in slots : session'[d] \notin {"none", "hello", "register", "close"}
    BY <2>3 DEF TypeOK, Control
  <2> QED BY <1>18, <2>4, <2>5 DEF Control, SaveOpens, Session, Opens
<1>19. ASSUME NEW c \in Clients, LogEnds(c) PROVE Control'
  <2>1. PICK to \in {"save", "reply"} : session' = [session EXCEPT ![c] = to]
    BY <1>19 DEF LogEnds, Session
  <2>2. \A d \in Clients :
           file'[d] # 0 <=> session'[d] \in {"order logging", "staff logging", "saving"}
    BY <1>19, <2>1 DEF LogEnds, Finishes, TypeOK, Control
  <2>3. \A d \in slots : session'[d] \notin {"none", "hello", "register", "close"}
    BY <2>1 DEF TypeOK, Control
  <2>4. UNCHANGED <<accepting, main, fdw, fd, slots, lock>>
    BY <1>19 DEF LogEnds, Session
  <2> QED BY <2>2, <2>3, <2>4 DEF Control
<1>20. ASSUME NEW c \in Clients, SaveEnds(c) PROVE Control'
  <2>1. PICK to \in {"announce"} : session' = [session EXCEPT ![c] = to]
    BY <1>20 DEF SaveEnds, Session
  <2>2. \A d \in Clients :
           file'[d] # 0 <=> session'[d] \in {"order logging", "staff logging", "saving"}
    BY <1>20, <2>1 DEF SaveEnds, Finishes, TypeOK, Control
  <2>3. \A d \in slots : session'[d] \notin {"none", "hello", "register", "close"}
    BY <2>1 DEF TypeOK, Control
  <2> QED BY <1>20, <2>2, <2>3 DEF Control, SaveEnds, Session, Finishes
<1>21. CASE Broadcast
  BY <1>21, ShutdownAssumption DEF TypeOK, Control, Broadcast, Step, threads, LockIsFree
<1>22. CASE ScreenEnds
  BY <1>22, ShutdownAssumption DEF TypeOK, Control, ScreenEnds, Step, threads, LockIsFree
<1>23. CASE SigInt
  BY <1>23, ShutdownAssumption DEF TypeOK, Control, SigInt, Step, threads, LockIsFree
<1>24. CASE AcceptEnds
  BY <1>24, ShutdownAssumption DEF TypeOK, Control, AcceptEnds, Step, threads, LockIsFree
<1>25. CASE Sync
  BY <1>25, ShutdownAssumption DEF TypeOK, Control, Sync, Step, threads, LockIsFree
<1>26. CASE CloseListener
  BY <1>26, ShutdownAssumption DEF TypeOK, Control, CloseListener, Step, threads, LockIsFree
<1>27. CASE Join
  BY <1>27, ShutdownAssumption DEF TypeOK, Control, Join, Step, threads, LockIsFree
<1>28. CASE Lock
  BY <1>28, ShutdownAssumption DEF TypeOK, Control, Lock, Step, threads, LockIsFree
<1>29. CASE CloseSlot
  BY <1>29, ShutdownAssumption DEF TypeOK, Control, CloseSlot, Step, threads, LockIsFree
<1>30. CASE SlotsClosed
  BY <1>30, ShutdownAssumption DEF TypeOK, Control, SlotsClosed, Step, threads, LockIsFree
<1>31. CASE ReadOld
  BY <1>31, ShutdownAssumption DEF TypeOK, Control, ReadOld, Step, threads, LockIsFree
<1>32. CASE Destroy
  BY <1>32, ShutdownAssumption DEF TypeOK, Control, Destroy, Step, threads, LockIsFree
<1>33. CASE Return
  BY <1>33, ShutdownAssumption DEF TypeOK, Control, Return, Step, threads, LockIsFree
<1>34. CASE MainRenames
  <2>1. /\ main \in {"rename conf", "rename menu"}
        /\ main' \in {"open menu", "destroy"}
        /\ UNCHANGED <<accepting, fd, session, file, slots, lock, fdw>>
    BY <1>34 DEF MainRenames, RenamesFile, Step
  <2> QED BY <2>1 DEF Control
<1>35. CASE ShutSlot
  <2>1. PICK c \in slots : fdw' = fd[c]
    BY <1>35 DEF ShutSlot
  <2>2. fdw' # 0
    BY <2>1 DEF Control, TypeOK
  <2> QED BY <1>35, <2>1, <2>2 DEF Control, ShutSlot, Step
<1>36. CASE MainOpens
  <2>1. fdw = 0
    BY <1>36 DEF MainOpens, OpensFile, Step, Control
  <2>2. Lowest # 0
    BY <2>1, LowestIsFree
  <2>3. /\ main \in {"open old", "open conf", "open menu"}
        /\ main' \in {"read old", "write conf", "write menu"} /\ fdw' = Lowest
        /\ UNCHANGED <<accepting, fd, session, file, slots, lock>>
    BY <1>36 DEF MainOpens, OpensFile, Step
  <2> QED BY <2>2, <2>3 DEF Control
<1>37. CASE MainWrites
  <2>1. /\ main \in {"write conf", "write menu"} /\ fdw' = 0
        /\ main' \in {"rename conf", "open menu", "rename menu", "destroy"}
        /\ UNCHANGED <<accepting, fd, session, file, slots, lock>>
    BY <1>37 DEF MainWrites, WritesFile, Step
  <2> QED BY <2>1 DEF Control
<1> QED
  BY <1>1, <1>2, <1>3, <1>4, <1>5, <1>6, <1>7, <1>8, <1>9, <1>10, <1>11, <1>12, <1>13, <1>14, <1>15, <1>16, <1>17, <1>18, <1>19, <1>20, <1>21, <1>22, <1>23, <1>24, <1>25, <1>26, <1>27, <1>28, <1>29, <1>30, <1>31, <1>32, <1>33, <1>34, <1>35, <1>36, <1>37 DEF Lives, Runs, Ends

\* Only the main thread's own steps move it.
LEMMA MainMoves ==
    ASSUME Lives, main' # main
    PROVE  ScreenEnds \/ Ends
<1>1. ASSUME NEW c \in Clients,
             Runs(c) \/ Accept(c) \/ ClientLeaves(c) \/ Hello(c) \/ Request(c)
      PROVE  FALSE
  BY <1>1 DEF Runs, Accept, ClientLeaves, Hello, Request, NoHello, Register, Loop, ReadEnds,
     OrderLocks, LogOpens, LogEnds, SaveOpens, SaveEnds, Announce, StaffCalls, MenuReads,
     Reply, Leave, Close, Session, threads
<1> QED
  BY <1>1 DEF Lives, SigInt, AcceptEnds, Broadcast, Step, threads

\* Main takes no step back to where it was before it closed sockets.
LEMMA BeforeStep ==
    ASSUME Control, Lives, Before'
    PROVE  Before /\ fdw = 0
<1>1. ScreenEnds \/ Ends => Before
  BY DEF Before, ScreenEnds, Ends, Sync, CloseListener, Join, Lock, ShutSlot,
     CloseSlot, SlotsClosed, MainOpens, OpensFile, ReadOld, MainWrites, WritesFile,
     MainRenames, RenamesFile, Destroy, Return, Step
<1>2. Before
  BY <1>1, MainMoves DEF Before
<1> QED
  BY <1>2 DEF Before, Control

\* Main leaves its place in the loop over the slots by closing one.
LEMMA CloseSlotStays ==
    ASSUME Lives, main = "close slot", fdw' # 0
    PROVE  main' = "close slot"
<1>1. ScreenEnds \/ Ends => fdw' = 0
  BY DEF ScreenEnds, Ends, Sync, CloseListener, Join, Lock, ShutSlot,
     CloseSlot, SlotsClosed, MainOpens, OpensFile, ReadOld, MainWrites, WritesFile,
     MainRenames, RenamesFile, Destroy, Return, Step
<1> QED
  BY <1>1, MainMoves

\* The listening socket is closed before main goes on to join.
LEMMA ListenerStep ==
    ASSUME Lives, listen_fd' # 0, listen_fd' = listen_fd,
           main \in {"screen", "sync", "close listener"}
    PROVE  main' \in {"screen", "sync", "close listener"}
<1>1. ScreenEnds \/ Ends => main' \in {"screen", "sync", "close listener"}
  BY DEF ScreenEnds, Ends, Sync, CloseListener, Join, Lock, ShutSlot,
     CloseSlot, SlotsClosed, MainOpens, OpensFile, ReadOld, MainWrites, WritesFile,
     MainRenames, RenamesFile, Destroy, Return, Step
<1> QED
  BY <1>1, MainMoves

\* Who is sure of its socket was so before or has just been accepted; it is
\* not the session that closes, nor one that loses its slot.
LEMMA HeldStep ==
    ASSUME TypeOK, Control, Lives, NEW c \in Clients, Held(c)'
    PROVE  (Held(c) \/ Accept(c)) /\ ~ Close(c) /\ (c \in slots => c \in slots')
<1>1. ~ Close(c)
  BY DEF Close, Session, Held, Control, TypeOK
<1>2. ASSUME session' = session, slots' \subseteq slots
      PROVE  Held(c) /\ (c \in slots => c \in slots')
  BY <1>2 DEF Held, Control
<1>3. CASE \/ Broadcast \/ ScreenEnds \/ SigInt \/ AcceptEnds \/ Ends
           \/ \E d \in Clients : ClientLeaves(d)
  <2>1. session' = session /\ slots' \subseteq slots
    BY <1>3 DEF Broadcast, ScreenEnds, SigInt, AcceptEnds, Ends, ClientLeaves, Sync,
       CloseListener, Join, Lock, ShutSlot, CloseSlot, SlotsClosed, MainOpens, OpensFile,
       ReadOld, MainWrites, WritesFile, MainRenames, RenamesFile, Destroy, Return, Step, threads
  <2> QED BY <2>1, <1>1, <1>2
<1>4. ASSUME NEW d \in Clients, Accept(d) PROVE (Held(c) \/ Accept(c)) /\ (c \in slots => c \in slots')
  BY <1>4 DEF Accept, Session, Held, TypeOK, Control
<1>5. ASSUME NEW d \in Clients, NoHello(d) PROVE (Held(c)) /\ (c \in slots => c \in slots')
  BY <1>5 DEF NoHello, Session, Held, TypeOK, Control
<1>6. ASSUME NEW d \in Clients, Register(d) PROVE (Held(c)) /\ (c \in slots => c \in slots')
  BY <1>6 DEF Register, Session, Held, TypeOK, Control
<1>7. ASSUME NEW d \in Clients, Loop(d) PROVE (Held(c)) /\ (c \in slots => c \in slots')
  BY <1>7 DEF Loop, Session, Held, TypeOK, Control
<1>8. ASSUME NEW d \in Clients, ReadEnds(d) PROVE (Held(c)) /\ (c \in slots => c \in slots')
  BY <1>8 DEF ReadEnds, Session, Held, TypeOK, Control
<1>9. ASSUME NEW d \in Clients, OrderLocks(d) PROVE (Held(c)) /\ (c \in slots => c \in slots')
  BY <1>9 DEF OrderLocks, Session, Held, TypeOK, Control
<1>10. ASSUME NEW d \in Clients, LogOpens(d) PROVE (Held(c)) /\ (c \in slots => c \in slots')
  BY <1>10 DEF LogOpens, Session, Held, TypeOK, Control
<1>11. ASSUME NEW d \in Clients, LogEnds(d) PROVE (Held(c)) /\ (c \in slots => c \in slots')
  BY <1>11 DEF LogEnds, Session, Held, TypeOK, Control
<1>12. ASSUME NEW d \in Clients, SaveOpens(d) PROVE (Held(c)) /\ (c \in slots => c \in slots')
  BY <1>12 DEF SaveOpens, Session, Held, TypeOK, Control
<1>13. ASSUME NEW d \in Clients, SaveEnds(d) PROVE (Held(c)) /\ (c \in slots => c \in slots')
  BY <1>13 DEF SaveEnds, Session, Held, TypeOK, Control
<1>14. ASSUME NEW d \in Clients, Announce(d) PROVE (Held(c)) /\ (c \in slots => c \in slots')
  BY <1>14 DEF Announce, Session, Held, TypeOK, Control
<1>15. ASSUME NEW d \in Clients, StaffCalls(d) PROVE (Held(c)) /\ (c \in slots => c \in slots')
  BY <1>15 DEF StaffCalls, Session, Held, TypeOK, Control
<1>16. ASSUME NEW d \in Clients, MenuReads(d) PROVE (Held(c)) /\ (c \in slots => c \in slots')
  BY <1>16 DEF MenuReads, Session, Held, TypeOK, Control
<1>17. ASSUME NEW d \in Clients, Reply(d) PROVE (Held(c)) /\ (c \in slots => c \in slots')
  BY <1>17 DEF Reply, Session, Held, TypeOK, Control
<1>18. ASSUME NEW d \in Clients, Leave(d) PROVE (Held(c)) /\ (c \in slots => c \in slots')
  BY <1>18 DEF Leave, Session, Held, TypeOK, Control
<1>19. ASSUME NEW d \in Clients, Close(d) PROVE (Held(c)) /\ (c \in slots => c \in slots')
  BY <1>19 DEF Close, Session, Held, TypeOK, Control
<1>20. ASSUME NEW d \in Clients, Request(d) PROVE (Held(c)) /\ (c \in slots => c \in slots')
  BY <1>20 DEF Request, Session, Held, TypeOK, Control
<1>21. ASSUME NEW d \in Clients, Hello(d) PROVE (Held(c)) /\ (c \in slots => c \in slots')
  BY <1>21 DEF Hello, Session, Held, TypeOK, Control
<1> QED
  BY <1>1, <1>3, <1>4, <1>5, <1>6, <1>7, <1>8, <1>9, <1>10, <1>11, <1>12, <1>13, <1>14, <1>15, <1>16, <1>17, <1>18, <1>19, <1>20, <1>21 DEF Lives, Runs

\* Numbers that are handed out were free, so nobody had them.
LEMMA HonestStep == TypeOK /\ Control /\ Owned /\ Honest /\ [Next]_vars => Honest'
<1> SUFFICES ASSUME TypeOK, Control, Owned, Honest, Lives \/ UNCHANGED vars, Before'
             PROVE  Honest'
  BY DEF Next, Honest
<1>0. CASE UNCHANGED vars
  <2>1. UNCHANGED <<main, listen_fd, open, fd, file>>
    BY <1>0 DEF vars, threads
  <2> QED BY <2>1 DEF Honest, Before
<1> SUFFICES ASSUME Lives PROVE Honest'
  BY <1>0
<1>1. /\ fdw = 0
      /\ listen_fd # 0 => open[listen_fd] = "listener"
      /\ \A c \in Clients : fd[c] # 0 => open[fd[c]] = c
      /\ \A c \in Clients : file[c] # 0 => open[file[c]] \in Files
      /\ \A c, d \in Clients : file[c] = file[d] /\ file[c] # 0 => c = d
  BY BeforeStep DEF Honest
<1>2. /\ "free" \notin Files \cup Clients /\ "listener" \notin Files \cup Clients
      /\ Clients \cap Files = {} /\ "free" # "listener"
  BY ShutdownAssumption DEF Files
<1>3. CASE Same
  BY <1>1, <1>3 DEF Same, Honest
<1>4. CASE ListenerCloses
  BY <1>1, <1>2, <1>4 DEF ListenerCloses, Honest, TypeOK
<1>5. CASE PicksSlot
  BY <1>5 DEF PicksSlot, Before
<1>6. CASE MainTakes
  <2>1. Lowest \in Numbers /\ open[Lowest] = "free"
    BY <1>1, LowestIsFree
  <2> QED BY <1>1, <1>2, <1>6, <2>1 DEF MainTakes, Honest, TypeOK
<1>7. CASE MainFrees
  BY <1>1, <1>7 DEF MainFrees
<1>8. ASSUME NEW c \in Clients, Accept(c) PROVE Honest'
  <2>1. Lowest \in Numbers /\ open[Lowest] = "free"
    BY <1>8, LowestIsFree DEF Accept, TypeOK
  <2> QED BY <1>1, <1>2, <1>8, <2>1 DEF Accept, Honest, TypeOK
<1>9. ASSUME NEW c \in Clients, Close(c) PROVE Honest'
  <2>1. \A d \in Clients : fd[d] = fd[c] /\ fd[c] # 0 => d = c
    BY <1>1
  <2> QED BY <1>1, <1>2, <1>9, <2>1 DEF Close, Session, Honest, TypeOK
<1>10. ASSUME NEW c \in Clients, SessionOpens(c) PROVE Honest'
  <2>1. Lowest \in Numbers /\ open[Lowest] = "free"
    BY <1>1, LowestIsFree
  <2> QED BY <1>1, <1>2, <1>10, <2>1 DEF SessionOpens, Honest, TypeOK
<1>11. ASSUME NEW c \in Clients, SessionFinishes(c) PROVE Honest'
  BY <1>1, <1>2, <1>11 DEF SessionFinishes, Honest, TypeOK
<1> QED
  BY <1>3, <1>4, <1>5, <1>6, <1>7, <1>8, <1>9, <1>10, <1>11, Effects

\* The socket of a session that is sure of it is left alone: its number is not
\* free, so it is handed out to nobody, and no other thread that still has a
\* number has this one.
LEMMA ApartStep == IInv /\ TypeOK' /\ Control' /\ [Next]_vars => Apart'
<1> SUFFICES ASSUME IInv, TypeOK', Control', Lives \/ UNCHANGED vars PROVE Apart'
  BY DEF Next
<1>0. CASE UNCHANGED vars
  <2>1. UNCHANGED <<main, listen_fd, open, fd, file, fdw, session, slots>>
    BY <1>0 DEF vars, threads
  <2> QED BY <2>1 DEF IInv, Apart, Before, Held
<1> SUFFICES ASSUME Lives PROVE Apart'
  BY <1>0
<1>1. TypeOK /\ Control /\ Owned /\ Honest /\ Apart
  BY DEF IInv
<1>2. /\ "free" \notin Files \cup Clients /\ "listener" \notin Files \cup Clients
      /\ Clients \cap Files = {} /\ "free" # "listener"
  BY ShutdownAssumption DEF Files
<1>3. listen_fd' # 0 => main' \in {"screen", "sync", "close listener"}
  <2>1. listen_fd' # 0 => listen_fd' = listen_fd
    BY <1>1, Effects DEF Same, ListenerCloses, PicksSlot, MainTakes, MainFrees,
       Accept, Close, Session, SessionOpens, SessionFinishes
  <2> QED BY <1>1, <2>1, ListenerStep DEF Apart
<1>4. \A c, d \in Clients : fd'[c] = fd'[d] /\ fd'[c] # 0 => c = d
  <2>1. CASE fd' = fd
    BY <1>1, <2>1 DEF Apart
  <2>2. ASSUME NEW c \in Clients, Accept(c)
        PROVE  \A d, e \in Clients : fd'[d] = fd'[e] /\ fd'[d] # 0 => d = e
    <3>1. Before
      BY <1>1, <2>2 DEF Accept, Control
    <3>2. Lowest \in Numbers /\ open[Lowest] = "free"
      BY <1>1, <2>2, LowestIsFree DEF Accept, TypeOK
    <3>3. \A d \in Clients : fd[d] # Lowest
      BY <1>1, <1>2, <3>1, <3>2, ShutdownAssumption DEF Honest, Numbers
    <3>4. \A d \in Clients : fd'[d] = IF d = c THEN Lowest ELSE fd[d]
      BY <1>1, <2>2 DEF Accept, TypeOK
    <3> QED BY ZenonT(40), <1>1, <3>3, <3>4 DEF Apart
  <2>3. ASSUME NEW c \in Clients, Close(c)
        PROVE  \A d, e \in Clients : fd'[d] = fd'[e] /\ fd'[d] # 0 => d = e
    <3>1. \A d \in Clients : fd'[d] = IF d = c THEN 0 ELSE fd[d]
      BY <1>1, <2>3 DEF Close, TypeOK
    <3> QED BY ZenonT(40), <1>1, <3>1 DEF Apart
  <2>4. fd' = fd \/ \E c \in Clients : Accept(c) \/ Close(c)
    BY <1>1, Effects DEF Same, ListenerCloses, PicksSlot, MainTakes, MainFrees,
       SessionOpens, SessionFinishes
  <2> QED BY <2>1, <2>2, <2>3, <2>4
<1>5. ASSUME NEW c \in Clients, Held(c)'
      PROVE  /\ open'[fd'[c]] = c
             /\ \A d \in Clients : file'[d] # fd'[c]
             /\ fdw' = fd'[c] => main' = "close slot"
  <2>0. (Held(c) \/ Accept(c)) /\ ~ Close(c)
    BY <1>1, <1>5, HeldStep
  <2>1. CASE Accept(c)
    <3>1. Before /\ fdw = 0
      BY <1>1, <2>1 DEF Accept, Control, Before
    <3>2. Lowest \in Numbers /\ Lowest # 0 /\ open[Lowest] = "free"
      BY <1>1, <2>1, LowestIsFree DEF Accept, TypeOK
    <3>3. \A d \in Clients : file[d] # Lowest
      BY <1>1, <1>2, <3>1, <3>2 DEF Honest
    <3>4. /\ fd'[c] = Lowest /\ open'[Lowest] = c
          /\ file' = file /\ fdw' = fdw
      BY <1>1, <2>1, <3>2 DEF Accept, TypeOK
    <3> QED BY <3>1, <3>2, <3>3, <3>4
  <2> SUFFICES ASSUME Held(c), ~ Accept(c)
               PROVE  /\ open'[fd'[c]] = c
                      /\ \A d \in Clients : file'[d] # fd'[c]
                      /\ fdw' = fd'[c] => main' = "close slot"
    BY <2>0, <2>1
  <2>2. /\ open[fd[c]] = c
        /\ \A d \in Clients : file[d] # fd[c]
        /\ fdw = fd[c] => main = "close slot"
    BY <1>1 DEF Apart
  <2>3. fd[c] \in Numbers /\ fd[c] # 0
    BY <1>1, ShutdownAssumption DEF Held, Control, TypeOK, Numbers
  <2>4. fdw' = fdw /\ fdw = fd[c] => main' = "close slot"
    BY <2>2, <2>3, CloseSlotStays
  <2>5. CASE Same
    BY <2>2, <2>5, <2>4 DEF Same
  <2>6. CASE ListenerCloses
    <3>1. listen_fd # 0 => open[listen_fd] = "listener"
      BY <1>1 DEF Apart, Honest, Before
    <3>2. fd[c] # listen_fd
      BY <1>2, <2>2, <2>3, <3>1
    <3>3. open'[fd[c]] = c /\ UNCHANGED <<fd, file, fdw>>
      BY <1>1, <2>2, <2>3, <2>6, <3>2 DEF ListenerCloses, TypeOK
    <3> QED BY <2>2, <2>4, <3>3
  <2>7. CASE PicksSlot
    BY <2>2, <2>7 DEF PicksSlot
  <2>8. CASE MainTakes
    <3>1. Lowest \in Numbers /\ open[Lowest] = "free"
      BY <1>1, <2>8, LowestIsFree DEF MainTakes
    <3>2. fd[c] # Lowest
      BY <1>2, <2>2, <3>1
    <3> QED BY <1>1, <2>2, <2>3, <2>8, <3>2 DEF MainTakes, TypeOK
  <2>9. CASE MainFrees
    <3>1. fd[c] # fdw
      <4>1. CASE main = "close slot"
        <5>1. PICK d \in slots : fd[d] = fdw
          BY <1>1, <4>1 DEF Control
        <5>2. d \in Clients /\ d \notin slots'
          BY <1>1, <2>9, <4>1, <5>1 DEF MainFrees, TypeOK
        <5>3. c # d
          BY <1>1, <1>5, <5>1, <5>2, HeldStep
        <5> QED BY <1>1, <2>3, <5>1, <5>2, <5>3 DEF Apart
      <4>2. CASE main # "close slot"
        BY <2>2, <4>2
      <4> QED BY <4>1, <4>2
    <3> QED BY <1>1, <2>2, <2>3, <2>9, <3>1 DEF MainFrees, TypeOK
  <2>10. ASSUME NEW d \in Clients, d # c, Accept(d)
        PROVE  /\ open'[fd'[c]] = c
               /\ \A e \in Clients : file'[e] # fd'[c]
               /\ fdw' = fd'[c] => main' = "close slot"
    <3>1. Lowest \in Numbers /\ open[Lowest] = "free"
      BY <1>1, <2>10, LowestIsFree DEF Accept, TypeOK
    <3>2. fd[c] # Lowest
      BY <1>2, <2>2, <3>1
    <3>3. /\ fd'[c] = fd[c] /\ open'[fd[c]] = open[fd[c]]
          /\ file' = file /\ fdw' = fdw
      BY <1>1, <2>3, <2>10, <3>2 DEF Accept, TypeOK
    <3> QED BY <2>2, <2>4, <3>3
  <2>11. ASSUME NEW d \in Clients, d # c, Close(d)
         PROVE  /\ open'[fd'[c]] = c
                /\ \A e \in Clients : file'[e] # fd'[c]
                /\ fdw' = fd'[c] => main' = "close slot"
    <3>1. fd[d] # fd[c]
      BY <1>1, <2>3, <2>11 DEF Apart
    <3>2. /\ fd'[c] = fd[c] /\ open'[fd[c]] = open[fd[c]]
          /\ file' = file /\ fdw' = fdw
      BY <1>1, <2>3, <2>11, <3>1 DEF Close, Session, TypeOK
    <3> QED BY <2>2, <2>4, <3>2
  <2>12. ASSUME NEW d \in Clients, SessionOpens(d)
         PROVE  /\ open'[fd'[c]] = c
                /\ \A e \in Clients : file'[e] # fd'[c]
                /\ fdw' = fd'[c] => main' = "close slot"
    <3>1. Lowest \in Numbers /\ open[Lowest] = "free"
      BY <1>1, <2>12, LowestIsFree DEF SessionOpens
    <3>2. fd[c] # Lowest
      BY <1>2, <2>2, <3>1
    <3>3. /\ fd' = fd /\ open'[fd[c]] = open[fd[c]] /\ fdw' = fdw
          /\ \A e \in Clients : file'[e] \in {file[e], Lowest}
      BY <1>1, <2>3, <2>12, <3>2 DEF SessionOpens, TypeOK
    <3> QED BY <2>2, <2>4, <3>2, <3>3
  <2>13. ASSUME NEW d \in Clients, SessionFinishes(d)
         PROVE  /\ open'[fd'[c]] = c
                /\ \A e \in Clients : file'[e] # fd'[c]
                /\ fdw' = fd'[c] => main' = "close slot"
    <3>1. file[d] # fd[c]
      BY <2>2
    <3>2. /\ fd' = fd /\ open'[fd[c]] = open[fd[c]] /\ fdw' = fdw
          /\ \A e \in Clients : file'[e] \in {file[e], 0}
      BY <1>1, <2>3, <2>13, <3>1 DEF SessionFinishes, TypeOK
    <3> QED BY <2>2, <2>3, <2>4, <3>2
  <2> QED
    BY <1>1, <2>0, <2>5, <2>6, <2>7, <2>8, <2>9, <2>10, <2>11, <2>12, <2>13, Effects
<1> QED
  BY <1>3, <1>4, <1>5 DEF Apart

\* The invariant holds at the start.
LEMMA InvInit == Init => IInv
<1> SUFFICES ASSUME Init PROVE IInv
  OBVIOUS
<1>1. 1 \in Numbers
  <2>1. Cardinality(Clients) \in Nat
    BY ShutdownAssumption, FS_CardinalityType
  <2> QED BY <2>1, ShutdownAssumption DEF Numbers
<1>2. TypeOK
  <2>1. /\ open \in [Numbers -> {"free", "listener"} \cup Files \cup Clients]
        /\ peer \in [Clients -> {"away", "up", "gone", "broken", "shut"}]
        /\ fd \in [Clients -> {0} \cup Numbers] /\ file \in [Clients -> {0} \cup Numbers]
        /\ session \in [Clients -> SessionSteps]
        /\ \A c \in Clients : fd[c] = 0 <=> session[c] = "none"
        /\ text \in [Files -> SUBSET Words]
    BY DEF Init, SessionSteps
  <2>2. connects \in 0 .. MAX_CONNECTS /\ lines \in 0 .. MAX_LINES
    BY ShutdownAssumption DEF Init
  <2>3. /\ alive \in BOOLEAN /\ stop \in BOOLEAN /\ accepting \in BOOLEAN
        /\ late \in BOOLEAN /\ left \in BOOLEAN
    BY Zenon DEF Init
  <2> QED BY <2>1, <2>2, <2>3 DEF Init, TypeOK, MainSteps
<1>3. Control /\ Honest /\ Apart /\ Owned
  BY <1>1, ShutdownAssumption DEF Init, Control, Honest, Apart, Owned, Before, Held, TypeOK
<1> QED
  BY <1>2, <1>3 DEF IInv

\* The invariant is inductive.
LEMMA InvStep == IInv /\ [Next]_vars => IInv'
BY TypeStep, ControlStep, OwnedStep, HonestStep, ApartStep DEF IInv

\* The invariant holds of every behaviour.
LEMMA Invariance == Spec => []IInv
BY InvInit, InvStep, PTL DEF Spec

-----------------------------------------------------------------------------
(* Theorems *)

\* Types, for any number of clients and connections: whoever opens a file or
\* accepts a connection gets a number that was free.
THEOREM ShutdownTypeCorrect == Spec => []TypeOK
<1>1. IInv => TypeOK
  BY DEF IInv
<1> QED
  BY <1>1, Invariance, PTL

\* A broadcast of broadcast_raw never goes to a file or to somebody else's
\* socket, although server_shutdown closes sockets that session threads still
\* use and close themselves later (server.c 174-183, 283-309).
THEOREM BroadcastsGoToSockets == Spec => []SlotsAreSockets
<1>1. IInv => SlotsAreSockets
  BY DEF IInv, Apart, SlotsAreSockets, Held, TypeOK
<1> QED
  BY <1>1, Invariance, PTL

-----------------------------------------------------------------------------
(* An end of the process during which no session is busy and no client has   *)
(* left saves both files, whatever the sessions do afterwards with the       *)
(* descriptor numbers they still hold.                                       *)

\* Sessions with an open file.
Logging == {"order logging", "staff logging"}
Writing == Logging \cup {"saving"}

\* Nobody writes to a socket that was shut: main shuts them when no session is
\* handling a request any more, and a session that has yet to register keeps
\* its own.
Peers ==
    /\ alive
    /\ \A c \in Clients : peer[c] \in {"away", "up", "shut"}
    /\ \A c \in Clients :
           peer[c] = "shut" => ~ Before /\ session[c] \notin {"hello", "register"}
    /\ ~ Before => \A c \in Clients : session[c] \notin Handling

\* A session's number stands for the file it has opened.
Names ==
    \A c \in Clients :
        /\ session[c] \in Logging => open[file[c]] = "orders.log"
        /\ session[c] = "saving" => open[file[c]] = "tables.conf.tmp"

Texts == \A f \in Files : text[f] \subseteq Own(f)

\* How far main's saves have come.
Saving ==
    /\ saved \subseteq {"config", "menu"}
    /\ main \in {"read old", "write conf", "write menu"} => fdw = 1
    /\ main = "read old" => open[1] = "tables.conf"
    /\ main = "write conf" =>
           open[1] = "tables.conf.tmp" /\ text["tables.conf.tmp"] = {}
    /\ main = "rename conf" => text["tables.conf.tmp"] = {"config"}
    /\ main \in {"open menu", "write menu", "rename menu", "destroy", "return", "done"} =>
           "config" \in saved
    /\ main = "write menu" =>
           open[1] = "menu.csv.tmp" /\ text["menu.csv.tmp"] = {}
    /\ main = "rename menu" => text["menu.csv.tmp"] = {"menu"}
    /\ main \in {"destroy", "return", "done"} => "menu" \in saved

Calm == Peers /\ Names /\ Texts /\ Saving

\* The number of the listening socket is never a session's.
NotFirst == \A c \in Clients : fd[c] # 1

QuietInv == NotFirst /\ (~ late /\ ~ left => Calm)

-----------------------------------------------------------------------------
(* Descriptors and writes *)

\* An open gives out the least number that is free.
LEMMA LowestIsLeast ==
    ASSUME TypeOK, NEW n \in Numbers, open[n] = "free"
    PROVE  Lowest \in Numbers /\ open[Lowest] = "free" /\ Lowest <= n
<1> DEFINE F == {k \in Numbers : open[k] = "free"}
<1>1. F \in SUBSET Nat /\ F # {}
  BY DEF Numbers
<1>2. \E k \in F : \A m \in F : k <= m
  <2> HIDE DEF F
  <2> QED BY <1>1, HasLeast
<1>3. \E k \in Numbers : open[k] = "free" /\ \A m \in Numbers : open[m] = "free" => k <= m
  BY <1>2
<1> QED
  BY <1>3 DEF Lowest

\* Words are written to sockets that are in order.
LEMMA CleanWrite ==
    ASSUME TypeOK, NEW ns, NEW w, Write(ns, w),
           \A c \in Clients : peer[c] # "gone",
           \A n \in ns : open[n] \in Clients /\ peer[open[n]] \notin {"shut", "broken"}
    PROVE  alive' /\ peer' = peer /\ text' = text
<1>1. \A n \in ns : ~ Breaks(n)
  BY DEF Breaks
<1>2. alive'
  BY <1>1 DEF Write
<1>3. \A n \in ns : open[n] \notin Files
  BY ShutdownAssumption
<1>4. peer' = peer
  <2>1. peer' = [c \in Clients |-> peer[c]]
    BY DEF Write
  <2> QED BY <2>1 DEF TypeOK
<1>5. text' = text
  <2>1. text' = [f \in Files |-> text[f]]
    BY <1>3 DEF Write
  <2> QED BY <2>1 DEF TypeOK
<1> QED
  BY <1>2, <1>4, <1>5

\* Words are written to a file.
LEMMA FileWrite ==
    ASSUME TypeOK, NEW n, NEW w, Write({n}, w), open[n] \in Files,
           \A c \in Clients : peer[c] # "gone"
    PROVE  alive' /\ peer' = peer
           /\ text' = [text EXCEPT ![open[n]] = @ \cup {w}]
<1>1. open[n] \notin Clients
  BY ShutdownAssumption
<1>2. \A m \in {n} : ~ Breaks(m)
  BY <1>1 DEF Breaks
<1>3. alive'
  BY <1>2 DEF Write
<1>4. peer' = peer
  <2>1. peer' = [c \in Clients |-> peer[c]]
    BY DEF Write
  <2> QED BY <2>1 DEF TypeOK
<1>5. text' = [text EXCEPT ![open[n]] = @ \cup {w}]
  <2>1. text' = [f \in Files |-> IF open[n] = f THEN text[f] \cup {w} ELSE text[f]]
    BY DEF Write
  <2> QED BY <2>1 DEF TypeOK
<1> QED
  BY <1>3, <1>4, <1>5

\* Main is at one of the places before it closes sockets or at one after it.
LEMMA BeforeOrClosing ==
    ASSUME main \in MainSteps
    PROVE  ~ Before <=> main \in Closing
BY DEF MainSteps, Before, Closing

-----------------------------------------------------------------------------
(* What keeps the parts *)

\* A step that neither writes nor opens anything, as far as sessions are
\* concerned.
Undisturbing ==
    /\ alive' /\ UNCHANGED <<peer, text>>
    /\ \A c \in Clients : session'[c] \in Writing =>
           session'[c] = session[c] /\ file'[c] = file[c] /\ open'[file[c]] = open[file[c]]
    /\ \A c \in Clients : session'[c] \in {"hello", "register"} =>
           session[c] \in {"hello", "register"}
    /\ Before' => Before

\* It keeps what concerns sessions.
LEMMA Undisturbed ==
    ASSUME Peers, Names, Texts, Undisturbing,
           ~ Before' => \A c \in Clients : session'[c] \notin Handling
    PROVE  Peers' /\ Names' /\ Texts'
<1>1. Peers'
  BY DEF Peers, Undisturbing
<1>2. Names'
  BY ZenonT(40) DEF Names, Undisturbing, Writing, Logging
<1>3. Texts'
  BY DEF Texts, Undisturbing
<1> QED
  BY <1>1, <1>2, <1>3

\* Main's saves come no further.
Resting ==
    /\ UNCHANGED <<saved, main, fdw>>
    /\ ~ Before => text' = text /\ open'[1] = open[1]

\* They stay where they are.
LEMMA SavingRests == ASSUME Saving, Resting PROVE Saving'
<1>1. CASE Before
  BY <1>1 DEF Before, Saving, Resting
<1>2. CASE ~ Before
  BY <1>2 DEF Saving, Resting
<1> QED
  BY <1>1, <1>2

\* Main has not begun to save.
LEMMA SavingLater ==
    ASSUME Saving, saved' = saved, Before' \/ main' \in {"slots", "close slot", "open old"}
    PROVE  Saving'
BY DEF Before, Saving

\* A step of a session that leaves files and numbers alone.
LEMMA SessionStays ==
    ASSUME TypeOK, NEW c \in Clients, NEW from, NEW to, Session(c, from, to),
           to \notin Writing, to \in {"hello", "register"} => from = "hello",
           alive', UNCHANGED <<peer, text, open, file>>
    PROVE  Undisturbing /\ Resting
<1>1. session[c] = from /\ session' = [session EXCEPT ![c] = to] /\ UNCHANGED <<main, fdw, saved>>
  BY DEF Session
<1>2. Undisturbing
  BY <1>1 DEF Undisturbing, TypeOK, Before
<1> QED
  BY <1>1, <1>2 DEF Resting

-----------------------------------------------------------------------------
(* Sessions *)

\* A session that is served writes to sockets only.
LEMMA SessionWrites ==
    ASSUME IInv, Calm, NEW c \in Clients,
           Hello(c) \/ Register(c) \/ Announce(c) \/ StaffCalls(c) \/ Reply(c)
    PROVE  Undisturbing /\ Resting
<1>0. TypeOK /\ Control /\ Honest /\ Apart /\ Peers
  BY DEF IInv, Calm
<1>1. \A d \in Clients : peer[d] \notin {"gone", "broken"}
  BY <1>0 DEF Peers
<1>2. ASSUME Hello(c) PROVE Undisturbing /\ Resting
  <2>1. open[fd[c]] = c /\ peer[c] = "up" /\ Write({fd[c]}, "line")
    BY <1>2 DEF Hello, Ended
  <2>2. alive' /\ UNCHANGED <<peer, text, open, file>> /\ Session(c, "hello", "register")
    BY <1>0, <1>1, <1>2, <2>1, CleanWrite DEF Hello
  <2> QED BY <1>0, <2>2, SessionStays DEF Writing, Logging
<1>3. ASSUME Register(c) PROVE Undisturbing /\ Resting
  <2>1. session[c] = "register" /\ Write({fd[c]}, "line")
    BY <1>3 DEF Register, Session
  <2>2. open[fd[c]] = c /\ peer[c] # "shut"
    BY <1>0, <2>1 DEF Apart, Held, Peers
  <2>3. alive' /\ UNCHANGED <<peer, text, open, file>> /\ Session(c, "register", "loop")
    BY <1>0, <1>1, <1>3, <2>1, <2>2, CleanWrite DEF Register
  <2> QED BY <1>0, <2>3, SessionStays DEF Writing, Logging
<1>4. ASSUME session[c] \in Handling
      PROVE  /\ open[fd[c]] = c /\ peer[c] # "shut"
             /\ \A n \in SlotNumbers : open[n] \in Clients /\ peer[open[n]] # "shut"
  <2>1. Before
    BY <1>0, <1>4 DEF Peers
  <2>2. fd[c] # 0
    BY <1>0, <1>4 DEF TypeOK, Handling
  <2>3. \A d \in slots : d \in Clients /\ open[fd[d]] = d
    BY <1>0 DEF Apart, Held, TypeOK
  <2> QED BY <1>0, <2>1, <2>2, <2>3 DEF Honest, Peers, SlotNumbers
<1>5. ASSUME Announce(c) PROVE Undisturbing /\ Resting
  <2>1. session[c] \in Handling /\ Write(SlotNumbers, "line")
    BY <1>5 DEF Announce, Session, Handling
  <2>2. alive' /\ UNCHANGED <<peer, text, open, file>> /\ Session(c, "announce", "reply")
    BY <1>0, <1>1, <1>4, <1>5, <2>1, CleanWrite DEF Announce
  <2> QED BY <1>0, <2>2, SessionStays DEF Writing, Logging
<1>6. ASSUME StaffCalls(c) PROVE Undisturbing /\ Resting
  <2>1. session[c] \in Handling /\ Write(SlotNumbers, "line")
    BY <1>6 DEF StaffCalls, Session, Handling
  <2>2. alive' /\ UNCHANGED <<peer, text, open, file>> /\ Session(c, "staff", "staff log")
    BY <1>0, <1>1, <1>4, <1>6, <2>1, CleanWrite DEF StaffCalls
  <2> QED BY <1>0, <2>2, SessionStays DEF Writing, Logging
<1>7. ASSUME Reply(c) PROVE Undisturbing /\ Resting
  <2>1. session[c] \in Handling /\ Write({fd[c]}, "line")
    BY <1>7 DEF Reply, Session, Handling
  <2>2. alive' /\ UNCHANGED <<peer, text, open, file>> /\ Session(c, "reply", "loop")
    BY <1>0, <1>1, <1>4, <1>7, <2>1, CleanWrite DEF Reply
  <2> QED BY <1>0, <2>2, SessionStays DEF Writing, Logging
<1> QED
  BY <1>2, <1>3, <1>5, <1>6, <1>7

\* What it does between two writes disturbs nothing either.
LEMMA SessionMoves ==
    ASSUME IInv, Calm, NEW c \in Clients,
           \/ NoHello(c) \/ Loop(c) \/ Request(c) \/ ReadEnds(c)
           \/ OrderLocks(c) \/ MenuReads(c) \/ Leave(c)
    PROVE  Undisturbing /\ Resting
<1>0. TypeOK /\ alive
  BY DEF IInv, Calm, Peers
<1>1. alive' /\ UNCHANGED <<peer, text, open, file>>
  BY <1>0 DEF NoHello, Loop, Request, ReadEnds, OrderLocks, MenuReads, Leave, Unwritten
<1>2. PICK from, to : /\ Session(c, from, to)
                      /\ to \notin Writing \cup {"hello", "register"}
  <2> DEFINE Goes(from, to) == /\ Session(c, from, to)
                               /\ to \notin Writing \cup {"hello", "register"}
  <2>1. NoHello(c) => Goes("hello", "close")
    BY DEF NoHello, Writing, Logging
  <2>2. Loop(c) => Goes("loop", IF stop THEN "leave" ELSE "reading")
    BY DEF Loop, Writing, Logging
  <2>3. Request(c) => \E what \in {"order", "staff", "menu"} : Goes("reading", what)
    BY DEF Request, Writing, Logging
  <2>4. ReadEnds(c) => Goes("reading", "leave")
    BY DEF ReadEnds, Writing, Logging
  <2>5. OrderLocks(c) => Goes("order", "order log")
    BY DEF OrderLocks, Writing, Logging
  <2>6. MenuReads(c) => Goes("menu", "reply")
    BY DEF MenuReads, Writing, Logging
  <2>7. Leave(c) => Goes("leave", "close")
    BY DEF Leave, Writing, Logging
  <2> HIDE DEF Goes
  <2>8. \E from, to : Goes(from, to)
    BY <2>1, <2>2, <2>3, <2>4, <2>5, <2>6, <2>7
  <2> QED BY <2>8 DEF Goes
<1> QED
  BY <1>0, <1>1, <1>2, SessionStays

\* The number of a session that begins is new, and so is that of a file it
\* opens; the numbers it closes are its own.
LEMMA SessionNumbers ==
    ASSUME IInv, Calm, NotFirst, NEW c \in Clients,
           \/ Accept(c) \/ Close(c) \/ LogOpens(c) \/ SaveOpens(c) \/ LogEnds(c) \/ SaveEnds(c),
           ~ Before' => \A d \in Clients : session'[d] \notin Handling
    PROVE  Calm'
<1>0. TypeOK /\ Control /\ Owned /\ Honest /\ Apart
  BY DEF IInv
<1>1. Peers /\ Names /\ Texts /\ Saving
  BY DEF Calm
<1>2. /\ "free" \notin Files \cup Clients /\ Clients \cap Files = {}
      /\ {"orders.log", "tables.conf.tmp"} \subseteq Files
  BY ShutdownAssumption DEF Files
<1>3. \A d \in Clients : session[d] \in Writing =>
          Before /\ file[d] # 0 /\ open[file[d]] \in Files /\ file[d] \in Numbers
  BY <1>0, <1>1 DEF Peers, Writing, Logging, Handling, Control, Honest, TypeOK
<1>4. CASE Accept(c)
  <2>1. Before /\ open[Lowest] = "free"
    BY <1>0, <1>4, LowestIsFree DEF Accept, Control, TypeOK
  <2>2. Before' /\ UNCHANGED <<saved, text, file, alive>>
    BY <1>4, <2>1 DEF Accept, Before
  <2>3. Peers'
    BY <1>0, <1>1, <1>4, <2>1, <2>2 DEF Accept, Peers, TypeOK
  <2>4. Names'
    BY <1>0, <1>1, <1>2, <1>3, <1>4, <2>1 DEF Accept, Names, Writing, Logging, TypeOK
  <2> QED BY <1>1, <2>2, <2>3, <2>4, SavingLater DEF Calm, Texts
<1>5. CASE Close(c)
  <2>1. /\ session[c] = "close" /\ session' = [session EXCEPT ![c] = "none"]
        /\ UNCHANGED <<main, fdw, saved, text, file, alive>>
        /\ open' = [open EXCEPT ![fd[c]] = "free"]
    BY <1>5 DEF Close, Session
  <2>2. \A d \in Clients : peer'[d] \in {peer[d], "away"}
    BY <1>5 DEF Close
  <2>3. Peers'
    BY <1>0, <1>1, <2>1, <2>2 DEF Peers, TypeOK, Before
  <2>4. \A d \in Clients : session[d] \in Writing => file[d] # fd[c]
    BY <1>0, <1>2, <1>3, <2>1 DEF Honest, TypeOK
  <2>5. Names'
    BY <1>0, <1>1, <1>3, <2>1, <2>4 DEF Names, Writing, Logging, TypeOK
  <2>6. Resting
    BY <2>1 DEF Resting, NotFirst
  <2> QED BY <1>1, <2>1, <2>3, <2>5, <2>6, SavingRests DEF Calm, Texts
<1>6. ASSUME NEW name \in {"orders.log", "tables.conf.tmp"}, NEW from \in Handling,
             NEW to, Session(c, from, to), Opens(c, name),
             \/ to \in Logging /\ name = "orders.log"
             \/ to = "saving" /\ name = "tables.conf.tmp"
      PROVE  Calm'
  <2>1. /\ session[c] \in Handling /\ session' = [session EXCEPT ![c] = to]
        /\ UNCHANGED <<main, fdw, saved, alive, peer>>
        /\ file' = [file EXCEPT ![c] = Lowest] /\ open' = [open EXCEPT ![Lowest] = name]
    BY <1>6 DEF Session, Opens
  <2>2. Before /\ Before'
    BY <1>1, <2>1 DEF Peers, Before
  <2>3. fdw = 0 /\ Lowest \in Numbers /\ open[Lowest] = "free"
    BY <1>0, <2>2, LowestIsFree DEF Control, Before
  <2>4. Peers'
    BY <1>0, <1>1, <1>6, <2>1, <2>2 DEF Peers, TypeOK, Logging
  <2>5. Names'
    BY <1>0, <1>1, <1>2, <1>3, <1>6, <2>1, <2>3 DEF Names, Writing, Logging, TypeOK
  <2>6. Texts'
    BY <1>0, <1>1, <1>6 DEF Opens, Texts, TypeOK
  <2> QED BY <1>1, <2>1, <2>2, <2>4, <2>5, <2>6, SavingLater DEF Calm
<1>7. ASSUME NEW words, NEW from \in Writing, NEW to \in Handling \ Writing,
             Session(c, from, to), Finishes(c, words),
             \/ from \in Logging /\ words = "log"
             \/ from = "saving" /\ words = "config"
      PROVE  Calm'
  <2>1. /\ session[c] = from /\ session' = [session EXCEPT ![c] = to]
        /\ UNCHANGED <<main, fdw, saved>>
        /\ file' = [file EXCEPT ![c] = 0] /\ open' = [open EXCEPT ![file[c]] = "free"]
        /\ Write({file[c]}, words)
    BY <1>7 DEF Session, Finishes
  <2>2. Before /\ Before'
    BY <1>3, <1>7, <2>1 DEF Before
  <2>3. /\ alive' /\ peer' = peer
        /\ text' = [text EXCEPT ![open[file[c]]] = @ \cup {words}]
    BY <1>0, <1>1, <1>3, <1>7, <2>1, FileWrite DEF Peers
  <2>4. Peers'
    BY <1>0, <1>1, <1>7, <2>1, <2>2, <2>3 DEF Peers, TypeOK, Handling
  <2>5. Names'
    BY <1>0, <1>1, <1>3, <1>7, <2>1, <2>2 DEF Names, Honest, Writing, Logging, TypeOK
  <2>6. words \in Own(open[file[c]])
    BY <1>1, <1>7, <2>1 DEF Names, Own, Logging
  <2>7. Texts'
    BY <1>0, <1>1, <2>3, <2>6 DEF Texts, TypeOK
  <2> QED BY <1>1, <2>1, <2>2, <2>4, <2>5, <2>7, SavingLater DEF Calm
<1>8. CASE LogOpens(c)
  <2>1. CASE Session(c, "order log", "order logging")
    BY <1>6, <1>8, <2>1 DEF LogOpens, Handling, Logging
  <2>2. CASE Session(c, "staff log", "staff logging")
    BY <1>6, <1>8, <2>2 DEF LogOpens, Handling, Logging
  <2> QED BY <1>8, <2>1, <2>2 DEF LogOpens
<1>9. CASE SaveOpens(c)
  BY <1>6, <1>9 DEF SaveOpens, Handling
<1>10. CASE LogEnds(c)
  <2>1. CASE Session(c, "order logging", "save")
    BY <1>7, <1>10, <2>1 DEF LogEnds, Handling, Writing, Logging
  <2>2. CASE Session(c, "staff logging", "reply")
    BY <1>7, <1>10, <2>2 DEF LogEnds, Handling, Writing, Logging
  <2> QED BY <1>10, <2>1, <2>2 DEF LogEnds
<1>11. CASE SaveEnds(c)
  BY <1>7, <1>11 DEF SaveEnds, Handling, Writing, Logging
<1> QED
  BY <1>4, <1>5, <1>8, <1>9, <1>10, <1>11

-----------------------------------------------------------------------------
(* The main thread *)

\* Until it closes sockets, and in steps that only move it, main disturbs
\* nothing.
LEMMA MainMovesOn ==
    ASSUME IInv, Calm,
           \/ Broadcast \/ ScreenEnds \/ Sync \/ Join \/ Lock \/ SlotsClosed
           \/ Destroy \/ Return \/ AcceptEnds \/ SigInt \/ CloseListener
    PROVE  Undisturbing /\ Saving'
<1>0. TypeOK /\ Control /\ Honest /\ Apart /\ Peers /\ Names /\ Saving
  BY DEF IInv, Calm
<1>1. ASSUME alive', UNCHANGED <<peer, text, file, session>>, Before' => Before,
             \A c \in Clients : session[c] \in Writing => open'[file[c]] = open[file[c]]
      PROVE  Undisturbing
  BY <1>1 DEF Undisturbing
<1>2. ASSUME UNCHANGED open \/ (open' = [open EXCEPT ![1] = "free"] /\ open[1] = "listener"),
             NEW c \in Clients, session[c] \in Writing
      PROVE  open'[file[c]] = open[file[c]]
  <2>1. Before /\ file[c] # 0 /\ file[c] \in Numbers
    BY <1>0, <1>2 DEF Peers, Handling, Writing, Logging, Control, TypeOK
  <2>2. open[file[c]] # "listener"
    BY <1>0, <2>1 DEF Honest, Files
  <2> QED BY <1>0, <1>2, <2>1, <2>2 DEF TypeOK
<1>3. CASE Broadcast
  <2>1. /\ Write(SlotNumbers, "line") /\ main = "screen"
        /\ UNCHANGED <<open, file, session, main, saved>>
    BY <1>3 DEF Broadcast, Step
  <2>2. Before /\ Before'
    BY <2>1 DEF Before
  <2>3. \A d \in slots : d \in Clients /\ open[fd[d]] = d /\ peer[d] # "shut"
    BY <1>0, <2>2 DEF Apart, Held, TypeOK, Peers
  <2>4. \A n \in SlotNumbers : open[n] \in Clients /\ peer[open[n]] \notin {"shut", "broken"}
    BY <1>0, <2>3 DEF SlotNumbers, Peers
  <2>5. alive' /\ UNCHANGED <<peer, text>>
    BY <1>0, <2>1, <2>4, CleanWrite DEF Peers
  <2> QED BY <1>0, <1>1, <2>1, <2>2, <2>5, SavingLater
<1>4. ASSUME ScreenEnds \/ Sync \/ Join \/ Lock
      PROVE  Undisturbing /\ Saving'
  <2>1. /\ alive' /\ UNCHANGED <<peer, text, file, session, open, saved>>
        /\ Before /\ (Before' \/ main' = "slots")
    BY <1>0, <1>4 DEF ScreenEnds, Sync, Join, Lock, Step, Unwritten, Before, Peers
  <2> QED BY <1>0, <1>1, <2>1, SavingLater
<1>5. ASSUME SigInt \/ CloseListener
      PROVE  Undisturbing /\ Saving'
  <2>1. alive' /\ UNCHANGED <<peer, text, file, session, saved>>
    BY <1>0, <1>5 DEF SigInt, CloseListener, Step, Unwritten, Peers, threads
  <2>2. main' = main \/ (main = "close listener" /\ main' = "join")
    BY <1>5 DEF SigInt, CloseListener, Step, threads
  <2>3. Before' <=> Before
    BY <2>2 DEF Before
  <2>4. open' = IF listen_fd # 0 THEN [open EXCEPT ![listen_fd] = "free"] ELSE open
    BY <1>5 DEF SigInt, CloseListener
  <2>5. listen_fd # 0 => listen_fd = 1 /\ open[1] = "listener" /\ Before
    BY <1>0 DEF Apart, Honest, TypeOK, Before
  <2>6. UNCHANGED open \/ (open' = [open EXCEPT ![1] = "free"] /\ open[1] = "listener")
    BY <2>4, <2>5
  <2>7. Undisturbing
    BY <1>1, <1>2, <2>1, <2>3, <2>6
  <2>8. CASE Before
    BY <1>0, <2>1, <2>3, <2>7, <2>8, SavingLater
  <2>9. CASE ~ Before
    <3>1. main' = main /\ UNCHANGED <<fdw, open>>
      BY <1>5, <2>2, <2>4, <2>5, <2>9 DEF SigInt, CloseListener, Before, threads, Step
    <3> QED BY <1>0, <2>1, <2>7, <3>1, SavingRests DEF Resting
  <2> QED BY <2>7, <2>8, <2>9
<1>6. CASE AcceptEnds
  <2>1. alive' /\ UNCHANGED <<peer, text, file, session, open, saved, main, fdw>>
    BY <1>0, <1>6 DEF AcceptEnds, Peers
  <2> QED BY <1>0, <1>1, <2>1, SavingRests DEF Resting, Before
<1>7. CASE SlotsClosed
  <2>1. /\ alive' /\ UNCHANGED <<peer, text, file, session, open, saved>>
        /\ main' = "open old"
    BY <1>0, <1>7 DEF SlotsClosed, Step, Unwritten, Peers
  <2> QED BY <1>0, <1>1, <2>1, SavingLater DEF Before
<1>8. ASSUME Destroy \/ Return
      PROVE  Undisturbing /\ Saving'
  <2>1. /\ alive' /\ UNCHANGED <<peer, text, file, session, open, saved>>
        /\ main \in {"destroy", "return"} /\ main' \in {"return", "done"}
    BY <1>0, <1>8 DEF Destroy, Return, Step, Unwritten, Peers
  <2>2. Saving'
    BY <1>0, <2>1 DEF Saving
  <2> QED BY <1>1, <2>1, <2>2 DEF Before
<1> QED
  BY <1>3, <1>4, <1>5, <1>6, <1>7, <1>8

\* Once main closes sockets no session has a file open, so that what main
\* opens next gets the number of the listening socket.
LEMMA FirstIsFree ==
    ASSUME IInv, NotFirst, Peers, ~ Before, fdw = 0, 1 \in Numbers
    PROVE  open[1] = "free"
<1>1. TypeOK /\ Control /\ Owned /\ Apart
  BY DEF IInv
<1>2. \A c \in Clients : file[c] = 0
  BY <1>1 DEF Peers, Control, Handling
<1>3. listen_fd = 0
  BY <1>1 DEF Apart, Before
<1> QED
  BY <1>1, <1>2, <1>3 DEF Owned, NotFirst

\* It is the least, so main gets it.
LEMMA FirstIsOpened ==
    ASSUME IInv, NotFirst, Peers, ~ Before, fdw = 0, 1 \in Numbers
    PROVE  Lowest = 1
<1>1. TypeOK /\ open[1] = "free"
  BY FirstIsFree DEF IInv
<1>2. Lowest \in Numbers /\ Lowest <= 1
  BY <1>1, LowestIsLeast
<1> QED
  BY <1>2 DEF Numbers

\* Main closes sockets that are in order, then saves to files of its own.
LEMMA MainSaves ==
    ASSUME IInv, Calm, NotFirst, 1 \in Numbers,
           ShutSlot \/ CloseSlot \/ MainOpens \/ ReadOld \/ MainWrites \/ MainRenames
    PROVE  Peers' /\ Names' /\ Texts' /\ Saving'
<1>0. TypeOK /\ Control /\ Apart /\ Peers /\ Names /\ Texts /\ Saving
  BY DEF IInv, Calm
<1>1. /\ UNCHANGED <<session, file>>
      /\ main \notin {"screen", "sync", "close listener", "join", "lock"}
      /\ main' \notin {"screen", "sync", "close listener", "join", "lock"}
  BY DEF ShutSlot, CloseSlot, MainOpens, OpensFile, ReadOld, MainWrites, WritesFile,
         MainRenames, RenamesFile, Step
<1>2. ~ Before /\ ~ Before'
  BY <1>1 DEF Before
<1>3. \A c \in Clients : session[c] \notin Handling
  BY <1>0, <1>2 DEF Peers
<1>4. Names'
  BY <1>1, <1>3 DEF Names, Handling, Logging
<1>5. ASSUME alive', peer' = peer PROVE Peers'
  BY <1>0, <1>1, <1>2, <1>3, <1>5 DEF Peers
<1>6. CASE ShutSlot
  <2>1. PICK c \in slots : peer' = [d \in Clients |-> IF open[fd[c]] = d THEN "shut" ELSE peer[d]]
    BY <1>6 DEF ShutSlot
  <2>2. c \in Clients /\ open[fd[c]] = c /\ session[c] \notin {"hello", "register"}
    BY <1>0 DEF TypeOK, Apart, Held, Control
  <2>3. alive' = alive /\ text' = text /\ saved' = saved /\ main' = "close slot"
    BY <1>6 DEF ShutSlot, Step
  <2>4. Peers'
    BY <1>0, <1>1, <1>2, <1>3, <2>1, <2>2, <2>3 DEF Peers
  <2> QED BY <1>0, <1>4, <2>3, <2>4, SavingLater DEF Texts
<1>7. CASE CloseSlot
  <2>1. alive' = alive /\ peer' = peer /\ text' = text /\ saved' = saved /\ main' = "slots"
    BY <1>7 DEF CloseSlot, Step, Unwritten
  <2> QED BY <1>0, <1>4, <1>5, <2>1, SavingLater DEF Texts, Peers
<1>8. ASSUME NEW name \in Files, NEW from, NEW to, OpensFile(name, from, to),
             \/ name = "tables.conf" /\ from = "open old" /\ to = "read old"
             \/ name = "tables.conf.tmp" /\ from = "open conf" /\ to = "write conf"
             \/ name = "menu.csv.tmp" /\ from = "open menu" /\ to = "write menu"
      PROVE  Peers' /\ Texts' /\ Saving'
  <2>1. /\ main = from /\ main' = to /\ alive' = alive /\ peer' = peer /\ saved' = saved
        /\ open' = [open EXCEPT ![Lowest] = name] /\ fdw' = Lowest
        /\ text' = IF name = "tables.conf" THEN text ELSE [text EXCEPT ![name] = {}]
    BY <1>8 DEF OpensFile, Step
  <2>2. fdw = 0
    BY <1>0, <1>8, <2>1 DEF Control
  <2>3. fdw' = 1 /\ open'[1] = name
    BY <1>0, <1>2, <2>1, <2>2, FirstIsOpened DEF TypeOK
  <2>4. Texts' /\ (name # "tables.conf" => text'[name] = {})
    BY <1>0, <2>1 DEF Texts, TypeOK
  <2>5. Saving'
    BY <1>0, <1>8, <2>1, <2>3, <2>4 DEF Saving
  <2> QED BY <1>0, <1>5, <2>1, <2>4, <2>5 DEF Peers
<1>9. CASE MainOpens
  BY <1>4, <1>8, <1>9 DEF MainOpens, Files
<1>10. CASE ReadOld
  <2>1. main = "read old" /\ fdw = 1 /\ open[1] = "tables.conf"
    BY <1>0, <1>10 DEF ReadOld, Step, Saving
  <2>2. /\ main' = "open conf" /\ alive' = alive /\ peer' = peer /\ text' = text
        /\ saved' = saved
    BY <1>10, <2>1 DEF ReadOld, Step, Unwritten
  <2>3. Saving'
    BY <1>0, <2>2 DEF Saving
  <2> QED BY <1>0, <1>4, <1>5, <2>2, <2>3 DEF Texts, Peers
<1>11. ASSUME NEW words, NEW from, NEW to, NEW otherwise,
              WritesFile(words, from, to, otherwise),
              \/ words = "config" /\ from = "write conf" /\ to = "rename conf"
              \/ words = "menu" /\ from = "write menu" /\ to = "rename menu"
       PROVE  Peers' /\ Texts' /\ Saving'
  <2> DEFINE f == IF words = "config" THEN "tables.conf.tmp" ELSE "menu.csv.tmp"
  <2>1. /\ main = from /\ fdw = 1 /\ open[1] = f /\ f \in Files /\ text[f] = {}
        /\ words \in Own(f)
    BY <1>0, <1>11 DEF WritesFile, Step, Saving, Files, Own
  <2>2. main' = to /\ saved' = saved /\ Write({1}, words)
    BY <1>11, <2>1 DEF WritesFile, Step, Files
  <2> HIDE DEF f
  <2>3. /\ alive' /\ peer' = peer /\ text' = [text EXCEPT ![f] = @ \cup {words}]
    BY <1>0, <2>1, <2>2, FileWrite DEF Peers
  <2>4. Texts' /\ text'[f] = {words}
    BY <1>0, <2>1, <2>3 DEF Texts, TypeOK
  <2>5. Saving'
    BY <1>0, <1>11, <2>1, <2>2, <2>4 DEF Saving, f
  <2> QED BY <1>5, <2>3, <2>4, <2>5
<1>12. CASE MainWrites
  BY <1>4, <1>11, <1>12 DEF MainWrites
<1>13. CASE MainRenames
  <2>1. /\ alive' = alive /\ peer' = peer /\ text' = text
        /\ \/ /\ main = "rename conf" /\ main' = "open menu"
              /\ saved' = IF text["tables.conf.tmp"] = {"config"}
                          THEN saved \cup {"config"} ELSE saved
           \/ /\ main = "rename menu" /\ main' = "destroy"
              /\ saved' = IF text["menu.csv.tmp"] = {"menu"}
                          THEN saved \cup {"menu"} ELSE saved
    BY <1>13 DEF MainRenames, RenamesFile, Step, Unwritten
  <2>2. Saving'
    BY <1>0, <2>1 DEF Saving
  <2> QED BY <1>0, <1>4, <1>5, <2>1, <2>2 DEF Texts, Peers
<1> QED
  BY <1>6, <1>7, <1>9, <1>10, <1>12, <1>13

-----------------------------------------------------------------------------
(* The invariant *)

\* Sockets get other numbers than the listening one, which is open for as long
\* as connections are accepted.
LEMMA NotFirstStep == IInv /\ NotFirst /\ [Next]_vars => NotFirst'
<1> SUFFICES ASSUME IInv, NotFirst, Lives \/ UNCHANGED vars PROVE NotFirst'
  BY DEF Next
<1>0. TypeOK /\ Control /\ Owned /\ Honest
  BY DEF IInv
<1>1. CASE UNCHANGED fd
  BY <1>1 DEF NotFirst
<1>2. ASSUME NEW c \in Clients, Accept(c) PROVE NotFirst'
  <2>1. Before /\ listen_fd = 1 /\ open[1] = "listener"
    BY <1>0, <1>2 DEF Accept, Control, Honest, TypeOK
  <2>2. Lowest \in Numbers /\ open[Lowest] = "free"
    BY <1>0, <1>2, LowestIsFree DEF Accept, TypeOK
  <2> QED BY <1>0, <1>2, <2>1, <2>2 DEF NotFirst, Accept, TypeOK
<1>3. ASSUME NEW c \in Clients, Close(c) PROVE NotFirst'
  BY <1>0, <1>3 DEF NotFirst, Close, TypeOK
<1>4. CASE UNCHANGED vars
  BY <1>1, <1>4 DEF vars
<1> QED
  BY <1>0, <1>1, <1>2, <1>3, <1>4, Effects DEF Same, ListenerCloses, PicksSlot, MainTakes,
     MainFrees, SessionOpens, SessionFinishes

\* Calm lasts as long as nothing comes late and nobody leaves.
LEMMA CalmStep ==
    ASSUME IInv, NotFirst, Calm, Lives, 1 \in Numbers, main' \in MainSteps,
           ~ (main' \in Closing /\ \E c \in Clients : session'[c] \in Handling),
           ~ \E c \in Clients : ClientLeaves(c)
    PROVE  Calm'
<1>1. ~ Before' => \A c \in Clients : session'[c] \notin Handling
  BY BeforeOrClosing DEF MainSteps, Before, Closing
<1>2. Peers /\ Names /\ Texts /\ Saving
  BY DEF Calm
<1>3. ASSUME NEW c \in Clients,
             \/ Hello(c) \/ Register(c) \/ Announce(c) \/ StaffCalls(c) \/ Reply(c)
             \/ NoHello(c) \/ Loop(c) \/ Request(c) \/ ReadEnds(c)
             \/ OrderLocks(c) \/ MenuReads(c) \/ Leave(c)
      PROVE  Calm'
  <2>1. Undisturbing /\ Resting
    BY <1>3, SessionWrites, SessionMoves
  <2> QED BY <1>1, <1>2, <2>1, Undisturbed, SavingRests DEF Calm
<1>4. ASSUME NEW c \in Clients,
             \/ Accept(c) \/ Close(c) \/ LogOpens(c) \/ SaveOpens(c) \/ LogEnds(c) \/ SaveEnds(c)
      PROVE  Calm'
  BY <1>1, <1>4, SessionNumbers
<1>5. ASSUME \/ Broadcast \/ ScreenEnds \/ Sync \/ Join \/ Lock \/ SlotsClosed
             \/ Destroy \/ Return \/ AcceptEnds \/ SigInt \/ CloseListener
      PROVE  Calm'
  <2>1. Undisturbing /\ Saving'
    BY <1>5, MainMovesOn
  <2> QED BY <1>1, <1>2, <2>1, Undisturbed DEF Calm
<1>6. ASSUME ShutSlot \/ CloseSlot \/ MainOpens \/ ReadOld \/ MainWrites \/ MainRenames
      PROVE  Calm'
  BY <1>6, MainSaves DEF Calm
<1> QED
  BY <1>3, <1>4, <1>5, <1>6 DEF Lives, Runs, Ends

\* The invariant is inductive together with IInv.
LEMMA QuietStep == IInv /\ IInv' /\ QuietInv /\ [Next]_vars => QuietInv'
<1> SUFFICES ASSUME IInv, IInv', QuietInv, [Next]_vars PROVE QuietInv'
  OBVIOUS
<1>1. NotFirst /\ NotFirst'
  BY NotFirstStep DEF QuietInv
<1>2. CASE UNCHANGED vars
  <2>1. UNCHANGED <<alive, peer, main, session, open, file, text, saved, fdw, late, left>>
    BY <1>2 DEF vars, threads
  <2> QED BY <1>1, <2>1 DEF QuietInv, Calm, Peers, Names, Texts, Saving, Before
<1>3. ASSUME Lives, Late, ~ late', ~ left' PROVE Calm'
  <2>1. ~ late /\ ~ (main' \in Closing /\ \E c \in Clients : session'[c] \in Handling)
    BY <1>3 DEF Late
  <2>2. ~ \E c \in Clients : ClientLeaves(c)
    BY <1>3 DEF ClientLeaves
  <2>3. ~ left
    <3>1. ASSUME NEW c \in Clients, Accept(c) \/ Hello(c) \/ Request(c) PROVE ~ left
      BY <1>3, <3>1 DEF Accept, Hello, Request, Session
    <3>2. ASSUME NEW c \in Clients, NoHello(c) \/ Register(c) \/ Loop(c) \/ ReadEnds(c)
                 \/ OrderLocks(c) \/ LogOpens(c) \/ LogEnds(c) \/ SaveOpens(c) PROVE ~ left
      BY <1>3, <3>2 DEF NoHello, Register, Loop, ReadEnds, OrderLocks, LogOpens, LogEnds, SaveOpens, Session
    <3>3. ASSUME NEW c \in Clients, SaveEnds(c) \/ Announce(c) \/ StaffCalls(c)
                 \/ MenuReads(c) \/ Reply(c) \/ Leave(c) \/ Close(c) PROVE ~ left
      BY <1>3, <3>3 DEF SaveEnds, Announce, StaffCalls, MenuReads, Reply, Leave, Close, Session
    <3>4. ASSUME \/ Broadcast \/ ScreenEnds \/ SigInt \/ AcceptEnds \/ Sync \/ CloseListener
                 \/ Join \/ Lock PROVE ~ left
      BY <1>3, <3>4 DEF Broadcast, ScreenEnds, SigInt, AcceptEnds, Sync, CloseListener, Join, Lock, Step
    <3>5. ASSUME \/ ShutSlot \/ CloseSlot \/ SlotsClosed \/ MainOpens \/ ReadOld \/ MainWrites
                 \/ MainRenames \/ Destroy \/ Return PROVE ~ left
      BY <1>3, <3>5 DEF ShutSlot, CloseSlot, SlotsClosed, MainOpens, OpensFile, ReadOld,
         MainWrites, WritesFile, MainRenames, RenamesFile, Destroy, Return, Step
    <3> QED BY <1>3, <2>2, <3>1, <3>2, <3>3, <3>4, <3>5 DEF Lives, Runs, Ends
  <2>4. Calm
    BY <2>1, <2>3 DEF QuietInv
  <2>5. 1 \in Numbers /\ main' \in MainSteps
    <3>1. Cardinality(Clients) \in Nat
      BY ShutdownAssumption, FS_CardinalityType
    <3> QED BY <3>1, ShutdownAssumption DEF IInv, TypeOK, Numbers
  <2> QED BY <1>1, <1>3, <2>1, <2>2, <2>4, <2>5, CalmStep
<1> QED
  BY <1>1, <1>2, <1>3 DEF Next, QuietInv

\* The invariant holds at the start.
LEMMA QuietInit == Init => QuietInv
<1> SUFFICES ASSUME Init PROVE QuietInv
  OBVIOUS
<1>1. NotFirst
  BY DEF Init, NotFirst
<1>2. Peers /\ Names /\ Texts /\ Saving
  BY DEF Init, Peers, Names, Texts, Saving, Before, Writing, Logging
<1> QED
  BY <1>1, <1>2 DEF QuietInv, Calm

-----------------------------------------------------------------------------
(* Theorem *)

\* If no session is busy when its socket is closed and no client has left, the
\* process reaches its end alive, no file gets text of another, and both files
\* are saved, although sessions go on to close numbers that are no longer
\* theirs (server.c 283-310, 752-757).
THEOREM QuietEnds == Spec => []QuietEndIsClean
<1>1. Spec => []QuietInv
  BY Invariance, QuietInit, QuietStep, PTL DEF Spec
<1>2. QuietInv => QuietEndIsClean
  BY ZenonT(40) DEF QuietInv, Calm, Peers, Texts, Saving, QuietEndIsClean
<1> QED
  BY <1>1, <1>2, PTL
=============================================================================
