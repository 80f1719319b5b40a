------------------------- MODULE ConfigStoreProofs --------------------------
(***************************************************************************)
(* Proofs about ConfigStore: a save replaces the file atomically, and what *)
(* a client was told is durable, for any number of orders and restarts, as *)
(* long as two saves never run at once and neither a session's save nor    *)
(* the load at a start fails.                                              *)
(***************************************************************************)
EXTENDS ConfigStore, TLAPS

\* A save is under way only in a process that serves or, by its main thread,
\* that ends after a failed start; the session saves only after it has
\* counted up; the default file is empty until it is written.
Control == /\ \A s \in Savers : step[s] # "idle" => phase \in {"serving", "ended"}
           /\ step[Session] # "idle" => phase = "serving" /\ next_order_id > 1
           /\ phase = "truncated" => conf = Empty

\* Saves took turns so far: one at a time, the file of the save under way is
\* the one named tmp, and the counter has not moved since it was formatted.
TakeTurns ==
    /\ ~ (step[Session] \in InSave /\ step[Screen] \in InSave)
    /\ \A s \in Savers :
           /\ step[s] = "opened" <=> fdw[s] = "tmp"
           /\ fdw[s] # "conf"
           /\ step[s] \in {"formatted", "opened", "written"}
                 => outbuf[s] = next_order_id
           /\ step[s] = "written" => tmp = outbuf[s]

\* While those calls succeed too, the file is at most one order behind the
\* counter, and not behind it at all where a reply is due; a start truncates
\* it only while no client was told anything.
FileKeepsUp ==
    /\ phase \in {"serving", "ending", "ended"} /\ conf # Absent
          => conf <= next_order_id
    /\ phase \in {"default", "truncated"} => told = {}
    /\ step[Session] = "returned" => conf = next_order_id
    /\ \A id \in told : id < conf

Inv == /\ TypeOK
       /\ Control
       /\ ~ overlapped => TakeTurns
       /\ ~ overlapped /\ ~ failed => FileKeepsUp

\* Type correctness of every step.
LEMMA TypeStep == TypeOK /\ Control /\ [Next]_vars => TypeOK'
<1> USE ConfigAssumption DEF Savers, Steps, Phases, Empty, Absent
<1> SUFFICES ASSUME TypeOK, Control, [Next]_vars PROVE TypeOK'
  OBVIOUS
<1>1. CASE main
  <2>1. CASE server_init
    BY <2>1 DEF TypeOK, Start, server_init
  <2>2. CASE StatSucceeds
    BY <2>2 DEF TypeOK, Start, StatSucceeds
  <2>3. CASE StatFails
    BY <2>3 DEF TypeOK, Start, StatFails
  <2>4. CASE OpenDefault
    BY <2>4 DEF TypeOK, Start, OpenDefault
  <2>5. CASE OpenDefaultFails
    BY <2>5 DEF TypeOK, Start, OpenDefaultFails
  <2>6. CASE WriteDefault
    BY <2>6 DEF TypeOK, Start, WriteDefault
  <2>7. CASE LoadFails
    BY <2>7 DEF TypeOK, Start, LoadFails
  <2>8. CASE storage_load_config
    BY <2>8 DEF TypeOK, Start, storage_load_config
  <2>. QED  BY <1>1, <2>1, <2>2, <2>3, <2>4, <2>5, <2>6, <2>7, <2>8 DEF main
<1>2. CASE ProcessEnds
  BY <1>2 DEF TypeOK, ProcessEnds
<1>3. CASE handle_order_create_client
  BY <1>3 DEF TypeOK, handle_order_create_client, Enter
<1>4. CASE server_save_config \/ server_shutdown
  BY <1>4 DEF TypeOK, server_save_config, server_shutdown, Enter
<1>5. ASSUME NEW s \in Savers, rewrite_config_lines(s) PROVE TypeOK'
  <2>1. CASE Format(s)
    BY <2>1 DEF TypeOK, Format, Advance
  <2>2. CASE OpenTmp(s)
    BY <2>2 DEF TypeOK, OpenTmp, Advance
  <2>3. CASE WriteTmp(s)
    BY <2>3 DEF TypeOK, WriteTmp, Advance
  <2>4. CASE RenameTmp(s)
    BY <2>4 DEF TypeOK, RenameTmp, Advance, Moved, Back
  <2>5. CASE RenameNothing(s)
    BY <2>5 DEF TypeOK, RenameNothing, Advance, Back
  <2>6. CASE FailingWrite(s) \/ \E from \in {"called", "formatted", "written"} :
                                    GiveUp(s, from)
    <3>1. PICK from \in Steps : GiveUp(s, from)
      BY <2>6 DEF FailingWrite
    <3>. QED  BY <3>1 DEF TypeOK, GiveUp, Advance, Back
  <2>. QED  BY <1>5, <2>1, <2>2, <2>3, <2>4, <2>5, <2>6 DEF rewrite_config_lines
<1>6. CASE Acknowledge
  BY <1>6 DEF TypeOK, Control, Acknowledge
<1>7. CASE UNCHANGED vars
  BY <1>7 DEF TypeOK, vars
<1>. QED  BY <1>1, <1>2, <1>3, <1>4, <1>5, <1>6, <1>7 DEF Next

LEMMA ControlStep == TypeOK /\ Control /\ [Next]_vars => Control'
<1> USE ConfigAssumption DEF Savers, Control, Empty
<1>1. ASSUME TypeOK, Control, NEW s \in Savers, rewrite_config_lines(s)
      PROVE  Control'
  <2>1. phase' = phase /\ step[s] # "idle" /\ next_order_id' = next_order_id
    BY <1>1 DEF rewrite_config_lines, Format, OpenTmp, WriteTmp, RenameTmp,
                RenameNothing, FailingWrite, GiveUp, Advance, TypeOK
  <2>2. \A o \in Savers \ {s} : step'[o] = step[o]
    BY <1>1 DEF rewrite_config_lines, Format, OpenTmp, WriteTmp, RenameTmp,
                RenameNothing, FailingWrite, GiveUp, Advance, TypeOK
  <2>. QED  BY <1>1, <2>1, <2>2
<1>2. TypeOK /\ Control /\ handle_order_create_client => Control'
  BY DEF TypeOK, handle_order_create_client, Enter
<1>3. TypeOK /\ Control /\ (main \/ ProcessEnds \/ Acknowledge
                              \/ server_save_config \/ server_shutdown)
      => Control'
  BY DEF TypeOK, ProcessEnds, Acknowledge, server_save_config, server_shutdown,
         Enter, main, Start, server_init, StatSucceeds, StatFails, OpenDefault,
         OpenDefaultFails, WriteDefault, LoadFails, storage_load_config
<1>4. Control /\ UNCHANGED vars => Control'
  BY DEF vars
<1>. QED  BY <1>1, <1>2, <1>3, <1>4 DEF Next

\* As long as saves take turns, they go on doing so within each save.
LEMMA TurnsStep ==
    ASSUME TypeOK, Control, TakeTurns, [Next]_vars, ~ overlapped'
    PROVE  TakeTurns'
<1> USE ConfigAssumption DEF Savers, InSave, Steps, Empty, Absent
<1>1. CASE main
  BY <1>1 DEF TakeTurns, TypeOK, Control,
              main, Start, server_init, StatSucceeds, StatFails, OpenDefault,
              OpenDefaultFails, WriteDefault, LoadFails, storage_load_config
<1>2. CASE ProcessEnds
  BY <1>2 DEF TakeTurns, TypeOK, ProcessEnds
<1>3. CASE handle_order_create_client
  BY <1>3 DEF TakeTurns, TypeOK, handle_order_create_client, Enter
<1>4. CASE server_save_config \/ server_shutdown
  BY <1>4 DEF TakeTurns, TypeOK, server_save_config, server_shutdown, Enter
<1>5. ASSUME NEW s \in Savers, rewrite_config_lines(s) PROVE TakeTurns'
  <2>1. CASE Format(s)
    BY <2>1 DEF TakeTurns, TypeOK, Format, Advance
  <2>2. CASE OpenTmp(s)
    BY <2>2 DEF TakeTurns, TypeOK, OpenTmp, Advance
  <2>3. CASE WriteTmp(s)
    BY <2>3 DEF TakeTurns, TypeOK, WriteTmp, Advance
  <2>4. CASE RenameTmp(s)
    BY <2>4 DEF TakeTurns, TypeOK, RenameTmp, Advance, Moved, Back
  <2>5. CASE RenameNothing(s)
    BY <2>5 DEF TakeTurns, TypeOK, RenameNothing, Advance, Back
  <2>6. CASE FailingWrite(s) \/ \E from \in {"called", "formatted", "written"} :
                                    GiveUp(s, from)
    <3>1. PICK from \in InSave : GiveUp(s, from)
      BY <2>6 DEF FailingWrite
    <3>. QED  BY <3>1 DEF TakeTurns, TypeOK, GiveUp, Advance, Back
  <2>. QED  BY <1>5, <2>1, <2>2, <2>3, <2>4, <2>5, <2>6 DEF rewrite_config_lines
<1>6. CASE Acknowledge
  BY <1>6 DEF TakeTurns, TypeOK, Acknowledge
<1>7. CASE UNCHANGED vars
  BY <1>7 DEF TakeTurns, TypeOK, vars
<1>. QED  BY <1>1, <1>2, <1>3, <1>4, <1>5, <1>6, <1>7 DEF Next

\* As long as no call fails either, the file keeps up with the counter.
LEMMA KeepsUpStep ==
    ASSUME TypeOK, Control, TakeTurns, FileKeepsUp, [Next]_vars,
           ~ overlapped', ~ failed'
    PROVE  FileKeepsUp'
<1> USE ConfigAssumption DEF Savers, InSave, Steps, Empty, Absent
<1>1. CASE main
  <2>1. CASE server_init
    BY <2>1 DEF FileKeepsUp, TypeOK, Control, Start, server_init
  <2>2. CASE StatSucceeds
    BY <2>2 DEF FileKeepsUp, TypeOK, Control, Start, StatSucceeds
  <2>3. CASE StatFails
    <3>1. conf = Absent
      BY <2>3 DEF TypeOK, StatFails
    <3>2. \A id \in told : id \in 1 .. MAX_ID /\ id < conf
      BY DEF FileKeepsUp, TypeOK
    <3>3. \A id \in told : FALSE
      BY <3>1, <3>2
    <3>4. told = {}
      BY <3>3
    <3>. QED  BY <2>3, <3>4 DEF FileKeepsUp, TypeOK, Control, Start, StatFails
  <2>4. CASE OpenDefault
    BY <2>4 DEF FileKeepsUp, TypeOK, Control, Start, OpenDefault
  <2>5. CASE OpenDefaultFails
    BY <2>5 DEF FileKeepsUp, TypeOK, Control, Start, OpenDefaultFails
  <2>6. CASE WriteDefault
    BY <2>6 DEF FileKeepsUp, TypeOK, Control, Start, WriteDefault
  <2>7. CASE LoadFails
    BY <2>7 DEF FileKeepsUp, TypeOK, Control, Start, LoadFails
  <2>8. CASE storage_load_config
    BY <2>8 DEF FileKeepsUp, TypeOK, Control, Start, storage_load_config
  <2>. QED  BY <1>1, <2>1, <2>2, <2>3, <2>4, <2>5, <2>6, <2>7, <2>8 DEF main
<1>2. CASE ProcessEnds
  BY <1>2 DEF FileKeepsUp, TypeOK, ProcessEnds
<1>3. CASE handle_order_create_client
  BY <1>3 DEF FileKeepsUp, TypeOK, handle_order_create_client, Enter
<1>4. CASE server_save_config \/ server_shutdown
  BY <1>4 DEF FileKeepsUp, TypeOK, server_save_config, server_shutdown, Enter
<1>5. ASSUME NEW s \in Savers, rewrite_config_lines(s) PROVE FileKeepsUp'
  <2>1. CASE Format(s)
    BY <2>1 DEF FileKeepsUp, TypeOK, Format, Advance
  <2>2. CASE OpenTmp(s)
    BY <2>2 DEF FileKeepsUp, TypeOK, OpenTmp, Advance
  <2>3. CASE WriteTmp(s)
    BY <2>3 DEF FileKeepsUp, TakeTurns, TypeOK, WriteTmp, Advance
  <2>4. CASE RenameTmp(s)
    BY <2>4 DEF FileKeepsUp, TakeTurns, TypeOK, Control, RenameTmp, Advance, Back
  <2>5. CASE RenameNothing(s)
    BY <2>5 DEF FileKeepsUp, TakeTurns, TypeOK, RenameNothing, Advance, Back
  <2>6. CASE FailingWrite(s) \/ \E from \in {"called", "formatted", "written"} :
                                    GiveUp(s, from)
    <3>1. PICK from \in InSave : GiveUp(s, from)
      BY <2>6 DEF FailingWrite
    <3>2. s = Screen
      BY <3>1 DEF GiveUp, TypeOK
    <3>. QED  BY <3>1, <3>2 DEF FileKeepsUp, TypeOK, GiveUp, Advance, Back
  <2>. QED  BY <1>5, <2>1, <2>2, <2>3, <2>4, <2>5, <2>6 DEF rewrite_config_lines
<1>6. CASE Acknowledge
  BY <1>6 DEF FileKeepsUp, TypeOK, Control, Acknowledge
<1>7. CASE UNCHANGED vars
  BY <1>7 DEF FileKeepsUp, TypeOK, vars
<1>. QED  BY <1>1, <1>2, <1>3, <1>4, <1>5, <1>6, <1>7 DEF Next

\* The two histories only ever grow.
LEMMA HistoryStep ==
    TypeOK /\ [Next]_vars => (overlapped => overlapped') /\ (failed => failed')
<1>1. ASSUME TypeOK, NEW s \in Savers, rewrite_config_lines(s)
      PROVE  (overlapped => overlapped') /\ (failed => failed')
  BY <1>1 DEF rewrite_config_lines, Format, OpenTmp, WriteTmp, RenameTmp,
              RenameNothing, FailingWrite, GiveUp, Advance, TypeOK
<1>. QED
  BY <1>1 DEF Next, vars, ProcessEnds, server_save_config, server_shutdown,
              handle_order_create_client, Enter, Acknowledge, TypeOK,
              main, Start, server_init, StatSucceeds, StatFails, OpenDefault,
              OpenDefaultFails, WriteDefault, LoadFails, storage_load_config

THEOREM Invariance == Spec => []Inv
<1>1. Init => Inv
  <2>. USE ConfigAssumption DEF Init, Savers, Empty, Absent
  <2>1. ASSUME Init PROVE TypeOK
    <3>1. /\ phase \in Phases /\ overlapped \in BOOLEAN /\ failed \in BOOLEAN
          /\ told \subseteq 1 .. MAX_ID
      BY <2>1, Zenon DEF Phases
    <3>2. /\ step \in [Savers -> Steps] /\ step[Screen] # "returned"
          /\ fdw \in [Savers -> {"none", "tmp", "conf", "unlinked"}]
      BY <2>1 DEF Steps
    <3>3. /\ next_order_id \in 1 .. (MAX_ID + 1)
          /\ outbuf \in [Savers -> 1 .. (MAX_ID + 1)]
      BY <2>1
    <3>. QED  BY <2>1, <3>1, <3>2, <3>3 DEF TypeOK
  <2>2. Init => Control
    BY DEF Control
  <2>3. Init => TakeTurns
    BY DEF TakeTurns, InSave
  <2>4. Init => FileKeepsUp
    BY DEF FileKeepsUp
  <2>. QED  BY <2>1, <2>2, <2>3, <2>4 DEF Inv
<1>2. Inv /\ [Next]_vars => Inv'
  BY TypeStep, ControlStep, TurnsStep, KeepsUpStep, HistoryStep DEF Inv
<1>. QED  BY <1>1, <1>2, PTL DEF Spec

\* The store has the types TypeOK gives it in every reachable state, for any
\* bound on ids.
THEOREM StoreTypeCorrect == Spec => []TypeOK
BY Invariance, PTL DEF Inv

\* A step that empties tables.conf or takes it away is no step of a save,
\* whatever fails and wherever the process dies, while saves take turns: it is
\* the start's write_entire_file opening the file (rewrite_config_lines).
LEMMA AtomicStep == Inv /\ [Next]_vars /\ conf' \in {Absent, Empty} /\ conf' # conf
                       => overlapped \/ OpenDefault
<1> USE ConfigAssumption DEF Savers, Empty, Absent
<1> SUFFICES ASSUME Inv, Next, conf' \in {Absent, Empty}, conf' # conf,
                    ~ overlapped
             PROVE  OpenDefault
  BY DEF vars
<1>1. CASE main
  <2>1. WriteDefault => conf = Empty
    BY DEF WriteDefault, Start, Inv, Control
  <2>. QED  BY <1>1, <2>1 DEF main, server_init, StatSucceeds, StatFails,
              OpenDefaultFails, WriteDefault, LoadFails, storage_load_config
<1>2. ASSUME NEW s \in Savers, rewrite_config_lines(s) PROVE FALSE
  <2>1. TakeTurns /\ TypeOK
    BY DEF Inv
  <2>2. WriteTmp(s) \/ RenameTmp(s)
    BY <1>2 DEF rewrite_config_lines, Format, OpenTmp, RenameNothing,
                FailingWrite, GiveUp
  <2>3. WriteTmp(s) => conf' = conf
    BY <2>1 DEF WriteTmp, TakeTurns
  <2>4. RenameTmp(s) => conf' \in 1 .. (MAX_ID + 1)
    BY <2>1 DEF RenameTmp, Advance, TakeTurns, TypeOK
  <2>. QED  BY <2>2, <2>3, <2>4
<1>. QED
  BY <1>1, <1>2 DEF Next, ProcessEnds, handle_order_create_client,
                    server_save_config, server_shutdown, Enter, Acknowledge

\* tables.conf goes from one number to the next with no step between in which
\* it is empty or missing, unless saves overlapped or the start truncates it
\* in place (rewrite_config_lines, write_entire_file).
THEOREM AtomicReplace == Spec => ReplaceIsAtomic
<1>1. Inv /\ [Next]_vars
      => [conf' \in {Absent, Empty} /\ conf' # conf
             => overlapped \/ OpenDefault]_vars
  BY AtomicStep
<1>. QED  BY <1>1, Invariance, PTL DEF Spec, ReplaceIsAtomic

\* What a client was told is in the file before it is told, in every run of
\* the process (handle_order_create_client saves before it replies), unless
\* saves overlapped, a session's save failed or a start could not load the
\* file that was there.
THEOREM Durable == Spec => []ToldIsDurable
<1>1. Inv => ToldIsDurable
  BY DEF Inv, FileKeepsUp, ToldIsDurable
<1>. QED  BY <1>1, Invariance, PTL
=============================================================================
