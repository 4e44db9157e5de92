---------------------------- MODULE Encoder_proofs ----------------------------
(***************************************************************************)
(* The encoder: the invariants of EncModule, for any buffers, tables, media    *)
(* and bounds, and those of EncComponent, for any headers, messages, regions   *)
(* and bounds.                                                               *)
(***************************************************************************)
EXTENDS EncModule, EncComponent, SequenceLemmas, FiniteSetTheorems

(***************************************************************************)
(* The module.                                                              *)
(***************************************************************************)
(* The encoder has been destroyed, and Stop goes on to clear the list.        *)
Past == main.pc \in {"destroy", "joining"} /\ main.pass > Passes

(* Nothing of the client is in the library or on its way there.               *)
NothingHeld ==
  /\ queue = [k \in 1..2 |-> <<>>] /\ put = <<>> /\ m_fifo = <<>>
  /\ back = NoCallback /\ configHandle = None /\ sem = 0

(* How far Start and Stop have come, and what they leave behind.              *)
Phase ==
  /\ alive \subseteq 1..Passes
  /\ encoders \in {0, Passes} /\ (encoders = 0 => alive = {})
  /\ main.pc \in {"release", "reset", "destroy", "joining"} => encoders = Passes
  /\ main.pc = "create" => encoders = 0
  /\ main.pc = "joining" => main.pass > Passes
  /\ main.pc \in {"release", "reset"} => main.pass = 1
  /\ main.pc = "destroy" => \A k \in 1..2 : k < main.pass => k \notin alive
  /\ Past => alive = {}
  /\ 1 \notin alive => queue[1] = <<>> /\ m_fifo = <<>>
  /\ LastPass \notin alive => NothingHeld /\ (Past \/ (worker.pc = "idle" /\ tasks = <<>>))
  /\ media.la = 0 => /\ queue[2] = <<>> /\ m_fifo = <<>> /\ tasks = <<>>
                     /\ worker.pc = "idle" /\ forgotten = {}

(* Whom a callback or the look-ahead worker has in its hands.                  *)
Hands ==
  /\ worker.hand # None <=> worker.pc \in {"process", "processAgain"}
  /\ worker.pc = "late" => Past
  /\ worker.hand = Eos => worker.pc = "process"
  /\ back.pc = "out" => back = NoCallback
  /\ back.pc # "out" => back.source \in Sources /\ back.stream \in Streams
  /\ back.config # None => back.pc \in {"config", "null"}

(* The semaphore stands for configHandle, which the map knows, but while Stop  *)
(* releases it.                                                                *)
Config ==
  /\ sem = IF configHandle = None THEN 0 ELSE 1
  /\ main.pc \in {"destroy", "joining", "create"} => configHandle = None
  /\ back.pc = "null" => main.pc \in {"reset", "destroy"} /\ ~Past

(* Ownership, through the moment in which Stop has taken the handle kept for   *)
(* the configuration out of the maps and not yet forgotten it.                *)
Kept == IF main.pc = "reset" THEN Inside \ InConfig ELSE Inside
Owned ==
  back.pc # "null" /\ worker.pc # "late" =>
    /\ OncePlaced
    /\ handles = Kept \cup refused \cup forgotten
    /\ pool = handles \cup ({back.config} \ {None})
    /\ back.config \notin handles

(* There is one end of the stream at most, and nothing behind it.              *)
OnlyLast(s, e) == \A i \in DOMAIN s : s[i] = e => i = Len(s)
EosLast ==
  /\ OnlyLast(queue[1], Eos) /\ OnlyLast(queue[2], Eos) /\ OnlyLast(tasks, TRUE)
  /\ Eos \in ToSet(queue[1]) =>
       /\ TRUE \notin ToSet(tasks)
       /\ worker.pc \notin {"eos", "processAgain"} /\ worker.hand # Eos
       /\ Eos \notin ToSet(queue[2])
  /\ TRUE \in ToSet(tasks) =>
       /\ queue[1] = <<>>
       /\ worker.pc \notin {"eos", "processAgain"} /\ worker.hand # Eos
       /\ Eos \notin ToSet(queue[2])
  /\ worker.pc \in {"eos", "processAgain"} \/ worker.hand = Eos =>
       queue[1] = <<>> /\ tasks = <<>> /\ Eos \notin ToSet(queue[2])
  /\ worker.hand = Eos => m_fifo = <<>>
  /\ Eos \in ToSet(queue[2]) => queue[1] = <<>> /\ tasks = <<>> /\ m_fifo = <<>> /\ worker.hand = None

(* InOrder, and what Stop leaves of the order it speaks of.                     *)
Ordered == media.la > 0 => order = IF main.pc = "out" THEN Line ELSE <<>>

(* The tasks that wait are for the last pictures of the FIFO.                  *)
Waiting == media.la > 0 /\ ~overtaken => Len(m_fifo) < media.la + Len(tasks)

\* the references the module holds
TablesHeld ==
  media.la = 0 =>
    /\ \A t \in Tables : refs[t] = IF t \in {nextQPBuffer, tables[1]} THEN 1 ELSE 0
    /\ nextQPBuffer = tables[1] => nextQPBuffer = None
    /\ \A t \in Tables : IF t \in {nextQPBuffer, tables[1]} THEN uses[t] = 0 ELSE uses[t] <= 1
    /\ encoders = 0 \/ Past => tables[1] = None

IInv ==
  TypeOK /\ Phase /\ Hands /\ Config /\ Owned /\ EosLast /\ Ordered /\ Waiting /\ TablesHeld

Assumptions == HandlesAssumption /\ TablesAssumption /\ SettingsAssumption

LEMMA Assumed == Assumptions
BY ConstantsAssumption DEF Assumptions

-----------------------------------------------------------------------------
(* Types                                                                    *)

LEMMA PassesFacts ==
  ASSUME TypeOK, SettingsAssumption
  PROVE  /\ media.la \in Nat /\ Passes \in 1..2 /\ LastPass = Passes
         /\ (media.la > 0 <=> Passes = 2) /\ (media.la = 0 <=> Passes = 1)
BY DEF TypeOK, SettingsAssumption, Passes, LastPass

LEMMA InitIInv == ASSUME Assumptions, Init PROVE IInv
<1> USE DEF Assumptions
<1>1. /\ back = NoCallback /\ worker = [pc |-> "idle", hand |-> None]
      /\ main = [pc |-> "out", pass |-> 0, again |-> FALSE]
      /\ queue = [k \in 1..2 |-> <<>>] /\ tables = [k \in 1..2 |-> None]
  BY DEF Init
<1>2. TypeOK
  <2>1. queue \in [1..2 -> Seq(Sources \cup {Eos})] /\ tables \in [1..2 -> Tables \cup {None}]
    BY <1>1
  <2>2. refs \in [Tables -> -1..1] /\ uses \in [Tables -> 0..2]
    BY DEF Init
  <2>3. put \in Seq(Streams) /\ m_fifo \in Seq(Sources) /\ tasks \in Seq(BOOLEAN) /\ order \in Seq(Sources)
    BY DEF Init
  <2>4. /\ back \in CallbackSteps
        /\ worker \in WorkerSteps
    BY <1>1 DEF NoCallback, CallbackSteps, WorkerSteps
  <2>5. main \in MainSteps
    BY <1>1 DEF MainSteps
  <2>6. QED
    <3>1. /\ media \in Settings /\ encoders \in 0..2 /\ alive \subseteq 1..2
          /\ handles \subseteq Sources \cup Streams /\ pool \subseteq Sources \cup Streams
          /\ configHandle \in Streams \cup {None} /\ sem \in 0..1
      BY DEF Init
    <3>2. /\ mutex \in BOOLEAN /\ nextQPBuffer \in Tables \cup {None}
          /\ refused \subseteq Sources /\ forgotten \subseteq Sources
      BY DEF Init
    <3>3. QED
      BY <2>1, <2>2, <2>3, <2>4, <2>5, <3>1, <3>2 DEF TypeOK
<1>3. Passes \in 1..2 /\ LastPass = Passes /\ media.la \in Nat
  BY <1>2, PassesFacts
<1>4. Phase /\ Hands /\ Config
  <2>1. NothingHeld /\ ~Past
    BY <1>1, <1>3 DEF Init, NothingHeld, Past
  <2>2. Phase
    BY <1>1, <1>3, <2>1 DEF Init, Phase
  <2>3. Hands
    BY <1>1 DEF Hands, NoCallback, HandlesAssumption
  <2>4. Config
    BY <1>1 DEF Init, Config, NoCallback
  <2>5. QED
    BY <2>2, <2>3, <2>4
<1>5. Inside = {} /\ OncePlaced
  BY <1>1 DEF Init, Inside, InQueue, InHand, InBack, InConfig, NoCallback, OncePlaced, ToSet, IsInjective
<1>6. Owned
  BY <1>1, <1>5 DEF Init, Owned, Kept, NoCallback
<1>7. EosLast /\ Waiting
  BY <1>1, <1>3 DEF Init, EosLast, OnlyLast, Waiting, ToSet, HandlesAssumption
<1>8. Ordered
  <2>1. Pictures(queue[1]) = <<>> /\ Pictures(queue[2]) = <<>>
    BY <1>1 DEF Pictures
  <2>2. Line = <<>>
    BY <1>1, <2>1 DEF Init, Line, NoCallback
  <2>3. QED
    BY <1>1, <2>2 DEF Init, Ordered
<1>9. TablesHeld
  BY <1>1 DEF Init, TablesHeld, TablesAssumption
<1>10. QED
  BY <1>2, <1>4, <1>6, <1>7, <1>8, <1>9 DEF IInv

\* of a queue
LEMMA QueueFacts ==
  ASSUME TypeOK, NEW k \in 1..2
  PROVE  /\ queue[k] \in Seq(Sources \cup {Eos}) /\ DOMAIN queue = 1..2
         /\ \A i \in DOMAIN queue[k] : queue[k][i] \in Sources \cup {Eos}
         /\ queue[k] # <<>> => /\ Head(queue[k]) \in Sources \cup {Eos}
                               /\ Tail(queue[k]) \in Seq(Sources \cup {Eos})
                               /\ 1 \in DOMAIN queue[k] /\ Head(queue[k]) = queue[k][1]
BY TailFacts DEF TypeOK

LEMMA UnrefType ==
  ASSUME NEW r \in [Tables -> -1..1], NEW t \in Tables \cup {None}
  PROVE  Unref(r, t) \in [Tables -> -1..1]
<1>1. CASE t = None
  BY <1>1 DEF Unref
<1>2. CASE t # None
  <2>1. t \in Tables /\ r[t] \in -1..1
    BY <1>2
  <2>2. (IF r[t] > 0 THEN r[t] - 1 ELSE -1) \in -1..1
    BY <2>1
  <2>3. QED
    BY <1>2, <2>1, <2>2 DEF Unref
<1>3. QED
  BY <1>1, <1>2

LEMMA EmptyTableType ==
  ASSUME TypeOK, EmptyTable
  PROVE  /\ refs' \in [Tables -> -1..1] /\ uses' \in [Tables -> 0..2]
         /\ tables' \in [1..2 -> Tables \cup {None}] /\ UNCHANGED nextQPBuffer
<1>1. CASE tables[1] = None
  BY <1>1 DEF EmptyTable, TypeOK, qp
<1>2. CASE tables[1] # None
  <2>1. tables[1] \in Tables /\ Unref(refs, tables[1]) \in [Tables -> -1..1]
    <3>1. refs \in [Tables -> -1..1] /\ tables[1] \in Tables
      BY <1>2 DEF TypeOK
    <3>2. QED
      BY <3>1, UnrefType
  <2>2. /\ uses' = [uses EXCEPT ![tables[1]] = IF @ < 2 THEN @ + 1 ELSE 2]
        /\ refs' = refs \/ refs' = Unref(refs, tables[1])
        /\ tables' = [tables EXCEPT ![1] = None] \/ tables' = [tables EXCEPT ![2] = tables[1]]
        /\ UNCHANGED nextQPBuffer
    BY <1>2 DEF EmptyTable
  <2>3. (IF uses[tables[1]] < 2 THEN uses[tables[1]] + 1 ELSE 2) \in 0..2
    <3>1. uses[tables[1]] \in 0..2
      BY <2>1 DEF TypeOK
    <3>2. QED
      BY <3>1
  <2>4. uses' \in [Tables -> 0..2]
    BY <2>1, <2>2, <2>3 DEF TypeOK
  <2>5. tables' \in [1..2 -> Tables \cup {None}]
    BY <2>1, <2>2 DEF TypeOK
  <2>6. refs' \in [Tables -> -1..1]
    BY <2>1, <2>2 DEF TypeOK
  <2>7. QED
    BY <2>2, <2>4, <2>5, <2>6
<1>3. QED
  BY <1>1, <1>2

LEMMA WorkersType ==
  ASSUME Assumptions, TypeOK, Config, Workers
  PROVE  TypeOK'
<1> USE DEF Assumptions
<1>1. ASSUME NEW h \in Sources, Empty(h) PROVE TypeOK'
  <2>1. /\ refs' \in [Tables -> -1..1] /\ uses' \in [Tables -> 0..2]
        /\ tables' \in [1..2 -> Tables \cup {None}] /\ nextQPBuffer' \in Tables \cup {None}
    BY <1>1, EmptyTableType DEF Empty, TypeOK
  <2>2. Append(queue[1], h) \in Seq(Sources \cup {Eos}) /\ Append(order, h) \in Seq(Sources)
    BY QueueFacts, AppendFacts DEF TypeOK
  <2>3. /\ queue' \in [1..2 -> Seq(Sources \cup {Eos})] /\ order' \in Seq(Sources)
        /\ refused' \subseteq Sources
    <3>1. \/ queue' = [queue EXCEPT ![1] = Append(@, h)] /\ order' = Append(order, h) /\ refused' = refused
          \/ queue' = queue /\ order' = order /\ refused' = refused \cup {h}
      BY <1>1 DEF Empty
    <3>2. [queue EXCEPT ![1] = Append(@, h)] \in [1..2 -> Seq(Sources \cup {Eos})]
      BY <2>2 DEF TypeOK
    <3>3. QED
      BY <2>2, <3>1, <3>2 DEF TypeOK
  <2>4. handles' \subseteq Sources \cup Streams /\ pool' \subseteq Sources \cup Streams
    BY <1>1 DEF Empty, Use, TypeOK
  <2>5. UNCHANGED <<media, encoders, alive, put, configHandle, sem, mutex, back, m_fifo, tasks, worker,
                    main, forgotten>>
    BY <1>1 DEF Empty, config, lookAhead
  <2>6. QED
    BY <2>1, <2>3, <2>4, <2>5 DEF TypeOK
<1>2. ASSUME EmptyEos PROVE TypeOK'
  <2>1. Append(queue[1], Eos) \in Seq(Sources \cup {Eos})
    BY QueueFacts, AppendFacts
  <2>2. queue' \in [1..2 -> Seq(Sources \cup {Eos})]
    BY <1>2, <2>1 DEF EmptyEos, TypeOK
  <2>3. QED
    BY <1>2, <2>2 DEF EmptyEos, TypeOK, maps, config, lookAhead, qp, history, counters
<1>3. ASSUME NEW h \in Streams, Fill(h) PROVE TypeOK'
  <2>1. Append(put, h) \in Seq(Streams)
    BY AppendFacts DEF TypeOK
  <2>2. /\ put' \in Seq(Streams) /\ sem' \in 0..1 /\ configHandle' \in Streams \cup {None}
        /\ handles' \subseteq Sources \cup Streams /\ pool' \subseteq Sources \cup Streams
    <3>1. CASE media.separate /\ configHandle = None
      BY <1>3, <3>1 DEF Fill, Use, TypeOK, Config
    <3>2. CASE ~(media.separate /\ configHandle = None)
      BY <1>3, <2>1, <3>2 DEF Fill, Use, maps, TypeOK
    <3>3. QED
      BY <3>1, <3>2
  <2>3. QED
    BY <1>3, <2>2 DEF Fill, TypeOK, lookAhead, qp, history
<1>4. ASSUME NEW t \in Tables, SetTable(t) PROVE TypeOK'
  <2>1. /\ refs' \in [Tables -> -1..1] /\ UNCHANGED uses
        /\ tables' \in [1..2 -> Tables \cup {None}] /\ nextQPBuffer' \in Tables \cup {None}
    <3>1. /\ Unref(refs, nextQPBuffer) \in [Tables -> -1..1]
          /\ Unref(refs, tables[1]) \in [Tables -> -1..1]
      <4>1. /\ refs \in [Tables -> -1..1] /\ nextQPBuffer \in Tables \cup {None}
            /\ tables[1] \in Tables \cup {None}
        BY DEF TypeOK
      <4>2. QED
        BY <4>1, UnrefType
    <3>2. CASE encoders = 0
      <4>1. /\ refs' = [Unref(refs, nextQPBuffer) EXCEPT ![t] = 1]
            /\ nextQPBuffer' = t /\ UNCHANGED <<tables, uses>>
        BY <1>4, <3>2 DEF SetTable
      <4>2. QED
        BY <3>1, <4>1 DEF TypeOK
    <3>3. CASE encoders # 0
      <4>1. /\ refs' = [Unref(refs, tables[1]) EXCEPT ![t] = 1]
            /\ tables' = [tables EXCEPT ![1] = t] /\ UNCHANGED <<nextQPBuffer, uses>>
        BY <1>4, <3>3 DEF SetTable
      <4>2. QED
        BY <3>1, <4>1 DEF TypeOK
    <3>4. QED
      BY <3>2, <3>3
  <2>2. QED
    BY <1>4, <2>1 DEF SetTable, TypeOK, library, maps, config, lookAhead, history, counters
<1>5. QED
  BY <1>1, <1>2, <1>3, <1>4 DEF Workers

LEMMA EndEncodingType ==
  ASSUME Assumptions, TypeOK, EndEncoding
  PROVE  TypeOK'
<1> USE DEF Assumptions
<1>1. ASSUME NEW hasConfig \in BOOLEAN, NEW end \in BOOLEAN, Finish(hasConfig, end) PROVE TypeOK'
  <2>1. /\ Head(queue[LastPass]) \in Sources /\ Tail(queue[LastPass]) \in Seq(Sources \cup {Eos})
        /\ Head(put) \in Streams /\ Tail(put) \in Seq(Streams)
    BY <1>1, QueueFacts, PassesFacts, TailFacts DEF Finish, TypeOK
  <2>2. /\ put' \in Seq(Streams) /\ queue' \in [1..2 -> Seq(Sources \cup {Eos})]
    BY <1>1, <2>1 DEF Finish, TypeOK
  <2>3. back' \in CallbackSteps
    BY <1>1, <2>1 DEF Finish, CallbackSteps
  <2>4. QED
    BY <1>1, <2>2, <2>3 DEF Finish, TypeOK, maps, config, lookAhead, qp, history, counters
<1>2. ASSUME FinishEos PROVE TypeOK'
  <2>1. Tail(queue[LastPass]) \in Seq(Sources \cup {Eos})
    BY <1>2, QueueFacts, PassesFacts DEF FinishEos
  <2>2. queue' \in [1..2 -> Seq(Sources \cup {Eos})]
    BY <1>2, <2>1 DEF FinishEos, TypeOK
  <2>3. QED
    BY <1>2, <2>2 DEF FinishEos, TypeOK, maps, config, lookAhead, qp, history, counters
<1>3. ASSUME LockConfig PROVE TypeOK'
  <2>1. back' \in CallbackSteps /\ mutex' \in BOOLEAN
    <3>1. back' \in CallbackSteps
      BY <1>3 DEF LockConfig, TypeOK, CallbackSteps
    <3>2. mutex' \in BOOLEAN
      BY <1>3 DEF LockConfig
    <3>3. QED
      BY <3>1, <3>2
  <2>2. QED
    BY <1>3, <2>1 DEF LockConfig, TypeOK, library, maps, lookAhead, qp, history, counters
<1>4. ASSUME TakeConfig PROVE TypeOK'
  <2>1. back' \in CallbackSteps
    BY <1>4 DEF TakeConfig, TypeOK, CallbackSteps
  <2>2. /\ handles' \subseteq Sources \cup Streams /\ configHandle' \in Streams \cup {None}
        /\ sem' \in 0..1
    BY <1>4 DEF TakeConfig, TypeOK
  <2>3. QED
    <3>1. mutex' \in BOOLEAN
      BY <1>4 DEF TakeConfig
    <3>2. QED
      BY <1>4, <2>1, <2>2, <3>1 DEF TakeConfig, TypeOK, library, lookAhead, qp, history, counters
<1>5. ASSUME GiveConfig PROVE TypeOK'
  <2>1. back' \in CallbackSteps
    BY <1>5 DEF GiveConfig, TypeOK, CallbackSteps
  <2>2. pool' \subseteq Sources \cup Streams
    BY <1>5 DEF GiveConfig, Unuse, TypeOK
  <2>3. QED
    BY <1>5, <2>1, <2>2 DEF GiveConfig, TypeOK, library, config, lookAhead, qp, history, counters
<1>6. ASSUME GiveData PROVE TypeOK'
  <2>1. order' \in Seq(Sources)
    BY <1>6, TailFacts DEF GiveData, TypeOK
  <2>2. back' \in CallbackSteps
    BY <1>6 DEF GiveData, NoCallback, CallbackSteps
  <2>3. handles' \subseteq Sources \cup Streams /\ pool' \subseteq Sources \cup Streams
    BY <1>6 DEF GiveData, Unuse, TypeOK
  <2>4. QED
    BY <1>6, <2>1, <2>2, <2>3 DEF GiveData, TypeOK, library, config, lookAhead, qp, counters
<1>7. QED
  BY <1>1, <1>2, <1>3, <1>4, <1>5, <1>6 DEF EndEncoding

\* what EmptyFifo does up to the pop
LEMMA EmptyFifoFacts ==
  ASSUME TypeOK, media.la \in Nat \ {0}, NEW isEOS \in BOOLEAN, EmptyFifoFrom(isEOS)
  PROVE  \/ /\ isEOS /\ m_fifo = <<>> /\ m_fifo' = m_fifo
            /\ worker' = [pc |-> "process", hand |-> Eos]
         \/ /\ m_fifo # <<>> /\ m_fifo' = Tail(m_fifo) /\ Head(m_fifo) \in Sources
            /\ Tail(m_fifo) \in Seq(Sources) /\ Len(Tail(m_fifo)) = Len(m_fifo) - 1
            /\ isEOS \/ Len(m_fifo) = media.la
            /\ worker' = [pc |-> IF isEOS THEN "processAgain" ELSE "process", hand |-> Head(m_fifo)]
         \/ /\ ~isEOS /\ Len(m_fifo) # media.la
            /\ m_fifo' = m_fifo /\ worker' = [pc |-> "idle", hand |-> None]
<1>1. m_fifo \in Seq(Sources)
  BY DEF TypeOK
<1>2. m_fifo # <<>> => /\ Head(m_fifo) \in Sources /\ Tail(m_fifo) \in Seq(Sources)
                       /\ Len(Tail(m_fifo)) = Len(m_fifo) - 1
  BY <1>1
<1>3. CASE isEOS
  BY <1>2, <1>3 DEF EmptyFifoFrom
<1>4. CASE ~isEOS
  BY <1>1, <1>2, <1>4 DEF EmptyFifoFrom
<1>5. QED
  BY <1>3, <1>4

LEMMA LookAheadType ==
  ASSUME Assumptions, TypeOK, Phase, Hands, LookAheadWorker
  PROVE  TypeOK'
<1> USE DEF Assumptions
<1>1. ASSUME EndEncodingLookAhead PROVE TypeOK'
  <2>1. /\ Head(queue[1]) \in Sources \cup {Eos} /\ Tail(queue[1]) \in Seq(Sources \cup {Eos})
    BY <1>1, QueueFacts DEF EndEncodingLookAhead
  <2>2. queue' \in [1..2 -> Seq(Sources \cup {Eos})]
    BY <1>1, <2>1 DEF EndEncodingLookAhead, TypeOK
  <2>3. /\ m_fifo' = IF Head(queue[1]) = Eos THEN m_fifo ELSE Append(m_fifo, Head(queue[1]))
        /\ tasks' = Append(tasks, Head(queue[1]) = Eos)
    BY <1>1 DEF EndEncodingLookAhead
  <2>4. m_fifo' \in Seq(Sources) /\ tasks' \in Seq(BOOLEAN)
    <3>1. m_fifo \in Seq(Sources) /\ tasks \in Seq(BOOLEAN)
      BY DEF TypeOK
    <3>2. (Head(queue[1]) = Eos) \in BOOLEAN
      OBVIOUS
    <3>3. tasks' \in Seq(BOOLEAN)
      BY <2>3, <3>1, <3>2, AppendFacts
    <3>4. QED
      BY <2>1, <2>3, <3>1, <3>3, AppendFacts
  <2>5. QED
    BY <1>1, <2>2, <2>4 DEF EndEncodingLookAhead, TypeOK, maps, config, qp, history, counters
<1>2. ASSUME WorkerTake PROVE TypeOK'
  <2>1. media.la \in Nat \ {0}
    BY <1>2, PassesFacts DEF WorkerTake, Phase
  <2>0. tasks # <<>> => Head(tasks) \in BOOLEAN /\ Tail(tasks) \in Seq(BOOLEAN)
    BY DEF TypeOK
  <2>2. PICK isEOS \in BOOLEAN : EmptyFifoFrom(isEOS)
    <3>1. CASE worker.pc = "idle"
      BY <1>2, <2>0, <3>1 DEF WorkerTake
    <3>2. CASE worker.pc # "idle"
      BY <1>2, <3>2 DEF WorkerTake
    <3>3. QED
      BY <3>1, <3>2
  <2>3. m_fifo' \in Seq(Sources)
    BY <2>1, <2>2, EmptyFifoFacts DEF TypeOK
  <2>4. worker' \in WorkerSteps
    BY <2>1, <2>2, EmptyFifoFacts DEF WorkerSteps
  <2>5. tasks' \in Seq(BOOLEAN)
    BY <1>2, <2>0 DEF WorkerTake, TypeOK
  <2>6. QED
    BY <1>2, <2>3, <2>4, <2>5 DEF WorkerTake, TypeOK, library, maps, config, qp, counters
<1>3. ASSUME WorkerProcess PROVE TypeOK'
  <2>1. /\ refs' \in [Tables -> -1..1] /\ uses' \in [Tables -> 0..2]
        /\ UNCHANGED <<nextQPBuffer, tables>>
    <3>1. CASE worker.hand = Eos \/ tables[2] = None
      BY <1>3, <3>1 DEF WorkerProcess, qp, TypeOK
    <3>2. CASE ~(worker.hand = Eos \/ tables[2] = None)
      <4>1. /\ refs' = Unref(refs, tables[2])
            /\ uses' = [uses EXCEPT ![tables[2]] = IF @ < 2 THEN @ + 1 ELSE 2]
            /\ UNCHANGED <<nextQPBuffer, tables>>
        BY <1>3, <3>2 DEF WorkerProcess
      <4>2. tables[2] \in Tables /\ refs \in [Tables -> -1..1] /\ uses[tables[2]] \in 0..2
        BY <3>2 DEF TypeOK
      <4>3. (IF uses[tables[2]] < 2 THEN uses[tables[2]] + 1 ELSE 2) \in 0..2
        BY <4>2
      <4>4. QED
        BY <4>1, <4>2, <4>3, UnrefType DEF TypeOK
    <3>3. QED
      BY <3>1, <3>2
  <2>2. queue' \in [1..2 -> Seq(Sources \cup {Eos})]
    <3>1. worker.hand \in Sources \cup {Eos} /\ queue \in [1..2 -> Seq(Sources \cup {Eos})]
      BY <1>3 DEF WorkerProcess, Hands, TypeOK, WorkerSteps
    <3>2. Append(queue[2], worker.hand) \in Seq(Sources \cup {Eos})
      BY <3>1, AppendFacts
    <3>3. QED
      BY <1>3, <3>1, <3>2 DEF WorkerProcess
  <2>3. worker' \in WorkerSteps
    BY <1>3 DEF WorkerProcess, WorkerSteps
  <2>4. QED
    BY <1>3, <2>1, <2>2, <2>3 DEF WorkerProcess, TypeOK, maps, config, history, counters
<1>4. QED
  BY <1>1, <1>2, <1>3 DEF LookAheadWorker

LEMMA CreateEncoderType ==
  ASSUME Assumptions, TypeOK, NEW created \in 0..Passes, CreateEncoder(created)
  PROVE  /\ encoders' = Passes /\ alive' = 1..created /\ Passes \in 1..2
         /\ nextQPBuffer' \in Tables \cup {None} /\ tables' \in [1..2 -> Tables \cup {None}]
         /\ UNCHANGED <<media, queue, put, maps, config, back, lookAhead, refs, uses, history>>
<1>1. Passes \in 1..2
  BY PassesFacts DEF Assumptions
<1>2. /\ encoders' = Passes /\ alive' = 1..created
      /\ UNCHANGED <<media, queue, put, maps, config, back, lookAhead, refs, uses, history>>
  BY DEF CreateEncoder
<1>3. nextQPBuffer' \in Tables \cup {None} /\ tables' \in [1..2 -> Tables \cup {None}]
  BY DEF CreateEncoder, TypeOK
<1>4. QED
  BY <1>1, <1>2, <1>3

LEMMA MainType ==
  ASSUME Assumptions, TypeOK, Main
  PROVE  TypeOK'
<1> USE DEF Assumptions
<1>1. ASSUME NEW created \in 0..Passes, Start(created) \/ StartAgain(created) PROVE TypeOK'
  <2>1. CreateEncoder(created)
    BY <1>1 DEF Start, StartAgain
  <2>2. main' \in MainSteps
    BY <1>1 DEF Start, StartAgain, TypeOK, MainSteps
  <2>3. encoders' \in 0..2 /\ alive' \subseteq 1..2
    BY <2>1, CreateEncoderType
  <2>4. QED
    BY <2>1, <2>2, <2>3, CreateEncoderType DEF TypeOK, maps, config, lookAhead, history
<1>2. ASSUME NEW again \in BOOLEAN, Stop(again) PROVE TypeOK'
  <2>1. refs' \in [Tables -> -1..1]
    <3>1. refs \in [Tables -> -1..1] /\ nextQPBuffer \in Tables \cup {None}
      BY DEF TypeOK
    <3>2. QED
      BY <1>2, <3>1, UnrefType DEF Stop
  <2>2. main' \in MainSteps
    BY <1>2 DEF Stop, TypeOK, MainSteps
  <2>3. QED
    BY <1>2, <2>1, <2>2 DEF Stop, TypeOK, library, maps, config, lookAhead
<1>3. ASSUME ReleaseConfig PROVE TypeOK'
  <2>1. main' \in MainSteps
    BY <1>3 DEF ReleaseConfig, TypeOK, MainSteps
  <2>2. QED
    BY <1>3, <2>1 DEF ReleaseConfig, ReleaseBuf, TypeOK, library, config, lookAhead, qp, history, counters
<1>4. ASSUME ResetConfig PROVE TypeOK'
  <2>1. main' \in MainSteps
    BY <1>4 DEF ResetConfig, TypeOK, MainSteps
  <2>2. QED
    BY <1>4, <2>1 DEF ResetConfig, TypeOK, library, maps, lookAhead, qp, history, counters
<1>5. ASSUME NEW k \in 1..2, ReleaseSource(k) PROVE TypeOK'
  <2>1. PICK i \in DOMAIN queue[k] :
          queue' = [queue EXCEPT ![k] = RemoveAt(@, i)] /\ ReleaseBuf(queue[k][i])
    BY <1>5 DEF ReleaseSource
  <2>2. RemoveAt(queue[k], i) \in Seq(Sources \cup {Eos})
    BY QueueFacts, RemoveAtFacts
  <2>3. queue' \in [1..2 -> Seq(Sources \cup {Eos})]
    BY <2>1, <2>2 DEF TypeOK
  <2>4. QED
    BY <1>5, <2>1, <2>3 DEF ReleaseSource, ReleaseBuf, TypeOK, config, lookAhead, qp, history, counters
<1>6. ASSUME ReleaseStream PROVE TypeOK'
  <2>1. put' \in Seq(Streams)
    BY <1>6, TailFacts DEF ReleaseStream, TypeOK
  <2>2. QED
    BY <1>6, <2>1 DEF ReleaseStream, ReleaseBuf, TypeOK, config, lookAhead, qp, history, counters
<1>7. ASSUME NEW k \in 1..2, DestroyPass(k) PROVE TypeOK'
  <2>1. queue' \in [1..2 -> Seq(Sources \cup {Eos})] /\ tables' \in [1..2 -> Tables \cup {None}]
    BY <1>7 DEF DestroyPass, TypeOK
  <2>2. refs' \in [Tables -> -1..1]
    <3>1. refs \in [Tables -> -1..1] /\ tables[k] \in Tables \cup {None}
      BY DEF TypeOK
    <3>2. QED
      BY <1>7, <3>1, UnrefType DEF DestroyPass
  <2>3. m_fifo' \in Seq(Sources) /\ forgotten' \subseteq Sources
    <3>1. m_fifo \in Seq(Sources) /\ forgotten \subseteq Sources /\ ToSet(m_fifo) \subseteq Sources
      BY DEF TypeOK, ToSet
    <3>2. CASE k < LastPass
      <4>1. m_fifo' = <<>> /\ forgotten' = forgotten \cup ToSet(m_fifo)
        BY <1>7, <3>2 DEF DestroyPass
      <4>2. QED
        BY <3>1, <4>1
    <3>3. CASE ~(k < LastPass)
      BY <1>7, <3>1, <3>3 DEF DestroyPass
    <3>4. QED
      BY <3>2, <3>3
  <2>4. main' \in MainSteps
    <3>1. main' = [main EXCEPT !.pass = k + 1] /\ k + 1 \in 0..3
      BY <1>7 DEF DestroyPass
    <3>2. QED
      BY <3>1 DEF TypeOK, MainSteps
  <2>5. QED
    BY <1>7, <2>1, <2>2, <2>3, <2>4 DEF DestroyPass, TypeOK, maps, config, counters
<1>8. ASSUME Clear PROVE TypeOK'
  <2>1. encoders' \in 0..2 /\ tasks' \in Seq(BOOLEAN)
    <3>1. encoders' \in {0, encoders} /\ tasks' \in {<<>>, tasks}
      BY <1>8 DEF Clear
    <3>2. <<>> \in Seq(BOOLEAN) /\ tasks \in Seq(BOOLEAN) /\ encoders \in 0..2
      BY DEF TypeOK
    <3>3. CASE tasks' = <<>>
      BY <3>1, <3>2, <3>3
    <3>4. CASE tasks' = tasks
      BY <3>1, <3>2, <3>4
    <3>5. QED
      BY <3>1, <3>3, <3>4
  <2>3. main' \in MainSteps
    <3>1. main \in MainSteps /\ 0 \in 0..3
      BY DEF TypeOK
    <3>2. \/ main' = [main EXCEPT !.pc = IF main.again THEN "create" ELSE "out", !.pass = 0]
          \/ main' = [main EXCEPT !.pc = "joining"]
      BY <1>8 DEF Clear
    <3>3. QED
      BY <3>1, <3>2 DEF MainSteps
  <2>2. QED
    BY <1>8, <2>1, <2>3 DEF Clear, TypeOK, library, maps, config, qp, history, counters
<1>9. QED
  BY <1>1, <1>2, <1>3, <1>4, <1>5, <1>6, <1>7, <1>8 DEF Main, StopSteps


-----------------------------------------------------------------------------
(* The phases of Start and Stop                                             *)

LEMMA WorkersPhase ==
  ASSUME Assumptions, TypeOK, Phase, Workers
  PROVE  Phase'
<1> USE DEF Assumptions
<1>0. main.pc = "out" /\ ~Past /\ ~Past'
  BY DEF Workers, Empty, EmptyEos, Fill, SetTable, Working, Open, Past
<1>1. ASSUME NEW h \in Sources, Empty(h) PROVE Phase'
  <2>1. alive = 1..Passes /\ Passes \in 1..2 /\ (media.la = 0 => queue[2] = <<>>)
    BY <1>1, PassesFacts DEF Empty, Working, Phase
  <2>2. queue'[2] = queue[2]
    BY <1>1 DEF Empty, TypeOK
  <2>3. UNCHANGED <<media, encoders, alive, m_fifo, tasks, worker, main, forgotten>>
    BY <1>1 DEF Empty, lookAhead
  <2>4. QED
    BY <1>0, <2>1, <2>2, <2>3 DEF Phase, Passes, LastPass, Past
<1>2. ASSUME EmptyEos PROVE Phase'
  <2>1. alive = 1..Passes /\ Passes \in 1..2 /\ (media.la = 0 => queue[2] = <<>>)
    BY <1>2, PassesFacts DEF EmptyEos, Working, Phase
  <2>2. queue'[2] = queue[2]
    BY <1>2 DEF EmptyEos, TypeOK
  <2>3. UNCHANGED <<media, encoders, alive, m_fifo, tasks, worker, main, forgotten>>
    BY <1>2 DEF EmptyEos, lookAhead, history
  <2>4. QED
    BY <1>0, <2>1, <2>2, <2>3 DEF Phase, Passes, LastPass, Past
<1>3. ASSUME NEW h \in Streams, Fill(h) PROVE Phase'
  <2>1. alive = 1..Passes /\ Passes \in 1..2
    BY <1>3, PassesFacts DEF Fill, Working
  <2>2. UNCHANGED <<media, encoders, alive, queue, m_fifo, tasks, worker, main, forgotten>>
    BY <1>3 DEF Fill, lookAhead, history
  <2>3. QED
    BY <1>0, <2>1, <2>2 DEF Phase, Passes, LastPass, Past
<1>4. ASSUME NEW t \in Tables, SetTable(t) PROVE Phase'
  BY <1>4 DEF SetTable, Phase, Passes, LastPass, Past, NothingHeld, library, config, lookAhead, history
<1>5. QED
  BY <1>1, <1>2, <1>3, <1>4 DEF Workers

LEMMA EndEncodingPhase ==
  ASSUME Assumptions, TypeOK, Phase, Hands, EndEncoding
  PROVE  Phase'
<1> USE DEF Assumptions
<1>0. Passes \in 1..2 /\ LastPass = Passes /\ (media.la = 0 => Passes = 1) /\ (media.la > 0 => Passes = 2)
      /\ media.la \in Nat
  BY PassesFacts
<1>1. LastPass \in alive
  BY <1>0 DEF EndEncoding, Finish, FinishEos, LockConfig, TakeConfig, GiveConfig, GiveData, Phase, NothingHeld,
              NoCallback
<1>2. UNCHANGED <<media, encoders, alive, m_fifo, tasks, worker, main, forgotten>>
  BY DEF EndEncoding, Finish, FinishEos, LockConfig, TakeConfig, GiveConfig, GiveData, library, config,
         lookAhead, history
<1>3. \/ queue' = queue
      \/ queue[LastPass] # <<>> /\ queue' = [queue EXCEPT ![LastPass] = Tail(@)]
  BY DEF EndEncoding, Finish, FinishEos, LockConfig, TakeConfig, GiveConfig, GiveData, library
<1>4. /\ 1 \notin alive => queue'[1] = <<>>
      /\ media.la = 0 => queue'[2] = <<>>
  <2>1. DOMAIN queue = 1..2
    BY DEF TypeOK
  <2>2. QED
    BY <1>0, <1>1, <1>3, <2>1 DEF Phase
<1>5. QED
  BY <1>0, <1>1, <1>2, <1>4 DEF Phase, Passes, LastPass, Past

LEMMA LookAheadPhase ==
  ASSUME Assumptions, TypeOK, Phase, LookAheadWorker
  PROVE  Phase'
<1> USE DEF Assumptions
<1>0. Passes \in 1..2 /\ LastPass = Passes /\ (media.la = 0 => Passes = 1) /\ (media.la > 0 => Passes = 2)
      /\ media.la \in Nat
  BY PassesFacts
<1>1. media.la > 0
  <2>1. EndEncodingLookAhead => media.la > 0
    BY DEF EndEncodingLookAhead
  <2>2. media.la = 0 => ~WorkerTake /\ ~WorkerProcess
    BY DEF WorkerTake, WorkerProcess, Phase
  <2>3. QED
    BY <1>0, <2>1, <2>2 DEF LookAheadWorker
<1>2. UNCHANGED <<media, encoders, alive, put, back, configHandle, sem, main, forgotten>>
  BY DEF LookAheadWorker, EndEncodingLookAhead, WorkerTake, WorkerProcess, library, config, history
<1>3. ASSUME EndEncodingLookAhead PROVE Phase'
  <2>1. 1 \in alive
    BY <1>3 DEF EndEncodingLookAhead
  <2>2. 2 \in alive
    BY <1>0, <1>1, <1>3 DEF EndEncodingLookAhead, Phase, NothingHeld
  <2>3. QED
    BY <1>0, <1>1, <1>2, <2>1, <2>2 DEF Phase, Passes, LastPass, Past
<1>4. ASSUME WorkerTake PROVE Phase'
  <2>1. PICK isEOS \in BOOLEAN : EmptyFifoFrom(isEOS)
    <3>1. tasks # <<>> => Head(tasks) \in BOOLEAN
      BY DEF TypeOK
    <3>2. CASE worker.pc = "idle"
      BY <1>4, <3>1, <3>2 DEF WorkerTake
    <3>3. CASE worker.pc # "idle"
      BY <1>4, <3>3 DEF WorkerTake
    <3>4. QED
      BY <3>2, <3>3
  <2>2. m_fifo = <<>> => m_fifo' = <<>>
    BY <1>0, <1>1, <2>1, EmptyFifoFacts
  <2>3. 2 \in alive \/ Past
    BY <1>0, <1>1, <1>4 DEF WorkerTake, Phase
  <2>4. UNCHANGED queue
    BY <1>4 DEF WorkerTake, library
  <2>5. QED
    BY <1>0, <1>1, <1>2, <2>2, <2>3, <2>4 DEF Phase, Passes, LastPass, Past, NothingHeld
<1>5. ASSUME WorkerProcess PROVE Phase'
  <2>1. 2 \in alive \/ Past
    BY <1>0, <1>1, <1>5 DEF WorkerProcess, Phase
  <2>2. queue'[1] = queue[1] /\ (2 \notin alive => queue' = queue) /\ UNCHANGED <<m_fifo, tasks>>
    <3>1. queue \in [1..2 -> Seq(Sources \cup {Eos})]
      BY DEF TypeOK
    <3>2. queue' = [queue EXCEPT ![2] = IF 2 \in alive THEN Append(@, worker.hand) ELSE @]
      BY <1>5 DEF WorkerProcess
    <3>3. QED
      BY <1>5, <3>1, <3>2 DEF WorkerProcess
  <2>3. QED
    BY <1>0, <1>1, <1>2, <2>1, <2>2 DEF Phase, Passes, LastPass, Past, NothingHeld
<1>6. QED
  BY <1>3, <1>4, <1>5 DEF LookAheadWorker


LEMMA MainPhase ==
  ASSUME Assumptions, TypeOK, Phase, Hands, Config, Main
  PROVE  Phase'
<1> USE DEF Assumptions
<1>0. Passes \in 1..2 /\ LastPass = Passes /\ (media.la = 0 => Passes = 1) /\ (media.la > 0 => Passes = 2)
      /\ media.la \in Nat
  BY PassesFacts
<1>00. main \in MainSteps /\ queue \in [1..2 -> Seq(Sources \cup {Eos})]
  BY DEF TypeOK
<1>1. ASSUME NEW created \in 0..Passes, CreateEncoder(created),
             main.pc \in {"out", "create"}, encoders = 0, main'.pc = "out"
      PROVE  Phase'
  <2>1. NothingHeld /\ worker.pc = "idle" /\ tasks = <<>>
    BY <1>0, <1>1 DEF Phase, Past
  <2>2. encoders' = Passes /\ alive' = 1..created
    BY <1>1 DEF CreateEncoder
  <2>3. UNCHANGED <<media, queue, put, m_fifo, back, configHandle, sem, tasks, worker, forgotten>>
    BY <1>1 DEF CreateEncoder, config, lookAhead, history
  <2>4. NothingHeld'
    BY <2>1, <2>3 DEF NothingHeld, NoCallback
  <2>5. ~Past' /\ Passes' = Passes /\ LastPass' = LastPass
    BY <1>1, <2>3 DEF Past, Passes, LastPass
  <2>6. QED
    BY <1>0, <1>1, <2>1, <2>2, <2>3, <2>4, <2>5 DEF Phase, NothingHeld
<1>2. ASSUME NEW created \in 0..Passes, Start(created) PROVE Phase'
  <2>1. CreateEncoder(created) /\ main.pc = "out" /\ encoders = 0 /\ main'.pc = "out"
    BY <1>2 DEF Start
  <2>2. QED
    BY <1>1, <2>1
<1>3. ASSUME NEW created \in 0..Passes, StartAgain(created) PROVE Phase'
  <2>1. CreateEncoder(created) /\ main.pc = "create" /\ main'.pc = "out"
    BY <1>00, <1>3 DEF StartAgain, MainSteps
  <2>2. QED
    BY <1>1, <2>1 DEF Phase
<1>4. ASSUME NEW again \in BOOLEAN, Stop(again) PROVE Phase'
  <2>1. main.pc = "out" /\ (encoders = 0 => main' = main)
        /\ (encoders # 0 => main'.pc = "release" /\ main'.pass = 1)
    BY <1>4 DEF Stop
  <2>2. UNCHANGED <<media, encoders, alive, queue, put, m_fifo, back, configHandle, sem, tasks, worker, forgotten>>
    BY <1>4 DEF Stop, library, config, lookAhead
  <2>3. QED
    BY <1>0, <2>1, <2>2 DEF Phase, Passes, LastPass, Past, NothingHeld, NoCallback
<1>5. ASSUME ReleaseConfig PROVE Phase'
  <2>1. main.pc = "release" /\ main.pass = 1 /\ main'.pc \in {"reset", "destroy"} /\ main'.pass = main.pass
    BY <1>00, <1>5 DEF ReleaseConfig, MainSteps, Phase
  <2>2. UNCHANGED <<media, encoders, alive, queue, put, m_fifo, back, configHandle, sem, tasks, worker, forgotten>>
    BY <1>5 DEF ReleaseConfig, library, config, lookAhead, history
  <2>3. QED
    BY <1>0, <2>1, <2>2 DEF Phase, Passes, LastPass, Past, NothingHeld, NoCallback
<1>6. ASSUME ResetConfig PROVE Phase'
  <2>1. main.pc = "reset" /\ main.pass = 1 /\ main'.pc = "destroy" /\ main'.pass = 1
    BY <1>00, <1>6 DEF ResetConfig, MainSteps, Phase
  <2>2. /\ UNCHANGED <<media, encoders, alive, queue, put, m_fifo, back, tasks, worker, forgotten>>
        /\ configHandle' = None /\ sem' = 0
    BY <1>6 DEF ResetConfig, library, lookAhead, history
  <2>3. QED
    BY <1>0, <2>1, <2>2 DEF Phase, Passes, LastPass, Past, NothingHeld, NoCallback
<1>7. ASSUME NEW k \in 1..2, ReleaseSource(k) PROVE Phase'
  <2>1. queue[k] # <<>> /\ main.pc = "destroy" /\ \A j \in 1..2 : j # k => queue'[j] = queue[j]
    <3>1. PICK i \in DOMAIN queue[k] : queue' = [queue EXCEPT ![k] = RemoveAt(@, i)]
      BY <1>7 DEF ReleaseSource
    <3>2. QED
      BY <1>00, <1>7, <3>1 DEF ReleaseSource, Dying
  <2>2. UNCHANGED <<media, encoders, alive, put, m_fifo, back, configHandle, sem, tasks, worker, forgotten, main>>
    BY <1>7 DEF ReleaseSource, config, lookAhead, history
  <2>3. /\ 1 \notin alive => k # 1
        /\ media.la = 0 => k # 2
        /\ LastPass \in alive
    BY <1>0, <2>1 DEF Phase, NothingHeld
  <2>4. QED
    BY <1>0, <2>1, <2>2, <2>3 DEF Phase, Passes, LastPass, Past
<1>8. ASSUME ReleaseStream PROVE Phase'
  <2>1. LastPass \in alive
    BY <1>8 DEF ReleaseStream, Phase, NothingHeld
  <2>2. UNCHANGED <<media, encoders, alive, queue, m_fifo, back, configHandle, sem, tasks, worker, forgotten, main>>
    BY <1>8 DEF ReleaseStream, config, lookAhead, history
  <2>3. QED
    BY <1>0, <2>1, <2>2 DEF Phase, Passes, LastPass, Past
<1>9. ASSUME NEW k \in 1..2, DestroyPass(k) PROVE Phase'
  <2>1. /\ main.pc = "destroy" /\ k = main.pass /\ k <= Passes
        /\ main' = [main EXCEPT !.pass = k + 1]
        /\ k = LastPass => back.pc = "out" /\ put = <<>>
        /\ alive' = alive \ {k}
        /\ queue' = [queue EXCEPT ![k] = <<>>]
        /\ UNCHANGED <<media, encoders, put, configHandle, sem, back, tasks, worker>>
        /\ IF k < LastPass THEN m_fifo' = <<>> ELSE UNCHANGED <<m_fifo, forgotten>>
    BY <1>9 DEF DestroyPass, Dying, config
  <2>2. main'.pc = "destroy" /\ main'.pass = k + 1
    BY <1>00, <2>1 DEF MainSteps
  <2>3. configHandle = None /\ sem = 0
    BY <2>1 DEF Config
  <2>4. queue'[k] = <<>> /\ \A j \in 1..2 : j # k => queue'[j] = queue[j]
    BY <1>00, <2>1
  <2>5. CASE k = LastPass
    <3>1. \A j \in 1..2 : j < k => j \notin alive
      BY <2>1 DEF Phase
    <3>2. alive' = {}
      BY <1>0, <2>1, <2>5, <3>1 DEF Phase
    <3>3. \A j \in 1..2 : queue'[j] = <<>>
      BY <1>0, <2>4, <2>5, <3>1 DEF Phase
    <3>4. queue' = [j \in 1..2 |-> <<>>]
      BY <1>00, <2>1, <3>3
    <3>5. m_fifo = <<>>
      BY <1>0, <2>5, <3>1, <1>9, <2>1 DEF Phase
    <3>6. NothingHeld'
      BY <1>0, <2>1, <2>3, <2>5, <3>4, <3>5 DEF NothingHeld, Hands, NoCallback
    <3>7. Past' /\ Passes' = Passes /\ LastPass' = LastPass
      BY <1>0, <2>1, <2>2, <2>5 DEF Past, Passes, LastPass
    <3>8. m_fifo' = <<>> /\ UNCHANGED forgotten
      BY <1>0, <2>1, <2>5, <3>5
    <3>9. encoders' = Passes' /\ Passes' \in 1..2
      BY <1>0, <2>1, <3>7 DEF Phase
    <3>10. UNCHANGED <<media, tasks, worker>>
      BY <2>1
    <3>11. QED
      BY <1>0, <2>2, <3>2, <3>3, <3>6, <3>7, <3>8, <3>9, <3>10 DEF Phase
  <2>6. CASE k # LastPass
    <3>1. k = 1 /\ Passes = 2
      BY <1>0, <2>1, <2>6
    <3>2. ~Past' /\ Passes' = Passes /\ LastPass' = LastPass
      BY <1>0, <2>1, <2>2, <3>1 DEF Past, Passes, LastPass
    <3>3. m_fifo' = <<>>
      BY <1>0, <2>1, <3>1
    <3>4. LastPass \in alive \/ (NothingHeld /\ worker.pc = "idle" /\ tasks = <<>>)
      BY <1>0, <2>1, <3>1 DEF Phase, Past
    <3>5. NothingHeld => NothingHeld'
      <4>1. NothingHeld => queue' = queue
        BY <1>00, <2>1 DEF NothingHeld
      <4>2. QED
        BY <2>1, <3>3, <4>1 DEF NothingHeld, NoCallback
    <3>6. QED
      BY <1>0, <2>1, <2>2, <2>4, <3>1, <3>2, <3>3, <3>4, <3>5 DEF Phase
  <2>7. QED
    BY <2>5, <2>6
<1>10. ASSUME Clear PROVE Phase'
  <2>1. Past /\ alive = {} /\ NothingHeld
    <3>1. Past /\ alive = {}
      BY <1>10 DEF Clear, Past, Phase
    <3>2. QED
      BY <1>0, <3>1 DEF Phase
  <2>2. UNCHANGED <<media, alive, queue, put, m_fifo, back, configHandle, sem, worker, forgotten>>
    BY <1>10 DEF Clear, library, config, history
  <2>3. NothingHeld' /\ Passes' = Passes /\ LastPass' = LastPass
    BY <2>1, <2>2 DEF NothingHeld, NoCallback, Passes, LastPass
  <2>4. CASE worker.pc = "idle"
    <3>1. encoders' = 0 /\ tasks' = <<>> /\ main'.pc \in {"create", "out"}
      BY <1>00, <1>10, <2>4 DEF Clear, MainSteps
    <3>2. QED
      BY <1>0, <2>1, <2>2, <2>3, <2>4, <3>1 DEF Phase, Past
  <2>5. CASE worker.pc # "idle"
    <3>1. main'.pc = "joining" /\ main'.pass = main.pass /\ UNCHANGED <<encoders, tasks>>
      BY <1>00, <1>10, <2>5 DEF Clear, MainSteps
    <3>2. main'.pass > Passes /\ Past'
      BY <2>1, <2>3, <3>1 DEF Past
    <3>3. QED
      BY <1>0, <2>1, <2>2, <2>3, <3>1, <3>2 DEF Phase, Past, NothingHeld
  <2>6. QED
    BY <2>4, <2>5
<1>11. QED
  BY <1>2, <1>3, <1>4, <1>5, <1>6, <1>7, <1>8, <1>9, <1>10 DEF Main, StopSteps


-----------------------------------------------------------------------------
(* Whom the callback and the worker hold, and the configuration             *)

LEMMA WorkersHands ==
  ASSUME Assumptions, TypeOK, Hands, Config, Workers
  PROVE  Hands' /\ Config'
<1>1. main.pc = "out" /\ UNCHANGED <<back, worker, main>>
  BY DEF Workers, Empty, EmptyEos, Fill, SetTable, Working, Open, lookAhead
<1>2. \/ UNCHANGED <<configHandle, sem>>
      \/ configHandle = None /\ sem' = sem + 1 /\ configHandle' \in Streams
  BY DEF Workers, Empty, EmptyEos, Fill, SetTable, config
<1>3. Hands'
  BY <1>1 DEF Hands, Past, NoCallback
<1>4. Config'
  BY <1>1, <1>2 DEF Config, Past, Assumptions, HandlesAssumption
<1>5. QED
  BY <1>3, <1>4

LEMMA EndEncodingHands ==
  ASSUME Assumptions, TypeOK, Phase, Hands, Config, Owned, EndEncoding
  PROVE  Hands' /\ Config'
<1> USE DEF Assumptions
<1>1. UNCHANGED <<media, worker, main>> /\ (Past' <=> Past)
  BY DEF EndEncoding, Finish, FinishEos, LockConfig, TakeConfig, GiveConfig, GiveData, Past, lookAhead, Passes
<1>2. back \in CallbackSteps /\ configHandle \in Streams \cup {None} /\ None \notin Streams /\ None \notin Sources
  BY DEF TypeOK, HandlesAssumption
<1>3. ASSUME NEW hasConfig \in BOOLEAN, NEW end \in BOOLEAN, Finish(hasConfig, end) PROVE Hands' /\ Config'
  <2>1. Head(queue[LastPass]) \in Sources /\ Head(put) \in Streams
    BY <1>3, QueueFacts, PassesFacts, TailFacts DEF Finish, TypeOK
  <2>2. back' = [pc |-> IF hasConfig /\ media.separate THEN "lock" ELSE "data",
                 source |-> Head(queue[LastPass]), stream |-> Head(put), config |-> None, end |-> end]
    BY <1>3 DEF Finish
  <2>3. UNCHANGED <<configHandle, sem>>
    BY <1>3 DEF Finish, config
  <2>4. QED
    BY <1>1, <2>1, <2>2, <2>3 DEF Hands, Config
<1>4. ASSUME FinishEos PROVE Hands' /\ Config'
  <2>1. UNCHANGED <<back, configHandle, sem>>
    BY <1>4 DEF FinishEos, config
  <2>2. QED
    BY <1>1, <2>1 DEF Hands, Config, NoCallback
<1>5. ASSUME LockConfig PROVE Hands' /\ Config'
  <2>1. /\ back.pc = "lock" /\ back' = [back EXCEPT !.pc = "wait"]
        /\ UNCHANGED <<configHandle, sem>>
    BY <1>5 DEF LockConfig
  <2>2. QED
    BY <1>1, <1>2, <2>1 DEF Hands, Config, CallbackSteps
<1>6. ASSUME TakeConfig PROVE Hands' /\ Config'
  <2>1. /\ back.pc = "wait" /\ sem > 0 /\ sem' = sem - 1 /\ configHandle' = None
        /\ back' = [back EXCEPT !.pc = IF configHandle \in handles THEN "config" ELSE "null", !.config = configHandle]
    BY <1>6 DEF TakeConfig
  <2>2. configHandle # None /\ sem' = 0
    BY <2>1 DEF Config
  <2>3. configHandle \notin handles => main.pc = "reset" /\ ~Past
    <3>1. configHandle \in Inside
      BY <2>2 DEF Inside, InConfig
    <3>2. CASE worker.pc # "late"
      BY <2>1, <3>1, <3>2 DEF Owned, Kept, Past
    <3>3. CASE worker.pc = "late"
      BY <2>2, <3>3 DEF Hands, Config, Past
    <3>4. QED
      BY <3>2, <3>3
  <2>4. QED
    BY <1>1, <1>2, <2>1, <2>2, <2>3 DEF Hands, Config, CallbackSteps
<1>7. ASSUME GiveConfig PROVE Hands' /\ Config'
  <2>1. /\ back.pc = "config" /\ back' = [back EXCEPT !.pc = "data", !.config = None]
        /\ UNCHANGED <<configHandle, sem>>
    BY <1>7 DEF GiveConfig, config
  <2>2. QED
    BY <1>1, <1>2, <2>1 DEF Hands, Config, CallbackSteps
<1>8. ASSUME GiveData PROVE Hands' /\ Config'
  <2>1. back' = NoCallback /\ UNCHANGED <<configHandle, sem>>
    BY <1>8 DEF GiveData, config
  <2>2. QED
    BY <1>1, <2>1 DEF Hands, Config, NoCallback
<1>9. QED
  BY <1>3, <1>4, <1>5, <1>6, <1>7, <1>8 DEF EndEncoding

LEMMA LookAheadHands ==
  ASSUME Assumptions, TypeOK, Phase, Hands, Config, LookAheadWorker
  PROVE  Hands' /\ Config'
<1> USE DEF Assumptions
<1>0. Passes \in 1..2 /\ LastPass = Passes /\ (media.la = 0 => Passes = 1) /\ (media.la > 0 => Passes = 2)
      /\ media.la \in Nat
  BY PassesFacts
<1>1. UNCHANGED <<media, back, configHandle, sem, main>> /\ (Past' <=> Past)
  BY DEF LookAheadWorker, EndEncodingLookAhead, WorkerTake, WorkerProcess, config, Past, Passes
<1>2. Config'
  BY <1>1 DEF Config
<1>3. None \notin Sources /\ Eos \notin Sources /\ None # Eos
  BY DEF HandlesAssumption
<1>4. ASSUME EndEncodingLookAhead PROVE Hands'
  <2>1. UNCHANGED worker
    BY <1>4 DEF EndEncodingLookAhead
  <2>2. QED
    BY <1>1, <2>1 DEF Hands, NoCallback
<1>5. ASSUME WorkerTake PROVE Hands'
  <2>0. media.la \in Nat \ {0}
    BY <1>0, <1>5 DEF WorkerTake, Phase
  <2>1. PICK isEOS \in BOOLEAN : EmptyFifoFrom(isEOS)
    <3>1. tasks # <<>> => Head(tasks) \in BOOLEAN
      BY DEF TypeOK
    <3>2. CASE worker.pc = "idle"
      BY <1>5, <3>1, <3>2 DEF WorkerTake
    <3>3. CASE worker.pc # "idle"
      BY <1>5, <3>3 DEF WorkerTake
    <3>4. QED
      BY <3>2, <3>3
  <2>2. /\ worker'.hand # None <=> worker'.pc \in {"process", "processAgain"}
        /\ worker'.pc # "late"
        /\ worker'.hand = Eos => worker'.pc = "process"
    BY <1>3, <2>0, <2>1, EmptyFifoFacts
  <2>3. QED
    BY <1>1, <2>2 DEF Hands, NoCallback
<1>6. ASSUME WorkerProcess PROVE Hands'
  <2>1. /\ worker'.hand = None /\ worker'.pc \in {"late", "eos", "idle"}
        /\ worker'.pc = "late" => 2 \notin alive
        /\ worker.pc \in {"process", "processAgain"}
    BY <1>6 DEF WorkerProcess
  <2>2. worker'.pc = "late" => Past
    BY <1>0, <2>1 DEF Phase
  <2>3. QED
    BY <1>1, <1>3, <2>1, <2>2 DEF Hands, NoCallback
<1>7. QED
  BY <1>2, <1>4, <1>5, <1>6 DEF LookAheadWorker

LEMMA MainHands ==
  ASSUME Assumptions, TypeOK, Phase, Hands, Config, Main
  PROVE  Hands' /\ Config'
<1> USE DEF Assumptions
<1>0. Passes \in 1..2 /\ LastPass = Passes /\ main \in MainSteps
  BY PassesFacts DEF TypeOK
<1>1. UNCHANGED <<media, back, worker>> /\ Passes' = Passes
  BY DEF Main, Start, StartAgain, CreateEncoder, Stop, StopSteps, ReleaseConfig, ResetConfig, ReleaseSource,
         ReleaseStream, DestroyPass, Clear, lookAhead, Passes
<1>2. Past /\ worker.pc = "late" => Past'
  <2>1. ASSUME Past PROVE ~Stop(TRUE) /\ ~Stop(FALSE) /\ ~ReleaseConfig /\ ~ResetConfig
                          /\ (\A created \in 0..Passes : ~Start(created) /\ ~StartAgain(created))
                          /\ (\A k \in 1..2 : ~ReleaseSource(k) /\ ~DestroyPass(k)) /\ ~ReleaseStream
    BY <1>0, <2>1 DEF Past, Stop, ReleaseConfig, ResetConfig, Start, StartAgain, ReleaseSource, DestroyPass,
                      ReleaseStream, Dying
  <2>2. ASSUME Clear, worker.pc = "late" PROVE Past'
    <3>1. main.pass > Passes /\ main' = [main EXCEPT !.pc = "joining"]
      BY <2>2 DEF Clear
    <3>2. main'.pc = "joining" /\ main'.pass = main.pass
      BY <1>0, <3>1 DEF MainSteps
    <3>3. QED
      BY <1>1, <3>1, <3>2 DEF Past
  <2>3. QED
    BY <2>1, <2>2 DEF Main, StopSteps
<1>3. Hands'
  BY <1>1, <1>2 DEF Hands, NoCallback
<1>4. ASSUME NEW created \in 0..Passes, Start(created) \/ StartAgain(created) PROVE Config'
  <2>1. /\ UNCHANGED <<configHandle, sem>> /\ main'.pc = "out"
        /\ LastPass \notin alive
    BY <1>0, <1>4 DEF Start, StartAgain, CreateEncoder, config, MainSteps, Phase
  <2>2. back.pc = "out"
    BY <2>1 DEF Phase, NothingHeld, NoCallback
  <2>3. QED
    BY <1>1, <2>1, <2>2 DEF Config
<1>5. ASSUME NEW again \in BOOLEAN, Stop(again) PROVE Config'
  <2>1. UNCHANGED <<configHandle, sem>> /\ main.pc = "out" /\ main'.pc \in {"out", "release"}
    BY <1>5 DEF Stop, config
  <2>2. QED
    BY <1>1, <2>1 DEF Config
<1>6. ASSUME ReleaseConfig PROVE Config'
  <2>1. UNCHANGED <<configHandle, sem>> /\ main.pc = "release"
        /\ main'.pc = IF configHandle = None THEN "destroy" ELSE "reset"
    BY <1>0, <1>6 DEF ReleaseConfig, config, MainSteps
  <2>2. QED
    BY <1>1, <2>1 DEF Config
<1>7. ASSUME ResetConfig PROVE Config'
  <2>1. configHandle' = None /\ sem' = 0 /\ main.pc = "reset" /\ main'.pc = "destroy"
        /\ main'.pass = 1
    BY <1>0, <1>7 DEF ResetConfig, MainSteps, Phase
  <2>2. QED
    BY <1>0, <1>1, <2>1 DEF Config, Past
<1>8. ASSUME UNCHANGED <<configHandle, sem, main>> PROVE Config'
  BY <1>1, <1>8 DEF Config, Past
<1>9. ASSUME NEW k \in 1..2, DestroyPass(k) PROVE Config'
  <2>1. /\ main.pc = "destroy" /\ k = main.pass /\ k <= Passes
        /\ main' = [main EXCEPT !.pass = k + 1]
        /\ k = LastPass => back.pc = "out"
        /\ UNCHANGED <<configHandle, sem>>
    BY <1>9 DEF DestroyPass, Dying, config
  <2>2. main'.pc = "destroy" /\ main'.pass = k + 1
    BY <1>0, <2>1 DEF MainSteps
  <2>3. QED
    BY <1>0, <1>1, <2>1, <2>2 DEF Config, Past
<1>10. ASSUME Clear PROVE Config'
  <2>1. UNCHANGED <<configHandle, sem>> /\ Past /\ main'.pc \in {"joining", "create", "out"}
    BY <1>0, <1>10 DEF Clear, config, MainSteps, Past
  <2>2. QED
    BY <1>1, <2>1 DEF Config, Past
<1>11. ASSUME (\E k \in 1..2 : ReleaseSource(k)) \/ ReleaseStream PROVE UNCHANGED <<configHandle, sem, main>>
  BY <1>11 DEF ReleaseSource, ReleaseStream, config
<1>12. Config'
  BY <1>4, <1>5, <1>6, <1>7, <1>8, <1>9, <1>10, <1>11 DEF Main, StopSteps
<1>13. QED
  BY <1>3, <1>12


-----------------------------------------------------------------------------
(* The tables                                                               *)

LEMMA MediaKept == ASSUME [Next]_vars PROVE media' = media
BY DEF Next, vars, Workers, Empty, EmptyEos, Fill, SetTable, EndEncoding, Finish, FinishEos, LockConfig, TakeConfig,
       GiveConfig, GiveData, LookAheadWorker, EndEncodingLookAhead, WorkerTake, WorkerProcess, Main, Start,
       StartAgain, CreateEncoder, Stop, StopSteps, ReleaseConfig, ResetConfig, ReleaseSource, ReleaseStream,
       DestroyPass, Clear

\* releasing a table of which the module holds a reference
LEMMA UnrefHeld ==
  ASSUME NEW r \in [Tables -> -1..1], NEW t \in Tables \cup {None}, TablesAssumption, t # None => r[t] = 1
  PROVE  \A u \in Tables : Unref(r, t)[u] = IF u = t THEN 0 ELSE r[u]
<1>1. CASE t = None
  BY <1>1 DEF Unref, TablesAssumption
<1>2. CASE t # None
  <2>1. t \in Tables /\ (IF r[t] > 0 THEN r[t] - 1 ELSE -1) = 0
    BY <1>2
  <2>2. Unref(r, t) = [r EXCEPT ![t] = IF r[t] > 0 THEN r[t] - 1 ELSE -1]
    BY <1>2 DEF Unref
  <2>3. QED
    BY <2>1, <2>2
<1>3. QED
  BY <1>1, <1>2

LEMMA TablesStep ==
  ASSUME Assumptions, TypeOK, Phase, Hands, TablesHeld, [Next]_vars
  PROVE  TablesHeld'
<1> USE DEF Assumptions
<1>1. SUFFICES ASSUME media.la = 0 PROVE TablesHeld'
  BY MediaKept DEF TablesHeld
<1>2. /\ \A t \in Tables : refs[t] = IF t \in {nextQPBuffer, tables[1]} THEN 1 ELSE 0
      /\ nextQPBuffer = tables[1] => nextQPBuffer = None
      /\ \A t \in Tables : IF t \in {nextQPBuffer, tables[1]} THEN uses[t] = 0 ELSE uses[t] <= 1
      /\ encoders = 0 \/ Past => tables[1] = None
  BY <1>1 DEF TablesHeld
<1>3. /\ refs \in [Tables -> -1..1] /\ uses \in [Tables -> 0..2] /\ None \notin Tables
      /\ tables \in [1..2 -> Tables \cup {None}] /\ nextQPBuffer \in Tables \cup {None} /\ main \in MainSteps
      /\ tables[1] \in Tables \cup {None}
  BY DEF TypeOK, TablesAssumption
<1>4. /\ \A t \in Tables : Unref(refs, nextQPBuffer)[t] = IF t = nextQPBuffer THEN 0 ELSE refs[t]
      /\ \A t \in Tables : Unref(refs, tables[1])[t] = IF t = tables[1] THEN 0 ELSE refs[t]
      /\ Unref(refs, nextQPBuffer) \in [Tables -> -1..1] /\ Unref(refs, tables[1]) \in [Tables -> -1..1]
  <2>1. /\ nextQPBuffer # None => refs[nextQPBuffer] = 1
        /\ tables[1] # None => refs[tables[1]] = 1
    BY <1>2, <1>3
  <2>2. QED
    BY <1>3, <2>1, UnrefHeld, UnrefType
<1>5. Passes \in 1..2 /\ LastPass = Passes /\ Passes = 1
  BY <1>1, PassesFacts
<1>6. Passes' = Passes /\ LastPass' = LastPass /\ media' = media
  BY MediaKept DEF Passes, LastPass
<1>7. ASSUME UNCHANGED qp, encoders' = 0 \/ Past' => encoders = 0 \/ Past PROVE TablesHeld'
  BY <1>2, <1>7 DEF TablesHeld, qp
<1>8. ASSUME NEW h \in Sources, Empty(h) PROVE TablesHeld'
  <2>1. EmptyTable /\ UNCHANGED <<encoders, main>>
    BY <1>8 DEF Empty
  <2>2. CASE tables[1] = None
    BY <1>6, <1>7, <2>1, <2>2 DEF EmptyTable, Past
  <2>3. CASE tables[1] # None
    <3>1. /\ uses' = [uses EXCEPT ![tables[1]] = IF @ < 2 THEN @ + 1 ELSE 2]
          /\ refs' = Unref(refs, tables[1]) /\ tables' = [tables EXCEPT ![1] = None] /\ UNCHANGED nextQPBuffer
      BY <1>5, <2>1, <2>3 DEF EmptyTable
    <3>2. uses[tables[1]] = 0 /\ tables[1] \in Tables
      BY <1>2, <1>3, <2>3
    <3>3. uses' = [uses EXCEPT ![tables[1]] = 1] /\ tables'[1] = None
      BY <1>3, <3>1, <3>2
    <3>4. \A t \in Tables : refs'[t] = IF t \in {nextQPBuffer', tables'[1]} THEN 1 ELSE 0
      BY <1>2, <1>3, <1>4, <3>1, <3>2, <3>3
    <3>5. \A t \in Tables : IF t \in {nextQPBuffer', tables'[1]} THEN uses'[t] = 0 ELSE uses'[t] <= 1
      <4>1. SUFFICES ASSUME NEW t \in Tables
                     PROVE  IF t \in {nextQPBuffer', tables'[1]} THEN uses'[t] = 0 ELSE uses'[t] <= 1
        OBVIOUS
      <4>2. CASE t = tables[1]
        <5>1. uses'[t] = 1
          BY <1>3, <3>2, <3>3, <4>2
        <5>2. t # nextQPBuffer' /\ t # tables'[1]
          BY <1>2, <1>3, <2>3, <3>1, <3>2, <3>3, <4>2
        <5>3. QED
          BY <5>1, <5>2
      <4>3. CASE t # tables[1]
        <5>1. uses'[t] = uses[t] /\ t # None
          BY <1>3, <3>2, <3>3, <4>3
        <5>2. QED
          BY <1>2, <3>1, <3>3, <4>3, <5>1
      <4>4. QED
        BY <4>2, <4>3
    <3>6. QED
      BY <3>1, <3>3, <3>4, <3>5 DEF TablesHeld
  <2>4. QED
    BY <2>2, <2>3
<1>9. ASSUME NEW t \in Tables, SetTable(t) PROVE TablesHeld'
  <2>1. main.pc = "out" /\ refs[t] = 0 /\ uses[t] = 0 /\ UNCHANGED <<main, encoders, uses>>
    BY <1>9 DEF SetTable, Open
  <2>2. ~Past /\ ~Past' /\ t # nextQPBuffer /\ t # tables[1]
    BY <1>2, <2>1 DEF Past
  <2>3. CASE encoders = 0
    <3>1. /\ refs' = [Unref(refs, nextQPBuffer) EXCEPT ![t] = 1] /\ nextQPBuffer' = t /\ UNCHANGED tables
      BY <1>9, <2>3 DEF SetTable
    <3>2. tables[1] = None
      BY <1>2, <2>3
    <3>3. \A u \in Tables : refs'[u] = IF u \in {nextQPBuffer', tables'[1]} THEN 1 ELSE 0
      <4>1. \A u \in Tables : refs'[u] = IF u = t THEN 1 ELSE Unref(refs, nextQPBuffer)[u]
        BY <1>4, <3>1
      <4>2. QED
        BY <1>2, <1>3, <1>4, <2>2, <3>1, <3>2, <4>1
    <3>4. \A u \in Tables : IF u \in {nextQPBuffer', tables'[1]} THEN uses'[u] = 0 ELSE uses'[u] <= 1
      <4>1. SUFFICES ASSUME NEW u \in Tables
                     PROVE  IF u \in {t, tables[1]} THEN uses[u] = 0 ELSE uses[u] <= 1
        BY <2>1, <3>1
      <4>2. IF u \in {nextQPBuffer, tables[1]} THEN uses[u] = 0 ELSE uses[u] <= 1
        BY <1>2
      <4>3. QED
        BY <2>1, <4>2
    <3>5. QED
      BY <1>3, <2>1, <2>2, <3>1, <3>2, <3>3, <3>4 DEF TablesHeld
  <2>4. CASE encoders # 0
    <3>1. /\ refs' = [Unref(refs, tables[1]) EXCEPT ![t] = 1] /\ tables' = [tables EXCEPT ![1] = t]
          /\ UNCHANGED nextQPBuffer
      BY <1>9, <2>4 DEF SetTable
    <3>2. tables'[1] = t
      BY <1>3, <3>1
    <3>3. \A u \in Tables : refs'[u] = IF u \in {nextQPBuffer', tables'[1]} THEN 1 ELSE 0
      <4>1. \A u \in Tables : refs'[u] = IF u = t THEN 1 ELSE Unref(refs, tables[1])[u]
        BY <1>4, <3>1
      <4>2. QED
        BY <1>2, <1>3, <1>4, <2>2, <3>1, <3>2, <4>1
    <3>4. \A u \in Tables : IF u \in {nextQPBuffer', tables'[1]} THEN uses'[u] = 0 ELSE uses'[u] <= 1
      <4>1. SUFFICES ASSUME NEW u \in Tables
                     PROVE  IF u \in {nextQPBuffer, t} THEN uses[u] = 0 ELSE uses[u] <= 1
        BY <2>1, <3>1, <3>2
      <4>2. IF u \in {nextQPBuffer, tables[1]} THEN uses[u] = 0 ELSE uses[u] <= 1
        BY <1>2
      <4>3. QED
        BY <2>1, <4>2
    <3>5. QED
      BY <1>3, <2>1, <2>2, <2>4, <3>1, <3>2, <3>3, <3>4 DEF TablesHeld
  <2>5. QED
    BY <2>3, <2>4
<1>10. ASSUME (\E h \in Streams : Fill(h)) \/ EmptyEos \/ EndEncoding PROVE TablesHeld'
  <2>1. UNCHANGED <<qp, encoders, main>>
    BY <1>10 DEF Fill, EmptyEos, EndEncoding, Finish, FinishEos, LockConfig, TakeConfig, GiveConfig, GiveData
  <2>2. QED
    BY <1>6, <1>7, <2>1 DEF Past
<1>11. ASSUME LookAheadWorker PROVE TablesHeld'
  <2>1. worker.pc = "idle" /\ tasks = <<>> /\ ~(media.la > 0)
    BY <1>1 DEF Phase
  <2>2. QED
    BY <1>11, <2>1 DEF LookAheadWorker, EndEncodingLookAhead, WorkerTake, WorkerProcess
<1>12. ASSUME NEW created \in 0..Passes, Start(created) \/ StartAgain(created) PROVE TablesHeld'
  <2>1. CreateEncoder(created) /\ encoders = 0 /\ main'.pc = "out"
    BY <1>3, <1>12 DEF Start, StartAgain, Phase, MainSteps
  <2>2. tables[1] = None /\ encoders' = Passes /\ UNCHANGED <<refs, uses>>
    BY <1>2, <2>1 DEF CreateEncoder
  <2>3. ~Past'
    BY <2>1 DEF Past
  <2>4. CASE created = Passes
    <3>1. tables' = [tables EXCEPT ![1] = nextQPBuffer] /\ nextQPBuffer' = None
      BY <2>1, <2>4 DEF CreateEncoder
    <3>2. tables'[1] = nextQPBuffer
      BY <1>3, <3>1
    <3>3. \A t \in Tables : t \in {nextQPBuffer', tables'[1]} <=> t \in {nextQPBuffer, tables[1]}
      BY <1>3, <2>2, <3>1, <3>2
    <3>4. QED
      BY <1>2, <1>5, <2>2, <2>3, <3>1, <3>2, <3>3 DEF TablesHeld
  <2>5. CASE created # Passes
    <3>1. UNCHANGED <<tables, nextQPBuffer>>
      BY <2>1, <2>5 DEF CreateEncoder
    <3>2. QED
      BY <1>2, <2>2, <2>3, <3>1 DEF TablesHeld
  <2>6. QED
    BY <2>4, <2>5
<1>13. ASSUME NEW again \in BOOLEAN, Stop(again) PROVE TablesHeld'
  <2>1. /\ refs' = Unref(refs, nextQPBuffer) /\ nextQPBuffer' = None /\ UNCHANGED <<tables, uses, encoders>>
        /\ main'.pc \in {"out", "release"}
    BY <1>13 DEF Stop
  <2>2. ~Past'
    BY <2>1 DEF Past
  <2>3. \A t \in Tables : refs'[t] = IF t \in {nextQPBuffer', tables'[1]} THEN 1 ELSE 0
    BY <1>2, <1>3, <1>4, <2>1
  <2>4. \A t \in Tables : IF t \in {nextQPBuffer', tables'[1]} THEN uses'[t] = 0 ELSE uses'[t] <= 1
    <3>1. SUFFICES ASSUME NEW t \in Tables
                   PROVE  IF t \in {None, tables[1]} THEN uses[t] = 0 ELSE uses[t] <= 1
      BY <2>1
    <3>2. uses[t] \in 0..2 /\ t # None
      BY <1>3
    <3>3. QED
      BY <1>2, <3>2
  <2>5. QED
    BY <1>2, <2>1, <2>2, <2>3, <2>4 DEF TablesHeld
<1>14. ASSUME ReleaseConfig \/ ResetConfig \/ ReleaseStream \/ \E k \in 1..2 : ReleaseSource(k) PROVE TablesHeld'
  <2>1. UNCHANGED <<qp, encoders>>
    BY <1>14 DEF ReleaseConfig, ResetConfig, ReleaseStream, ReleaseSource
  <2>2. Past' => Past
    <3>1. ReleaseStream \/ (\E k \in 1..2 : ReleaseSource(k)) => UNCHANGED main
      BY DEF ReleaseStream, ReleaseSource
    <3>2. ReleaseConfig \/ ResetConfig => main.pass = 1 /\ main'.pass = main.pass
      BY <1>3 DEF ReleaseConfig, ResetConfig, MainSteps, Phase
    <3>3. QED
      BY <1>5, <1>6, <1>14, <3>1, <3>2 DEF Past
  <2>3. QED
    BY <1>7, <2>1, <2>2
<1>15. ASSUME NEW k \in 1..2, DestroyPass(k) PROVE TablesHeld'
  <2>1. k = 1
    BY <1>5, <1>15 DEF DestroyPass, Dying
  <2>2. /\ refs' = Unref(refs, tables[1]) /\ tables' = [tables EXCEPT ![1] = None]
        /\ UNCHANGED <<nextQPBuffer, uses>>
    BY <1>15, <2>1 DEF DestroyPass
  <2>3. tables'[1] = None
    BY <1>3, <2>2
  <2>4. \A t \in Tables : refs'[t] = IF t \in {nextQPBuffer', tables'[1]} THEN 1 ELSE 0
    BY <1>2, <1>3, <1>4, <2>2, <2>3
  <2>5. \A t \in Tables : IF t \in {nextQPBuffer', tables'[1]} THEN uses'[t] = 0 ELSE uses'[t] <= 1
    <3>1. SUFFICES ASSUME NEW t \in Tables
                   PROVE  IF t \in {nextQPBuffer, None} THEN uses[t] = 0 ELSE uses[t] <= 1
      BY <2>2, <2>3
    <3>2. uses[t] \in 0..2 /\ t # None
      BY <1>3
    <3>3. QED
      BY <1>2, <3>2
  <2>6. QED
    BY <2>2, <2>3, <2>4, <2>5 DEF TablesHeld
<1>16. ASSUME Clear PROVE TablesHeld'
  <2>1. UNCHANGED qp /\ Past
    BY <1>16 DEF Clear, Past
  <2>2. QED
    BY <1>7, <2>1
<1>17. CASE UNCHANGED vars
  <2>1. UNCHANGED <<qp, encoders, main>>
    BY <1>17 DEF vars
  <2>2. QED
    BY <1>6, <1>7, <2>1 DEF Past
<1>18. QED
  BY <1>8, <1>9, <1>10, <1>11, <1>12, <1>13, <1>14, <1>15, <1>16, <1>17 DEF Next, Workers, Main, StopSteps


-----------------------------------------------------------------------------
(* The end of the stream                                                    *)

\* the steps after which nothing of it has moved
LEMMA EosStill ==
  ASSUME EosLast, UNCHANGED <<queue, tasks, worker, m_fifo>>
  PROVE  EosLast'
BY DEF EosLast

\* a queue whose end of stream is the last keeps it so
LEMMA EosTail ==
  ASSUME NEW S, NEW s \in Seq(S), s # <<>>, NEW e, OnlyLast(s, e)
  PROVE  /\ OnlyLast(Tail(s), e)
         /\ e \in ToSet(Tail(s)) => e \in ToSet(s)
         /\ Head(s) = e => s = <<e>> /\ Tail(s) = <<>>
<1>1. /\ Tail(s) \in Seq(S) /\ Len(Tail(s)) = Len(s) - 1 /\ Len(s) \in Nat \ {0}
      /\ \A i \in 1..Len(Tail(s)) : Tail(s)[i] = s[i + 1]
      /\ Head(s) = s[1] /\ DOMAIN s = 1..Len(s) /\ DOMAIN Tail(s) = 1..Len(Tail(s))
  OBVIOUS
<1>2. OnlyLast(Tail(s), e)
  BY <1>1 DEF OnlyLast
<1>3. e \in ToSet(Tail(s)) => e \in ToSet(s)
  BY <1>1 DEF ToSet
<1>4. Head(s) = e => s = <<e>> /\ Tail(s) = <<>>
  <2>1. SUFFICES ASSUME Head(s) = e PROVE s = <<e>> /\ Tail(s) = <<>>
    OBVIOUS
  <2>2. Len(s) = 1
    BY <1>1, <2>1 DEF OnlyLast
  <2>3. Tail(s) = <<>>
    <3>1. Len(Tail(s)) = 0 /\ Tail(s) \in Seq(S)
      BY <1>1, <2>2
    <3>2. QED
      BY <3>1, EmptySeq
  <2>4. s = <<e>>
    BY <1>1, <2>1, <2>2
  <2>5. QED
    BY <2>3, <2>4
<1>5. QED
  BY <1>2, <1>3, <1>4

LEMMA EosAppend ==
  ASSUME NEW S, NEW s \in Seq(S), NEW e, e \notin ToSet(s), NEW x \in S
  PROVE  /\ OnlyLast(Append(s, x), e)
         /\ e \in ToSet(Append(s, x)) => x = e
<1>1. /\ Append(s, x) \in Seq(S) /\ Len(Append(s, x)) = Len(s) + 1 /\ Len(s) \in Nat
      /\ \A i \in 1..Len(s) : Append(s, x)[i] = s[i]
      /\ Append(s, x)[Len(s) + 1] = x
      /\ DOMAIN s = 1..Len(s) /\ DOMAIN Append(s, x) = 1..(Len(s) + 1)
  OBVIOUS
<1>2. \A i \in DOMAIN s : s[i] # e
  BY DEF ToSet
<1>3. \A i \in DOMAIN Append(s, x) : i \in DOMAIN s \/ i = Len(s) + 1
  BY <1>1
<1>4. \A i \in DOMAIN Append(s, x) : Append(s, x)[i] = e => i = Len(s) + 1
  BY <1>1, <1>2, <1>3
<1>5. e \in ToSet(Append(s, x)) => x = e
  BY <1>1, <1>4 DEF ToSet
<1>6. QED
  BY <1>1, <1>4, <1>5 DEF OnlyLast

LEMMA EosRemove ==
  ASSUME NEW S, NEW s \in Seq(S), NEW e, OnlyLast(s, e), NEW n \in DOMAIN s
  PROVE  /\ OnlyLast(RemoveAt(s, n), e)
         /\ e \in ToSet(RemoveAt(s, n)) => e \in ToSet(s)
<1>0. /\ RemoveAt(s, n) \in Seq(S) /\ Len(RemoveAt(s, n)) = Len(s) - 1
      /\ \A i \in 1..(Len(s) - 1) : RemoveAt(s, n)[i] = s[IF i < n THEN i ELSE i + 1]
  BY RemoveAtFacts
<1>1. /\ DOMAIN RemoveAt(s, n) = 1..(Len(s) - 1)
      /\ \A i \in 1..(Len(s) - 1) : RemoveAt(s, n)[i] = IF i < n THEN s[i] ELSE s[i + 1]
      /\ DOMAIN s = 1..Len(s) /\ Len(s) \in Nat /\ n \in 1..Len(s)
  BY <1>0
<1>2. \A i \in 1..(Len(s) - 1) : i \in DOMAIN s /\ i + 1 \in DOMAIN s
  BY <1>1
<1>3. OnlyLast(RemoveAt(s, n), e)
  <2>1. SUFFICES ASSUME NEW i \in 1..(Len(s) - 1), RemoveAt(s, n)[i] = e PROVE i = Len(s) - 1
    BY <1>0, <1>1 DEF OnlyLast
  <2>2. CASE i < n
    <3>1. s[i] = e
      BY <1>1, <2>1, <2>2
    <3>2. i \in DOMAIN s
      BY <1>2
    <3>3. i # Len(s)
      <4>1. i <= Len(s) - 1 /\ i \in Int /\ Len(s) \in Int
        BY <1>1
      <4>2. QED
        BY <4>1
    <3>4. QED
      BY <3>1, <3>2, <3>3 DEF OnlyLast
  <2>3. CASE ~(i < n)
    <3>1. s[i + 1] = e /\ i + 1 \in DOMAIN s
      BY <1>1, <1>2, <2>1, <2>3
    <3>2. i + 1 = Len(s)
      BY <3>1 DEF OnlyLast
    <3>3. Len(s) \in Nat /\ i \in Nat
      BY <2>1, <1>1
    <3>4. QED
      BY <3>2, <3>3
  <2>4. QED
    BY <2>2, <2>3
<1>4. e \in ToSet(RemoveAt(s, n)) => e \in ToSet(s)
  <2>1. \A i \in 1..(Len(s) - 1) : \E j \in DOMAIN s : RemoveAt(s, n)[i] = s[j]
    BY <1>1, <1>2
  <2>2. QED
    BY <1>1, <2>1 DEF ToSet
<1>5. QED
  BY <1>3, <1>4

LEMMA EosTypes ==
  ASSUME Assumptions, TypeOK
  PROVE  /\ queue \in [1..2 -> Seq(Sources \cup {Eos})] /\ tasks \in Seq(BOOLEAN) /\ m_fifo \in Seq(Sources)
         /\ \A k \in 1..2 : queue[k] \in Seq(Sources \cup {Eos})
         /\ worker \in WorkerSteps /\ Eos \notin Sources /\ None \notin Sources /\ None # Eos
         /\ ToSet(<<>>) = {} /\ (\A e : OnlyLast(<<>>, e))
         /\ \A k \in 1..2 : k = 1 \/ k = 2
         /\ queue[1] \in Seq(Sources \cup {Eos}) /\ queue[2] \in Seq(Sources \cup {Eos})
BY DEF TypeOK, Assumptions, HandlesAssumption, ToSet, OnlyLast

LEMMA WorkersEos ==
  ASSUME Assumptions, TypeOK, EosLast, Workers
  PROVE  EosLast'
<1>1. ASSUME NEW x \in Sources \cup {Eos}, queue' = [queue EXCEPT ![1] = Append(@, x)], ~Ended,
             UNCHANGED <<tasks, worker, m_fifo>>
      PROVE  EosLast'
  <2>1. /\ \A k \in 1..2 : Eos \notin ToSet(queue[k])
        /\ TRUE \notin ToSet(tasks)
        /\ worker.pc \notin {"eos", "processAgain"} /\ worker.hand # Eos
    BY <1>1 DEF Ended
  <2>2. queue'[1] = Append(queue[1], x) /\ queue'[2] = queue[2]
    BY <1>1, EosTypes
  <2>3. OnlyLast(queue'[1], Eos)
    BY <2>1, <2>2, EosTypes, EosAppend
  <2>4. /\ OnlyLast(queue'[2], Eos) /\ OnlyLast(tasks', TRUE)
        /\ TRUE \notin ToSet(tasks') /\ Eos \notin ToSet(queue'[2])
        /\ worker'.pc \notin {"eos", "processAgain"} /\ worker'.hand # Eos
    <3>1. OnlyLast(queue[2], Eos) /\ OnlyLast(tasks, TRUE) /\ Eos \notin ToSet(queue[2])
      <4>1. 2 \in 1..2
        OBVIOUS
      <4>2. QED
        BY <2>1, <4>1 DEF EosLast
    <3>2. UNCHANGED <<tasks, worker>>
      BY <1>1
    <3>3. QED
      BY <2>1, <2>2, <3>1, <3>2
  <2>5. QED
    BY <2>3, <2>4 DEF EosLast
<1>2. ASSUME NEW h \in Sources, Empty(h) PROVE EosLast'
  <2>1. /\ queue' = [queue EXCEPT ![1] = Append(@, h)] \/ queue' = queue
        /\ ~Ended /\ UNCHANGED <<tasks, worker, m_fifo>>
    BY <1>2 DEF Empty, lookAhead
  <2>2. QED
    BY <1>1, <2>1, EosStill
<1>3. ASSUME EmptyEos PROVE EosLast'
  BY <1>1, <1>3 DEF EmptyEos, lookAhead
<1>4. ASSUME (\E h \in Streams : Fill(h)) \/ (\E t \in Tables : SetTable(t)) PROVE EosLast'
  BY <1>4, EosStill DEF Fill, SetTable, lookAhead, library
<1>5. QED
  BY <1>2, <1>3, <1>4 DEF Workers

\* what takes of the queues, the tasks and the FIFO only
LEMMA EosLastLess ==
  ASSUME EosLast, UNCHANGED worker,
         \A k \in 1..2 : /\ OnlyLast(queue'[k], Eos)
                         /\ Eos \in ToSet(queue'[k]) => Eos \in ToSet(queue[k])
                         /\ queue[k] = <<>> => queue'[k] = <<>>,
         OnlyLast(tasks', TRUE), TRUE \in ToSet(tasks') => TRUE \in ToSet(tasks),
         tasks = <<>> => tasks' = <<>>, m_fifo = <<>> => m_fifo' = <<>>
  PROVE  EosLast'
<1>1. 1 \in 1..2 /\ 2 \in 1..2
  OBVIOUS
<1>2. /\ OnlyLast(queue'[1], Eos) /\ OnlyLast(queue'[2], Eos)
      /\ Eos \in ToSet(queue'[1]) => Eos \in ToSet(queue[1])
      /\ Eos \in ToSet(queue'[2]) => Eos \in ToSet(queue[2])
      /\ queue[1] = <<>> => queue'[1] = <<>>
  BY <1>1
<1>3. QED
  BY <1>2 DEF EosLast

LEMMA EndEncodingEos ==
  ASSUME Assumptions, TypeOK, EosLast, EndEncoding
  PROVE  EosLast'
<1>0. LastPass \in 1..2
  BY PassesFacts DEF Assumptions
<1>1. /\ UNCHANGED <<tasks, worker, m_fifo>>
      /\ \/ UNCHANGED queue
         \/ queue[LastPass] # <<>> /\ queue' = [queue EXCEPT ![LastPass] = Tail(@)]
  BY DEF EndEncoding, Finish, FinishEos, LockConfig, TakeConfig, GiveConfig, GiveData, library, lookAhead
<1>2. CASE UNCHANGED queue
  BY <1>1, <1>2, EosStill
<1>3. CASE queue[LastPass] # <<>> /\ queue' = [queue EXCEPT ![LastPass] = Tail(@)]
  <2>1. OnlyLast(queue[LastPass], Eos)
    BY <1>0, EosTypes DEF EosLast
  <2>2. /\ queue'[LastPass] = Tail(queue[LastPass])
        /\ \A k \in 1..2 : k # LastPass => queue'[k] = queue[k]
    BY <1>0, <1>3, EosTypes
  <2>3. /\ OnlyLast(queue'[LastPass], Eos)
        /\ Eos \in ToSet(queue'[LastPass]) => Eos \in ToSet(queue[LastPass])
    BY <1>0, <1>3, <2>1, <2>2, EosTypes, EosTail
  <2>4. \A k \in 1..2 : /\ OnlyLast(queue'[k], Eos)
                        /\ Eos \in ToSet(queue'[k]) => Eos \in ToSet(queue[k])
                        /\ queue[k] = <<>> => queue'[k] = <<>>
    BY <1>0, <1>3, <2>2, <2>3, EosTypes DEF EosLast
  <2>5. OnlyLast(tasks', TRUE)
    BY <1>1 DEF EosLast
  <2>6. QED
    BY <1>1, <2>4, <2>5, EosLastLess
<1>4. QED
  BY <1>1, <1>2, <1>3

\* the first of the tasks is for an end of stream only if it is the last
LEMMA TakenTask ==
  ASSUME Assumptions, TypeOK, Phase, EosLast, WorkerTake
  PROVE  /\ media.la \in Nat \ {0}
         /\ UNCHANGED <<queue, alive, encoders, main, back, put, order, forgotten, handles, pool, refused>>
         /\ \E isEOS \in BOOLEAN :
              /\ EmptyFifoFrom(isEOS)
              /\ \/ worker.pc = "eos" /\ isEOS /\ tasks' = tasks /\ overtaken' = overtaken
                 \/ /\ worker.pc = "idle" /\ tasks # <<>> /\ isEOS = Head(tasks) /\ tasks' = Tail(tasks)
                    /\ overtaken' = (overtaken \/ (~isEOS /\ Len(m_fifo) > media.la))
              /\ isEOS => tasks' = <<>> /\ queue[1] = <<>> /\ Eos \notin ToSet(queue[2])
              /\ ~isEOS => Eos \notin ToSet(queue[2])
<1>0. media.la \in Nat \ {0}
  BY PassesFacts DEF Assumptions, WorkerTake, Phase
<1>1. UNCHANGED <<queue, alive, encoders, main, back, put, order, forgotten, handles, pool, refused>>
  BY DEF WorkerTake, library, maps
<1>2. CASE worker.pc = "idle"
  <2>1. /\ tasks # <<>> /\ tasks' = Tail(tasks) /\ EmptyFifoFrom(Head(tasks))
        /\ overtaken' = (overtaken \/ (~Head(tasks) /\ Len(m_fifo) > media.la))
    BY <1>2 DEF WorkerTake
  <2>2. Head(tasks) \in BOOLEAN /\ Head(tasks) = tasks[1] /\ 1 \in DOMAIN tasks
    BY <2>1, EosTypes, TailFacts
  <2>3. Head(tasks) => tasks' = <<>> /\ queue[1] = <<>> /\ Eos \notin ToSet(queue[2])
    <3>1. SUFFICES ASSUME Head(tasks) = TRUE PROVE tasks' = <<>> /\ queue[1] = <<>> /\ Eos \notin ToSet(queue[2])
      BY <2>2
    <3>2. TRUE \in ToSet(tasks)
      BY <2>2, <3>1 DEF ToSet
    <3>3. OnlyLast(tasks, TRUE)
      BY DEF EosLast
    <3>4. Tail(tasks) = <<>>
      BY <2>1, <3>1, <3>3, EosTypes, EosTail
    <3>5. QED
      BY <2>1, <3>2, <3>4 DEF EosLast
  <2>4. ~Head(tasks) => Eos \notin ToSet(queue[2])
    BY <2>1 DEF EosLast
  <2>5. QED
    BY <1>0, <1>1, <1>2, <2>1, <2>2, <2>3, <2>4
<1>3. CASE worker.pc # "idle"
  <2>1. worker.pc = "eos" /\ EmptyFifoFrom(TRUE) /\ tasks' = tasks /\ overtaken' = overtaken
    BY <1>3 DEF WorkerTake
  <2>2. queue[1] = <<>> /\ tasks = <<>> /\ Eos \notin ToSet(queue[2])
    BY <2>1 DEF EosLast
  <2>3. QED
    BY <1>0, <1>1, <2>1, <2>2
<1>4. QED
  BY <1>2, <1>3

LEMMA LookAheadEos ==
  ASSUME Assumptions, TypeOK, Phase, Hands, EosLast, LookAheadWorker
  PROVE  EosLast'
<1>1. ASSUME EndEncodingLookAhead PROVE EosLast'
  <2>1. /\ queue[1] # <<>> /\ queue' = [queue EXCEPT ![1] = Tail(@)]
        /\ m_fifo' = IF Head(queue[1]) = Eos THEN m_fifo ELSE Append(m_fifo, Head(queue[1]))
        /\ tasks' = Append(tasks, Head(queue[1]) = Eos)
        /\ UNCHANGED worker
    BY <1>1 DEF EndEncodingLookAhead
  <2>2. queue'[1] = Tail(queue[1]) /\ queue'[2] = queue[2]
    BY <2>1, EosTypes
  <2>3. /\ TRUE \notin ToSet(tasks) /\ worker.pc \notin {"eos", "processAgain"} /\ worker.hand # Eos
        /\ Eos \notin ToSet(queue[2])
    BY <2>1, EosTypes DEF EosLast
  <2>4. /\ OnlyLast(queue'[1], Eos)
        /\ Head(queue[1]) = Eos => queue'[1] = <<>>
    <3>1. OnlyLast(queue[1], Eos)
      BY DEF EosLast
    <3>2. QED
      BY <2>1, <2>2, <3>1, EosTypes, EosTail
  <2>5. /\ OnlyLast(tasks', TRUE)
        /\ TRUE \in ToSet(tasks') => Head(queue[1]) = Eos
    <3>1. PICK isEOS \in BOOLEAN : isEOS = (Head(queue[1]) = Eos)
      OBVIOUS
    <3>2. OnlyLast(Append(tasks, isEOS), TRUE) /\ (TRUE \in ToSet(Append(tasks, isEOS)) => isEOS = TRUE)
      BY <2>3, <3>1, EosTypes, EosAppend
    <3>3. QED
      BY <2>1, <3>1, <3>2
  <2>6. Eos \notin ToSet(queue'[1]) \/ TRUE \notin ToSet(tasks')
    BY <2>4, <2>5, EosTypes
  <2>7. OnlyLast(queue'[2], Eos) /\ UNCHANGED worker
    BY <2>1, <2>2 DEF EosLast
  <2>8. QED
    BY <2>2, <2>3, <2>4, <2>5, <2>6, <2>7 DEF EosLast
<1>2. ASSUME WorkerTake PROVE EosLast'
  <2>1. PICK isEOS \in BOOLEAN :
              /\ EmptyFifoFrom(isEOS)
              /\ \/ worker.pc = "eos" /\ isEOS /\ tasks' = tasks
                 \/ worker.pc = "idle" /\ tasks # <<>> /\ isEOS = Head(tasks) /\ tasks' = Tail(tasks)
              /\ isEOS => tasks' = <<>> /\ queue[1] = <<>> /\ Eos \notin ToSet(queue[2])
              /\ ~isEOS => Eos \notin ToSet(queue[2])
    BY <1>2, TakenTask
  <2>2. media.la \in Nat \ {0} /\ UNCHANGED queue
    BY <1>2, TakenTask
  <2>3. CASE isEOS
    <3>1. /\ worker'.pc = "process" => worker'.hand = Eos /\ m_fifo' = <<>>
          /\ worker'.pc = "processAgain" => worker'.hand # Eos
          /\ worker'.pc \in {"process", "processAgain"}
      <4>1. EmptyFifoFrom(isEOS)
        BY <2>1
      <4>2. \/ m_fifo = <<>> /\ m_fifo' = m_fifo /\ worker' = [pc |-> "process", hand |-> Eos]
            \/ /\ Head(m_fifo) \in Sources
               /\ worker' = [pc |-> "processAgain", hand |-> Head(m_fifo)]
        BY <2>2, <2>3, <4>1, EmptyFifoFacts
      <4>3. QED
        BY <4>2, EosTypes
    <3>2. tasks' = <<>> /\ queue'[1] = <<>> /\ Eos \notin ToSet(queue'[2])
      BY <2>1, <2>2, <2>3
    <3>3. OnlyLast(queue'[1], Eos) /\ OnlyLast(queue'[2], Eos) /\ OnlyLast(tasks', TRUE)
          /\ Eos \notin ToSet(queue'[1]) /\ TRUE \notin ToSet(tasks')
      BY <2>2, <3>2, EosTypes DEF EosLast
    <3>4. QED
      BY <3>1, <3>2, <3>3 DEF EosLast
  <2>4. CASE ~isEOS
    <3>1. worker'.pc \in {"idle", "process"} /\ worker'.hand # Eos
      BY <2>1, <2>2, <2>4, EmptyFifoFacts, EosTypes
    <3>2. /\ OnlyLast(tasks', TRUE)
          /\ TRUE \in ToSet(tasks') => TRUE \in ToSet(tasks)
      <4>1. OnlyLast(tasks, TRUE) /\ tasks \in Seq(BOOLEAN)
        BY EosTypes DEF EosLast
      <4>2. tasks # <<>> /\ tasks' = Tail(tasks)
        BY <2>1, <2>4
      <4>3. OnlyLast(Tail(tasks), TRUE) /\ (TRUE \in ToSet(Tail(tasks)) => TRUE \in ToSet(tasks))
        BY <4>1, <4>2, EosTail
      <4>4. QED
        BY <4>2, <4>3
    <3>3. QED
      BY <2>1, <2>2, <2>4, <3>1, <3>2 DEF EosLast
  <2>5. QED
    BY <2>3, <2>4
<1>3. ASSUME WorkerProcess PROVE EosLast'
  <2>1. /\ worker.pc \in {"process", "processAgain"} /\ worker.hand # None /\ worker.hand \in Sources \cup {Eos}
        /\ queue' = [queue EXCEPT ![2] = IF 2 \in alive THEN Append(@, worker.hand) ELSE @]
        /\ UNCHANGED <<m_fifo, tasks>>
        /\ worker'.hand = None
        /\ worker'.pc \in {"late", "eos", "idle"} /\ (worker'.pc = "eos" => worker.pc = "processAgain")
    BY <1>3, EosTypes DEF WorkerProcess, Hands, WorkerSteps
  <2>2. queue'[1] = queue[1] /\ Eos \notin ToSet(queue[2])
    BY <2>1, EosTypes DEF EosLast
  <2>3. /\ OnlyLast(queue'[2], Eos)
        /\ Eos \in ToSet(queue'[2]) => worker.hand = Eos
    <3>1. queue'[2] = Append(queue[2], worker.hand) \/ queue'[2] = queue[2]
      BY <2>1, EosTypes
    <3>2. QED
      BY <2>1, <2>2, <3>1, EosTypes, EosAppend DEF EosLast
  <2>4. worker.pc = "processAgain" => worker.hand # Eos
    BY DEF Hands
  <2>5. QED
    BY <2>1, <2>2, <2>3, <2>4, EosTypes DEF EosLast
<1>4. QED
  BY <1>1, <1>2, <1>3 DEF LookAheadWorker

LEMMA MainEos ==
  ASSUME Assumptions, TypeOK, EosLast, Main
  PROVE  EosLast'
<1>1. ASSUME UNCHANGED <<queue, tasks, worker, m_fifo>> PROVE EosLast'
  BY <1>1, EosStill
<1>2. ASSUME \/ \E created \in 0..Passes : Start(created) \/ StartAgain(created)
             \/ \E again \in BOOLEAN : Stop(again)
             \/ ReleaseConfig \/ ResetConfig \/ ReleaseStream
      PROVE  EosLast'
  BY <1>1, <1>2 DEF Start, StartAgain, CreateEncoder, Stop, ReleaseConfig, ResetConfig, ReleaseStream, library, lookAhead
<1>3. ASSUME NEW k \in 1..2, ReleaseSource(k) PROVE EosLast'
  <2>1. PICK n \in DOMAIN queue[k] : queue' = [queue EXCEPT ![k] = RemoveAt(@, n)]
    BY <1>3 DEF ReleaseSource
  <2>2. /\ queue'[k] = RemoveAt(queue[k], n) /\ queue[k] # <<>>
        /\ \A j \in 1..2 : j # k => queue'[j] = queue[j]
    BY <2>1, EosTypes
  <2>3. /\ OnlyLast(queue'[k], Eos)
        /\ Eos \in ToSet(queue'[k]) => Eos \in ToSet(queue[k])
    <3>1. OnlyLast(queue[k], Eos) /\ queue[k] \in Seq(Sources \cup {Eos})
      BY EosTypes DEF EosLast
    <3>2. QED
      BY <2>2, <3>1, EosRemove
  <2>4. \A j \in 1..2 : /\ OnlyLast(queue'[j], Eos)
                        /\ Eos \in ToSet(queue'[j]) => Eos \in ToSet(queue[j])
                        /\ queue[j] = <<>> => queue'[j] = <<>>
    BY <2>2, <2>3, EosTypes DEF EosLast
  <2>5. UNCHANGED <<tasks, worker, m_fifo>>
    BY <1>3 DEF ReleaseSource, lookAhead
  <2>6. OnlyLast(tasks', TRUE)
    BY <2>5 DEF EosLast
  <2>7. QED
    BY <2>4, <2>5, <2>6, EosLastLess
<1>4. ASSUME NEW k \in 1..2, DestroyPass(k) PROVE EosLast'
  <2>1. /\ queue' = [queue EXCEPT ![k] = <<>>] /\ UNCHANGED <<tasks, worker>>
        /\ m_fifo = <<>> => m_fifo' = <<>>
    BY <1>4 DEF DestroyPass
  <2>2. \A j \in 1..2 : queue'[j] = <<>> \/ queue'[j] = queue[j]
    BY <2>1, EosTypes
  <2>3. \A j \in 1..2 : /\ OnlyLast(queue'[j], Eos)
                        /\ Eos \in ToSet(queue'[j]) => Eos \in ToSet(queue[j])
                        /\ queue[j] = <<>> => queue'[j] = <<>>
    BY <2>2, EosTypes DEF EosLast
  <2>4. OnlyLast(tasks', TRUE)
    BY <2>1 DEF EosLast
  <2>5. QED
    BY <2>1, <2>3, <2>4, EosLastLess
<1>5. ASSUME Clear PROVE EosLast'
  <2>1. UNCHANGED <<queue, worker, m_fifo>> /\ (tasks' = <<>> \/ tasks' = tasks)
    BY <1>5 DEF Clear, library
  <2>2. /\ OnlyLast(tasks', TRUE)
        /\ TRUE \in ToSet(tasks') => TRUE \in ToSet(tasks)
        /\ tasks = <<>> => tasks' = <<>>
    BY <2>1, EosTypes DEF EosLast
  <2>3. \A j \in 1..2 : OnlyLast(queue'[j], Eos) /\ queue'[j] = queue[j]
    BY <2>1, EosTypes DEF EosLast
  <2>4. QED
    BY <2>1, <2>2, <2>3, EosLastLess
<1>6. QED
  BY <1>2, <1>3, <1>4, <1>5 DEF Main, StopSteps


-----------------------------------------------------------------------------
(* The look-ahead                                                           *)

LEMMA WaitingStep ==
  ASSUME Assumptions, TypeOK, Phase, EosLast, Waiting, [Next]_vars
  PROVE  Waiting'
<1> USE DEF Assumptions
<1>1. SUFFICES ASSUME media.la > 0 PROVE ~overtaken' => Len(m_fifo') < media.la + Len(tasks')
  BY MediaKept DEF Waiting
<1>2. /\ media.la \in Nat /\ m_fifo \in Seq(Sources) /\ tasks \in Seq(BOOLEAN)
      /\ Len(m_fifo) \in Nat /\ Len(tasks) \in Nat
  BY PassesFacts DEF TypeOK
<1>3. ~overtaken => Len(m_fifo) < media.la + Len(tasks)
  BY <1>1 DEF Waiting
<1>4. CASE UNCHANGED <<m_fifo, tasks, overtaken>>
  BY <1>3, <1>4
<1>5. CASE EndEncodingLookAhead
  <2>1. /\ m_fifo' = m_fifo \/ m_fifo' = Append(m_fifo, Head(queue[1]))
        /\ tasks' = Append(tasks, Head(queue[1]) = Eos) /\ overtaken' = overtaken
    BY <1>5 DEF EndEncodingLookAhead, history
  <2>2. Len(m_fifo') \in {Len(m_fifo), Len(m_fifo) + 1} /\ Len(tasks') = Len(tasks) + 1
    BY <1>2, <2>1
  <2>3. QED
    BY <1>2, <1>3, <2>1, <2>2
<1>6. CASE WorkerTake
  <2>1. PICK isEOS \in BOOLEAN :
          /\ EmptyFifoFrom(isEOS)
          /\ \/ worker.pc = "eos" /\ isEOS /\ tasks' = tasks /\ overtaken' = overtaken
             \/ /\ worker.pc = "idle" /\ tasks # <<>> /\ isEOS = Head(tasks) /\ tasks' = Tail(tasks)
                /\ overtaken' = (overtaken \/ (~isEOS /\ Len(m_fifo) > media.la))
    BY <1>6, TakenTask
  <2>2. \/ isEOS /\ m_fifo = <<>> /\ m_fifo' = m_fifo
        \/ /\ Len(m_fifo') = Len(m_fifo) - 1
           /\ isEOS \/ Len(m_fifo) = media.la
        \/ ~isEOS /\ Len(m_fifo) # media.la /\ m_fifo' = m_fifo
    BY <1>1, <1>2, <2>1, EmptyFifoFacts
  <2>3. Len(tasks') = Len(tasks) \/ Len(tasks') = Len(tasks) - 1
    <3>1. tasks # <<>> => Len(Tail(tasks)) = Len(tasks) - 1
      BY <1>2
    <3>2. QED
      BY <2>1, <3>1
  <2>4. Len(tasks') \in Nat
    BY <1>2, <2>1
  <2>5. CASE isEOS
    <3>1. ~overtaken' => ~overtaken
      <4>1. overtaken' = overtaken \/ overtaken' = (overtaken \/ (~isEOS /\ Len(m_fifo) > media.la))
        BY <2>1
      <4>2. QED
        BY <4>1, Zenon
    <3>2. m_fifo = <<>> => Len(m_fifo') = 0 \/ Len(m_fifo') = Len(m_fifo) - 1
      BY <2>2, <2>5
    <3>3. m_fifo # <<>> => Len(m_fifo') = Len(m_fifo) - 1
      BY <2>2, <2>5
    <3>4. m_fifo = <<>> => Len(m_fifo) = 0
      OBVIOUS
    <3>5. QED
      BY <1>1, <1>2, <1>3, <2>3, <2>4, <3>1, <3>2, <3>3, <3>4
  <2>6. CASE ~isEOS
    <3>1. overtaken' = (overtaken \/ Len(m_fifo) > media.la)
      BY <2>1, <2>6
    <3>2. ~overtaken' => Len(m_fifo) <= media.la
      <4>1. ~overtaken' => ~(Len(m_fifo) > media.la)
        BY <3>1, Zenon
      <4>2. QED
        BY <1>2, <4>1
    <3>3. Len(m_fifo') = Len(m_fifo) - 1 \/ (Len(m_fifo) # media.la /\ m_fifo' = m_fifo)
      BY <2>2, <2>6
    <3>4. QED
      BY <1>1, <1>2, <2>4, <3>2, <3>3
  <2>7. QED
    BY <2>5, <2>6
<1>7. CASE \E k \in 1..2 : DestroyPass(k)
  <2>1. (m_fifo' = <<>> \/ m_fifo' = m_fifo) /\ UNCHANGED <<tasks, overtaken>>
    BY <1>7 DEF DestroyPass
  <2>2. Len(<<>>) = 0
    OBVIOUS
  <2>3. QED
    BY <1>1, <1>2, <1>3, <2>1, <2>2
<1>8. CASE Clear
  <2>1. (tasks' = <<>> \/ tasks' = tasks) /\ m_fifo' = m_fifo /\ overtaken' = overtaken /\ Past
    BY <1>8 DEF Clear, history, Past
  <2>2. m_fifo = <<>>
    BY <2>1 DEF Phase
  <2>3. Len(m_fifo') = 0 /\ Len(tasks') \in Nat
    BY <1>2, <2>1, <2>2
  <2>4. QED
    BY <1>1, <1>2, <2>3
<1>9. CASE WorkerProcess
  BY <1>4, <1>9 DEF WorkerProcess, history
<1>10. CASE Workers
  BY <1>4, <1>10 DEF Workers, Empty, EmptyEos, Fill, SetTable, lookAhead, history
<1>11. CASE EndEncoding
  BY <1>4, <1>11 DEF EndEncoding, Finish, FinishEos, LockConfig, TakeConfig, GiveConfig, GiveData, lookAhead, history
<1>12. CASE (\E created \in 0..Passes : Start(created) \/ StartAgain(created)) \/ (\E again \in BOOLEAN : Stop(again))
            \/ ReleaseConfig \/ ResetConfig \/ ReleaseStream \/ (\E k \in 1..2 : ReleaseSource(k))
  BY <1>4, <1>12 DEF Start, StartAgain, CreateEncoder, Stop, ReleaseConfig, ResetConfig, ReleaseStream, ReleaseSource,
                     lookAhead, history
<1>13. CASE UNCHANGED vars
  BY <1>4, <1>13 DEF vars, lookAhead, history
<1>14. QED
  BY <1>5, <1>6, <1>7, <1>8, <1>9, <1>10, <1>11, <1>12, <1>13 DEF Next, LookAheadWorker, Main, StopSteps


-----------------------------------------------------------------------------
(* The order of the pictures                                                *)

LEMMA PicturesFacts ==
  ASSUME NEW s \in Seq(Sources \cup {Eos}), OnlyLast(s, Eos), HandlesAssumption
  PROVE  /\ Pictures(s) \in Seq(Sources)
         /\ Eos \notin ToSet(s) => Pictures(s) = s
         /\ s # <<>> /\ Head(s) = Eos => Pictures(s) = <<>> /\ Tail(s) = <<>>
         /\ s # <<>> /\ Head(s) # Eos => Pictures(s) = <<Head(s)>> \o Pictures(Tail(s))
<1>0. DOMAIN s = 1..Len(s)
  OBVIOUS
<1>1. Len(s) \in Nat /\ (s # <<>> => Len(s) # 0) /\ \A i \in 1..Len(s) : s[i] \in Sources \cup {Eos}
  BY EmptySeq
<1>9. \A i \in 1..Len(s) : s[i] = Eos => i = Len(s)
  BY <1>0 DEF OnlyLast
<1>2. \A n \in Nat : n <= Len(s) /\ (\A i \in 1..n : s[i] # Eos) =>
        /\ SubSeq(s, 1, n) \in Seq(Sources) /\ Len(SubSeq(s, 1, n)) = n
        /\ \A i \in 1..n : SubSeq(s, 1, n)[i] = s[i]
  <2>1. SUFFICES ASSUME NEW n \in Nat, n <= Len(s), \A i \in 1..n : s[i] # Eos
                 PROVE  /\ SubSeq(s, 1, n) \in Seq(Sources) /\ Len(SubSeq(s, 1, n)) = n
                        /\ \A i \in 1..n : SubSeq(s, 1, n)[i] = s[i]
    OBVIOUS
  <2>2. \A i \in 1..n : s[i] \in Sources
    BY <1>1, <2>1
  <2>3. /\ SubSeq(s, 1, n) \in Seq(Sources)
        /\ Len(SubSeq(s, 1, n)) = IF 1 <= n THEN n - 1 + 1 ELSE 0
        /\ \A i \in 1..(n - 1 + 1) : SubSeq(s, 1, n)[i] = s[1 + i - 1]
    BY <2>2, SubSeqProperties
  <2>4. Len(SubSeq(s, 1, n)) = n
    BY <2>3
  <2>5. \A i \in 1..n : SubSeq(s, 1, n)[i] = s[i]
    <3>1. SUFFICES ASSUME NEW i \in 1..n PROVE SubSeq(s, 1, n)[i] = s[i]
      OBVIOUS
    <3>2. i \in 1..(n - 1 + 1) /\ 1 + i - 1 = i
      OBVIOUS
    <3>3. QED
      BY <2>3, <3>2
  <2>6. QED
    BY <2>3, <2>4, <2>5
<1>3. Eos \notin ToSet(s) => Pictures(s) = s /\ s \in Seq(Sources)
  <2>1. SUFFICES ASSUME Eos \notin ToSet(s) PROVE Pictures(s) = s /\ s \in Seq(Sources)
    OBVIOUS
  <2>2. \A i \in 1..Len(s) : s[i] # Eos
    BY <1>0, <2>1 DEF ToSet
  <2>3. Pictures(s) = s
    <3>1. s # <<>> => Len(s) \in 1..Len(s)
      BY <1>1
    <3>2. QED
      BY <2>2, <3>1 DEF Pictures
  <2>4. SubSeq(s, 1, Len(s)) \in Seq(Sources)
    BY <1>1, <1>2, <2>2
  <2>5. SubSeq(s, 1, Len(s)) = s
    BY SubSeqFull
  <2>6. QED
    BY <2>3, <2>4, <2>5
<1>4. Eos \in ToSet(s) =>
        /\ s # <<>> /\ s[Len(s)] = Eos /\ Pictures(s) = SubSeq(s, 1, Len(s) - 1) /\ Len(s) \in Nat \ {0}
        /\ Pictures(s) \in Seq(Sources) /\ Len(Pictures(s)) = Len(s) - 1
        /\ \A i \in 1..(Len(s) - 1) : Pictures(s)[i] = s[i]
  <2>1. SUFFICES ASSUME Eos \in ToSet(s)
        PROVE /\ s # <<>> /\ s[Len(s)] = Eos /\ Pictures(s) = SubSeq(s, 1, Len(s) - 1) /\ Len(s) \in Nat \ {0}
              /\ Pictures(s) \in Seq(Sources) /\ Len(Pictures(s)) = Len(s) - 1
              /\ \A i \in 1..(Len(s) - 1) : Pictures(s)[i] = s[i]
    OBVIOUS
  <2>2. PICK i \in 1..Len(s) : s[i] = Eos
    BY <1>0, <2>1 DEF ToSet
  <2>3. s # <<>> /\ s[Len(s)] = Eos /\ Len(s) \in Nat \ {0}
    <3>1. i = Len(s)
      BY <1>9, <2>2
    <3>2. Len(s) \in Nat \ {0}
      BY <1>1, <2>2
    <3>3. s # <<>>
      BY <3>2
    <3>4. QED
      BY <2>2, <3>1, <3>2, <3>3
  <2>4. Pictures(s) = SubSeq(s, 1, Len(s) - 1)
    BY <2>3 DEF Pictures, Front
  <2>5. Len(s) - 1 \in Nat /\ Len(s) - 1 <= Len(s) /\ \A j \in 1..(Len(s) - 1) : s[j] # Eos
    <3>1. Len(s) - 1 \in Nat /\ Len(s) - 1 <= Len(s)
      BY <2>3
    <3>2. ASSUME NEW j \in 1..(Len(s) - 1) PROVE s[j] # Eos
      <4>1. j \in 1..Len(s) /\ j # Len(s)
        BY <2>3
      <4>2. QED
        BY <1>9, <4>1
    <3>3. QED
      BY <3>1, <3>2
  <2>6. /\ SubSeq(s, 1, Len(s) - 1) \in Seq(Sources) /\ Len(SubSeq(s, 1, Len(s) - 1)) = Len(s) - 1
        /\ \A j \in 1..(Len(s) - 1) : SubSeq(s, 1, Len(s) - 1)[j] = s[j]
    BY <1>2, <2>5
  <2>7. QED
    BY <2>3, <2>4, <2>6
<1>5. Pictures(s) \in Seq(Sources)
  BY <1>3, <1>4
<1>6. s # <<>> /\ Head(s) = Eos => Pictures(s) = <<>> /\ Tail(s) = <<>>
  <2>1. SUFFICES ASSUME s # <<>>, Head(s) = Eos PROVE Pictures(s) = <<>> /\ Tail(s) = <<>>
    OBVIOUS
  <2>2. Tail(s) = <<>> /\ s = <<Eos>>
    BY <2>1, EosTail
  <2>3. Len(s) = 1 /\ s[1] = Eos
    BY <2>2
  <2>4. Pictures(s) = SubSeq(s, 1, 0)
    BY <2>1, <2>3 DEF Pictures, Front
  <2>5. SubSeq(s, 1, 0) = <<>>
    BY SubSeqEmpty
  <2>6. QED
    BY <2>2, <2>4, <2>5
<1>7. s # <<>> /\ Head(s) # Eos => Pictures(s) = <<Head(s)>> \o Pictures(Tail(s))
  <2>1. SUFFICES ASSUME s # <<>>, Head(s) # Eos PROVE Pictures(s) = <<Head(s)>> \o Pictures(Tail(s))
    OBVIOUS
  <2>2. s = <<Head(s)>> \o Tail(s)
    BY <2>1, HeadAndTail
  <2>3. /\ Tail(s) \in Seq(Sources \cup {Eos}) /\ Len(Tail(s)) = Len(s) - 1
        /\ \A i \in 1..Len(Tail(s)) : Tail(s)[i] = s[i + 1]
        /\ DOMAIN Tail(s) = 1..Len(Tail(s)) /\ Head(s) = s[1]
    BY <2>1
  <2>4. CASE Eos \notin ToSet(s)
    <3>1. Eos \notin ToSet(Tail(s))
      BY <2>1, <2>4, EosTail
    <3>2. \A i \in 1..Len(Tail(s)) : Tail(s)[i] # Eos
      BY <2>3, <3>1 DEF ToSet
    <3>3. Pictures(Tail(s)) = Tail(s)
      <4>1. Tail(s) # <<>> => Len(Tail(s)) \in Nat \ {0}
        BY <2>3, EmptySeq
      <4>2. Tail(s) # <<>> => Tail(s)[Len(Tail(s))] # Eos
        BY <3>2, <4>1
      <4>3. QED
        BY <4>2 DEF Pictures
    <3>4. QED
      BY <1>3, <2>2, <2>4, <3>3
  <2>5. CASE Eos \in ToSet(s)
    <3>1. s[Len(s)] = Eos /\ Len(s) \in Nat \ {0} /\ Len(s) # 1
      BY <1>4, <2>1, <2>3, <2>5
    <3>2. Len(Tail(s)) \in Nat \ {0} /\ Tail(s)[Len(Tail(s))] = Eos
      <4>1. Len(Tail(s)) \in Nat \ {0} /\ Len(Tail(s)) + 1 = Len(s) /\ Len(Tail(s)) \in 1..Len(Tail(s))
        BY <2>3, <3>1
      <4>2. Tail(s)[Len(Tail(s))] = s[Len(Tail(s)) + 1]
        BY <2>3, <4>1
      <4>3. QED
        BY <3>1, <4>1, <4>2
    <3>3. Tail(s) # <<>>
      <4>1. Len(Tail(s)) # 0
        BY <3>2
      <4>2. Len(<<>>) = 0
        BY EmptySeq
      <4>3. QED
        BY <4>1, <4>2
    <3>4. Pictures(Tail(s)) = SubSeq(Tail(s), 1, Len(s) - 2)
      <4>1. Len(Tail(s)) - 1 = Len(s) - 2
        BY <2>3, <3>1
      <4>2. QED
        BY <3>2, <3>3, <4>1 DEF Pictures, Front
    <3>5. /\ Pictures(s) = SubSeq(s, 1, Len(s) - 1)
          /\ 1 \in 1..Len(s) /\ Len(s) - 1 \in 1..Len(s)
      BY <1>4, <2>5, <3>1
    <3>6. SubSeq(s, 1, Len(s) - 1) = <<s[1]>> \o SubSeq(s, 2, Len(s) - 1)
      <4>1. 1 \in 1..Len(s) /\ Len(s) - 1 \in 1..Len(s)
        BY <3>5
      <4>2. Len(s) - 1 \in 1..Len(s) => SubSeq(s, 1, Len(s) - 1) = <<s[1]>> \o SubSeq(s, 1 + 1, Len(s) - 1)
        BY <4>1, SubSeqRecursiveFirst
      <4>3. QED
        BY <4>1, <4>2
    <3>7. SubSeq(s, 2, Len(s) - 1) = SubSeq(Tail(s), 1, Len(s) - 2)
      <4>1. Tail(s) = SubSeq(s, 2, Len(s))
        BY <2>1, TailIsSubSeq
      <4>2. CASE Len(s) = 2
        <5>1. SubSeq(s, 2, Len(s) - 1) = <<>>
          BY <4>2, SubSeqEmpty
        <5>2. SubSeq(Tail(s), 1, Len(s) - 2) = <<>>
          BY <4>2, SubSeqEmpty
        <5>3. QED
          BY <5>1, <5>2
      <4>3. CASE Len(s) # 2
        <5>1. /\ 2 \in 1..Len(s) /\ Len(s) \in 1..Len(s)
              /\ 1 \in 1..(Len(s) - 2 + 1) /\ Len(s) - 2 \in 1..(Len(s) - 2 + 1)
          <6>1. \A n \in Nat : n # 0 /\ n # 1 /\ n # 2 =>
                  2 \in 1..n /\ n \in 1..n /\ 1 \in 1..(n - 2 + 1) /\ n - 2 \in 1..(n - 2 + 1)
            OBVIOUS
          <6>2. Len(s) \in Nat /\ Len(s) # 0 /\ Len(s) # 1 /\ Len(s) # 2
            BY <3>1, <4>3
          <6>3. QED
            BY <6>1, <6>2
        <5>2. SubSeq(SubSeq(s, 2, Len(s)), 1, Len(s) - 2) = SubSeq(s, 2 + 1 - 1, 2 + (Len(s) - 2) - 1)
          BY <5>1, SubSeqOfSubSeq
        <5>3. 2 + 1 - 1 = 2 /\ 2 + (Len(s) - 2) - 1 = Len(s) - 1
          BY <3>1
        <5>4. QED
          BY <4>1, <5>2, <5>3
      <4>4. QED
        BY <4>2, <4>3
    <3>8. QED
      BY <2>3, <3>4, <3>5, <3>6, <3>7
  <2>6. QED
    BY <2>4, <2>5
<1>8. QED
  BY <1>3, <1>5, <1>6, <1>7

LEMMA PicturesAppend ==
  ASSUME NEW s \in Seq(Sources \cup {Eos}), Eos \notin ToSet(s), HandlesAssumption
  PROVE  /\ Pictures(s) = s /\ s \in Seq(Sources) /\ Pictures(Append(s, Eos)) = s
         /\ \A h \in Sources : Pictures(Append(s, h)) = Append(s, h)
<1>1. OnlyLast(s, Eos)
  BY DEF OnlyLast, ToSet
<1>2. Pictures(s) = s /\ s \in Seq(Sources)
  BY <1>1, PicturesFacts
<1>3. \A x \in Sources \cup {Eos} :
        /\ Append(s, x) \in Seq(Sources \cup {Eos}) /\ Append(s, x) # <<>> /\ Len(Append(s, x)) = Len(s) + 1
        /\ Append(s, x)[Len(s) + 1] = x
  BY AppendProperties
<1>4. \A h \in Sources : Pictures(Append(s, h)) = Append(s, h)
  BY <1>3 DEF Pictures, HandlesAssumption
<1>5. Pictures(Append(s, Eos)) = s
  <2>1. Pictures(Append(s, Eos)) = SubSeq(Append(s, Eos), 1, Len(s))
    <3>1. Len(s) + 1 - 1 = Len(s)
      OBVIOUS
    <3>2. QED
      BY <1>3, <3>1 DEF Pictures, Front
  <2>2. Append(s, Eos) = s \o <<Eos>>
    BY AppendIsConcat
  <2>3. CASE s = <<>>
    <3>1. SubSeq(Append(s, Eos), 1, Len(s)) = <<>>
      BY <2>3, SubSeqEmpty
    <3>2. QED
      BY <2>1, <2>3, <3>1
  <2>4. CASE s # <<>>
    <3>1. 1 \in 1..Len(s) /\ Len(s) \in 1..Len(s) /\ <<Eos>> \in Seq(Sources \cup {Eos})
      BY <2>4, EmptySeq
    <3>2. SubSeq(s \o <<Eos>>, 1, Len(s)) = SubSeq(s, 1, Len(s))
      BY <3>1, SubSeqOfConcat1
    <3>3. QED
      BY <2>1, <2>2, <3>2, SubSeqFull
  <2>5. QED
    BY <2>3, <2>4
<1>6. QED
  BY <1>2, <1>4, <1>5


\* the parts of the line
Given == IF back.end THEN <<back.source>> ELSE <<>>
Handed == IF worker.hand \in {None, Eos} THEN <<>> ELSE <<worker.hand>>

LEMMA LineParts ==
  ASSUME Assumptions, TypeOK, Hands, EosLast
  PROVE  /\ Line = Joined(Given, Pictures(queue[2]), Handed, m_fifo, Pictures(queue[1]))
         /\ Given \in Seq(Sources) /\ Pictures(queue[2]) \in Seq(Sources) /\ Handed \in Seq(Sources)
         /\ m_fifo \in Seq(Sources) /\ Pictures(queue[1]) \in Seq(Sources)
<1>1. back.end => back.source \in Sources
  BY DEF Hands, NoCallback
<1>2. worker.hand \in Sources \cup {None, Eos}
  BY DEF TypeOK, WorkerSteps
<1>3. Given \in Seq(Sources) /\ Handed \in Seq(Sources)
  <2>1. Given = <<>> \/ (back.source \in Sources /\ Given = <<back.source>>)
    BY <1>1 DEF Given
  <2>2. Handed = <<>> \/ (worker.hand \in Sources /\ Handed = <<worker.hand>>)
    BY <1>2 DEF Handed
  <2>3. \A x \in Sources : <<x>> \in Seq(Sources)
    OBVIOUS
  <2>4. <<>> \in Seq(Sources)
    OBVIOUS
  <2>5. Given \in Seq(Sources)
    BY <2>1, <2>3, <2>4
  <2>6. Handed \in Seq(Sources)
    BY <2>2, <2>3, <2>4
  <2>7. QED
    BY <2>5, <2>6
<1>4. OnlyLast(queue[1], Eos) /\ OnlyLast(queue[2], Eos) /\ HandlesAssumption
  BY DEF EosLast, Assumptions
<1>5. Pictures(queue[1]) \in Seq(Sources) /\ Pictures(queue[2]) \in Seq(Sources)
  BY <1>4, EosTypes, PicturesFacts
<1>6. QED
  BY <1>3, <1>5, EosTypes DEF Line, Joined, Given, Handed

\* nothing of the client is there, so that no picture is in the line
LEMMA NoLine ==
  ASSUME Hands, NothingHeld, worker.pc = "idle"
  PROVE  Line = <<>>
<1>1. worker.hand = None
  BY DEF Hands
<1>2. /\ queue[1] = <<>> /\ queue[2] = <<>> /\ m_fifo = <<>> /\ ~back.end
  BY DEF NothingHeld, NoCallback
<1>3. Pictures(<<>>) = <<>> /\ <<>> \in Seq(Sources) /\ <<>> \o <<>> = <<>>
  BY ConcatEmptySeq DEF Pictures
<1>4. QED
  BY <1>1, <1>2, <1>3 DEF Line

LEMMA WorkersOrder ==
  ASSUME Assumptions, TypeOK, Hands, EosLast, Ordered, Workers, media.la > 0
  PROVE  order' = Line' /\ main'.pc = "out"
<1> USE DEF Assumptions
<1>1. main.pc = "out" /\ UNCHANGED <<main, back, worker, m_fifo>> /\ order = Line
  BY DEF Workers, Empty, EmptyEos, Fill, SetTable, Working, Open, Ordered, lookAhead
<1>2. CASE UNCHANGED <<queue, order>>
  BY <1>1, <1>2 DEF Line
<1>3. ASSUME NEW x \in Sources \cup {Eos}, queue' = [queue EXCEPT ![1] = Append(@, x)],
             order' = IF x = Eos THEN order ELSE Append(order, x), ~Ended
      PROVE  order' = Line'
  <2>1. queue'[1] = Append(queue[1], x) /\ queue'[2] = queue[2]
    BY <1>3, EosTypes
  <2>2. Eos \notin ToSet(queue[1])
    <3>1. 1 \in 1..2
      OBVIOUS
    <3>2. QED
      BY <1>3, <3>1 DEF Ended
  <2>3. /\ Pictures(queue[1]) = queue[1] /\ queue[1] \in Seq(Sources)
        /\ Pictures(queue'[1]) = IF x = Eos THEN queue[1] ELSE Append(queue[1], x)
    <3>1. /\ Pictures(queue[1]) = queue[1] /\ queue[1] \in Seq(Sources)
          /\ Pictures(Append(queue[1], Eos)) = queue[1]
          /\ \A h \in Sources : Pictures(Append(queue[1], h)) = Append(queue[1], h)
      BY <2>2, EosTypes, PicturesAppend
    <3>2. QED
      BY <2>1, <3>1
  <2>4. Line' = Joined(Given, Pictures(queue[2]), Handed, m_fifo, Pictures(queue'[1]))
    BY <1>1, <2>1 DEF Line, Joined, Given, Handed
  <2>5. CASE x = Eos
    BY <1>1, <1>3, <2>3, <2>4, <2>5, LineParts
  <2>6. CASE x # Eos
    <3>1. x \in Sources
      BY <2>6
    <3>2. /\ Given \in Seq(Sources) /\ Pictures(queue[2]) \in Seq(Sources) /\ Handed \in Seq(Sources)
          /\ m_fifo \in Seq(Sources) /\ queue[1] \in Seq(Sources)
          /\ Line = Joined(Given, Pictures(queue[2]), Handed, m_fifo, queue[1])
      BY <2>3, LineParts
    <3>3. Behind(Line, x) = Joined(Given, Pictures(queue[2]), Handed, m_fifo, Behind(queue[1], x))
      BY <3>1, <3>2, JoinedBehind
    <3>4. QED
      BY <1>1, <1>3, <2>3, <2>4, <2>6, <3>3 DEF Behind
  <2>7. QED
    BY <2>5, <2>6
<1>4. ASSUME NEW h \in Sources, Empty(h) PROVE order' = Line'
  <2>1. \/ queue' = [queue EXCEPT ![1] = Append(@, h)] /\ order' = Append(order, h) /\ ~Ended
        \/ UNCHANGED <<queue, order>>
    BY <1>4 DEF Empty
  <2>2. QED
    BY <1>2, <1>3, <2>1 DEF HandlesAssumption
<1>5. ASSUME EmptyEos PROVE order' = Line'
  BY <1>3, <1>5 DEF EmptyEos, history
<1>6. ASSUME (\E h \in Streams : Fill(h)) \/ (\E t \in Tables : SetTable(t)) PROVE order' = Line'
  BY <1>2, <1>6 DEF Fill, SetTable, library, history
<1>7. QED
  BY <1>1, <1>4, <1>5, <1>6 DEF Workers

\* the steps of the callback and of the look-ahead take nothing of the line,
\* but GiveData, which gives its first picture back
LEMMA EndEncodingLine ==
  ASSUME Assumptions, TypeOK, Hands, EosLast, EndEncoding, media.la > 0
  PROVE  /\ UNCHANGED main
         /\ \/ Line' = Line /\ order' = order
            \/ Line # <<>> /\ Line' = Tail(Line) /\ order' = IF order = <<>> THEN order ELSE Tail(order)
<1> USE DEF Assumptions
<1>0. LastPass = 2
  BY PassesFacts DEF LastPass
<1>1. UNCHANGED <<main, worker, m_fifo>> /\ (~GiveData => order' = order)
  BY DEF EndEncoding, Finish, FinishEos, LockConfig, TakeConfig, GiveConfig, GiveData, lookAhead, history
<1>2. ASSUME UNCHANGED queue, back'.end = back.end, back'.source = back.source PROVE Line' = Line
  BY <1>1, <1>2 DEF Line
<1>3. ASSUME NEW hasConfig \in BOOLEAN, NEW end \in BOOLEAN, Finish(hasConfig, end) PROVE Line' = Line
  <2>1. /\ back.pc = "out" /\ queue[2] # <<>> /\ Head(queue[2]) # Eos
        /\ back'.end = end /\ back'.source = Head(queue[2])
        /\ queue' = IF end THEN [queue EXCEPT ![2] = Tail(@)] ELSE queue
    BY <1>0, <1>3 DEF Finish
  <2>2. ~back.end /\ Given = <<>>
    BY <2>1 DEF Hands, NoCallback, Given
  <2>3. CASE end = FALSE
    BY <1>1, <2>1, <2>2, <2>3 DEF Line
  <2>4. CASE end = TRUE
    <3>1. queue'[2] = Tail(queue[2]) /\ queue'[1] = queue[1]
      BY <2>1, <2>4, EosTypes
    <3>2. Pictures(queue[2]) = Before(Head(queue[2]), Pictures(Tail(queue[2])))
      BY <2>1, EosTypes, PicturesFacts DEF EosLast, Before
    <3>3. Pictures(Tail(queue[2])) \in Seq(Sources) /\ Head(queue[2]) \in Sources
      <4>1. queue[2] \in Seq(Sources \cup {Eos}) /\ OnlyLast(queue[2], Eos)
        BY EosTypes DEF EosLast
      <4>2. OnlyLast(Tail(queue[2]), Eos)
        BY <2>1, <4>1, EosTail
      <4>3. Tail(queue[2]) \in Seq(Sources \cup {Eos}) /\ Head(queue[2]) \in Sources
        BY <2>1, <4>1
      <4>4. QED
        BY <4>2, <4>3, PicturesFacts
    <3>4. Line = Joined(Single(Head(queue[2])), Pictures(Tail(queue[2])), Handed, m_fifo, Pictures(queue[1]))
      <4>1. Line = Joined(Vacant, Pictures(queue[2]), Handed, m_fifo, Pictures(queue[1]))
        BY <2>2, LineParts DEF Vacant
      <4>2. Joined(Vacant, Before(Head(queue[2]), Pictures(Tail(queue[2]))), Handed, m_fifo, Pictures(queue[1]))
              = Joined(Single(Head(queue[2])), Pictures(Tail(queue[2])), Handed, m_fifo, Pictures(queue[1]))
        BY <3>3, JoinedHead
      <4>3. QED
        BY <3>2, <4>1, <4>2
    <3>5. Line' = Joined(Single(Head(queue[2])), Pictures(Tail(queue[2])), Handed, m_fifo, Pictures(queue[1]))
      BY <1>1, <2>1, <2>4, <3>1 DEF Line, Joined, Handed, Single
    <3>6. QED
      BY <3>4, <3>5
  <2>5. QED
    BY <2>3, <2>4
<1>4. ASSUME FinishEos PROVE Line' = Line
  <2>1. /\ queue[2] # <<>> /\ Head(queue[2]) = Eos /\ queue' = [queue EXCEPT ![2] = Tail(@)] /\ UNCHANGED back
    BY <1>0, <1>4 DEF FinishEos
  <2>2. queue'[2] = Tail(queue[2]) /\ queue'[1] = queue[1]
    BY <2>1, EosTypes
  <2>3. Pictures(queue[2]) = <<>> /\ Tail(queue[2]) = <<>> /\ Pictures(<<>>) = <<>>
    BY <2>1, EosTypes, PicturesFacts DEF EosLast, Pictures
  <2>4. QED
    BY <1>1, <2>1, <2>2, <2>3 DEF Line
<1>5. ASSUME LockConfig \/ TakeConfig \/ GiveConfig PROVE Line' = Line
  <2>1. back \in CallbackSteps
    BY DEF TypeOK
  <2>2. UNCHANGED queue
    BY <1>5 DEF LockConfig, TakeConfig, GiveConfig, library
  <2>3. back'.end = back.end /\ back'.source = back.source
    BY <1>5, <2>1 DEF LockConfig, TakeConfig, GiveConfig, CallbackSteps
  <2>4. QED
    BY <1>2, <2>2, <2>3
<1>6. ASSUME GiveData
      PROVE \/ Line' = Line /\ order' = order
            \/ Line # <<>> /\ Line' = Tail(Line) /\ order' = IF order = <<>> THEN order ELSE Tail(order)
  <2>1. /\ order' = IF back.end /\ order # <<>> THEN Tail(order) ELSE order
        /\ back' = NoCallback /\ UNCHANGED queue /\ back.source \in Sources
    BY <1>6 DEF GiveData, library, Hands
  <2>2. Line' = Joined(Vacant, Pictures(queue[2]), Handed, m_fifo, Pictures(queue[1]))
    BY <1>1, <2>1 DEF Line, Joined, NoCallback, Handed, Vacant
  <2>3. CASE ~back.end
    BY <2>1, <2>2, <2>3, LineParts DEF Given, Vacant
  <2>4. CASE back.end
    <3>1. Line = Joined(Single(back.source), Pictures(queue[2]), Handed, m_fifo, Pictures(queue[1]))
      BY <2>4, LineParts DEF Given, Single
    <3>2. PICK s : s = Joined(Vacant, Pictures(queue[2]), Handed, m_fifo, Pictures(queue[1]))
      OBVIOUS
    <3>3. /\ Joined(Vacant, Pictures(queue[2]), Handed, m_fifo, Pictures(queue[1])) \in Seq(Sources)
          /\ Joined(Single(back.source), Pictures(queue[2]), Handed, m_fifo, Pictures(queue[1]))
               = Before(back.source, Joined(Vacant, Pictures(queue[2]), Handed, m_fifo, Pictures(queue[1])))
      BY <2>1, LineParts, JoinedFront
    <3>4. Line = Before(back.source, s) /\ s \in Seq(Sources)
      BY <3>1, <3>2, <3>3
    <3>5. Line # <<>> /\ Tail(Line) = s
      BY <2>1, <3>4, BeforeFacts
    <3>6. Line' = s
      BY <2>2, <3>2
    <3>7. QED
      BY <2>1, <2>4, <3>5, <3>6
  <2>5. QED
    BY <2>3, <2>4
<1>7. QED
  BY <1>1, <1>3, <1>4, <1>5, <1>6 DEF EndEncoding


\* the look-ahead moves pictures along the line
LEMMA LookAheadLine ==
  ASSUME Assumptions, TypeOK, Phase, Hands, EosLast, LookAheadWorker, media.la > 0, main.pc = "out"
  PROVE  Line' = Line
<1> USE DEF Assumptions
<1>0. /\ LastPass = 2 /\ media.la \in Nat \ {0} /\ ~Past
      /\ Line = Joined(Given, Pictures(queue[2]), Handed, m_fifo, Pictures(queue[1]))
      /\ Given \in Seq(Sources) /\ Pictures(queue[2]) \in Seq(Sources) /\ Handed \in Seq(Sources)
      /\ m_fifo \in Seq(Sources) /\ Pictures(queue[1]) \in Seq(Sources)
  BY PassesFacts, LineParts DEF LastPass, Past
<1>1. ASSUME EndEncodingLookAhead PROVE Line' = Line
  <2>1. /\ queue[1] # <<>> /\ queue' = [queue EXCEPT ![1] = Tail(@)] /\ UNCHANGED <<back, worker>>
        /\ m_fifo' = IF Head(queue[1]) = Eos THEN m_fifo ELSE Append(m_fifo, Head(queue[1]))
    BY <1>1 DEF EndEncodingLookAhead
  <2>2. queue'[1] = Tail(queue[1]) /\ queue'[2] = queue[2]
    BY <2>1, EosTypes
  <2>3. queue[1] \in Seq(Sources \cup {Eos}) /\ OnlyLast(queue[1], Eos)
    BY EosTypes DEF EosLast
  <2>4. Line' = Joined(Given, Pictures(queue[2]), Handed, m_fifo', Pictures(Tail(queue[1])))
    BY <2>1, <2>2 DEF Line, Joined, Given, Handed
  <2>5. CASE Head(queue[1]) = Eos
    <3>1. Pictures(queue[1]) = <<>> /\ Tail(queue[1]) = <<>> /\ Pictures(<<>>) = <<>>
      BY <2>1, <2>3, <2>5, PicturesFacts DEF Pictures
    <3>2. QED
      BY <1>0, <2>1, <2>4, <2>5, <3>1
  <2>6. CASE Head(queue[1]) # Eos
    <3>1. PICK h : h = Head(queue[1])
      OBVIOUS
    <3>2. PICK e : e = Pictures(Tail(queue[1]))
      OBVIOUS
    <3>3. Pictures(queue[1]) = Before(h, e)
      BY <2>1, <2>3, <2>6, <3>1, <3>2, PicturesFacts DEF Before
    <3>4. h \in Sources /\ e \in Seq(Sources)
      <4>1. OnlyLast(Tail(queue[1]), Eos)
        BY <2>1, <2>3, EosTail
      <4>2. Tail(queue[1]) \in Seq(Sources \cup {Eos}) /\ Head(queue[1]) \in Sources
        BY <2>1, <2>3, <2>6
      <4>3. QED
        BY <3>1, <3>2, <4>1, <4>2, PicturesFacts
    <3>5. m_fifo' = Behind(m_fifo, h)
      BY <2>1, <2>6, <3>1 DEF Behind
    <3>6. /\ Joined(Given, Pictures(queue[2]), Handed, m_fifo, Before(h, e))
               = Joined(Given, Pictures(queue[2]), Handed, Behind(m_fifo, h), e)
      BY <1>0, <3>4, JoinedPass
    <3>7. QED
      BY <1>0, <2>4, <3>2, <3>3, <3>5, <3>6
  <2>7. QED
    BY <2>5, <2>6
<1>2. ASSUME WorkerTake PROVE Line' = Line
  <2>1. UNCHANGED <<queue, back>> /\ worker.hand = None
    BY <1>2, TakenTask DEF WorkerTake, Hands, library
  <2>2. Line' = Joined(Given, Pictures(queue[2]), Handed', m_fifo', Pictures(queue[1]))
    BY <2>1 DEF Line, Joined, Given, Handed
  <2>3. Handed = Vacant
    BY <2>1 DEF Handed, Vacant
  <2>4. PICK isEOS \in BOOLEAN : EmptyFifoFrom(isEOS)
    BY <1>2, TakenTask
  <2>5. \/ m_fifo' = m_fifo /\ worker'.hand \in {None, Eos}
        \/ m_fifo # <<>> /\ m_fifo' = Tail(m_fifo) /\ worker'.hand = Head(m_fifo) /\ Head(m_fifo) \in Sources
    BY <1>0, <2>4, EmptyFifoFacts
  <2>6. CASE m_fifo' = m_fifo /\ worker'.hand \in {None, Eos}
    <3>1. Handed' = Vacant
      BY <2>6 DEF Handed, Vacant
    <3>2. QED
      BY <1>0, <2>2, <2>3, <2>6, <3>1
  <2>7. CASE m_fifo # <<>> /\ m_fifo' = Tail(m_fifo) /\ worker'.hand = Head(m_fifo) /\ Head(m_fifo) \in Sources
    <3>1. PICK h \in Sources : h = Head(m_fifo)
      BY <2>7
    <3>2. PICK d \in Seq(Sources) : d = Tail(m_fifo)
      <4>1. m_fifo \in Seq(Sources) /\ m_fifo # <<>>
        BY <1>0, <2>7
      <4>2. Tail(m_fifo) \in Seq(Sources)
        BY <4>1
      <4>3. QED
        BY <4>2
    <3>3. m_fifo = Before(h, d)
      BY <1>0, <2>7, <3>1, <3>2, BeforeFacts
    <3>4. Handed' = Single(h)
      BY <2>7, <3>1, EosTypes DEF Handed, Single
    <3>5. Joined(Given, Pictures(queue[2]), Vacant, Before(h, d), Pictures(queue[1]))
            = Joined(Given, Pictures(queue[2]), Single(h), d, Pictures(queue[1]))
      BY <1>0, JoinedPass
    <3>6. QED
      BY <1>0, <2>2, <2>3, <2>7, <3>2, <3>3, <3>4, <3>5
  <2>8. QED
    BY <2>5, <2>6, <2>7
<1>3. ASSUME WorkerProcess PROVE Line' = Line
  <2>1. /\ worker.pc \in {"process", "processAgain"} /\ worker'.hand = None
        /\ UNCHANGED <<back, m_fifo>> /\ queue' = [queue EXCEPT ![2] = IF 2 \in alive THEN Append(@, worker.hand) ELSE @]
    BY <1>3 DEF WorkerProcess
  <2>2. 2 \in alive /\ worker.hand # None /\ worker.hand \in Sources \cup {Eos}
    BY <1>0, <2>1, EosTypes DEF Phase, Hands, WorkerSteps
  <2>3. queue'[2] = Append(queue[2], worker.hand) /\ queue'[1] = queue[1]
    BY <2>1, <2>2, EosTypes
  <2>4. Eos \notin ToSet(queue[2]) /\ queue[2] \in Seq(Sources \cup {Eos})
    BY <2>2, EosTypes DEF EosLast
  <2>5. /\ Pictures(queue[2]) = queue[2] /\ queue[2] \in Seq(Sources)
        /\ Pictures(Append(queue[2], Eos)) = queue[2]
        /\ \A h \in Sources : Pictures(Append(queue[2], h)) = Append(queue[2], h)
    BY <2>4, PicturesAppend
  <2>6. Line' = Joined(Given, Pictures(queue'[2]), Vacant, m_fifo, Pictures(queue[1]))
    BY <2>1, <2>3 DEF Line, Joined, Given, Vacant
  <2>7. CASE worker.hand = Eos
    <3>1. Handed = Vacant
      BY <2>7 DEF Handed, Vacant
    <3>2. QED
      BY <1>0, <2>3, <2>5, <2>6, <2>7, <3>1
  <2>8. CASE worker.hand # Eos
    <3>1. PICK h \in Sources : h = worker.hand
      BY <2>2, <2>8
    <3>2. Handed = Single(h)
      BY <2>2, <2>8, <3>1 DEF Handed, Single
    <3>3. Pictures(queue'[2]) = Behind(queue[2], h)
      BY <2>3, <2>5, <3>1 DEF Behind
    <3>4. Joined(Given, queue[2], Single(h), m_fifo, Pictures(queue[1]))
            = Joined(Given, Behind(queue[2], h), Vacant, m_fifo, Pictures(queue[1]))
      BY <1>0, <2>5, JoinedPass
    <3>5. QED
      BY <1>0, <2>5, <2>6, <3>2, <3>3, <3>4
  <2>9. QED
    BY <2>7, <2>8
<1>4. QED
  BY <1>1, <1>2, <1>3 DEF LookAheadWorker


\* Stop forgets the order, and no picture is left when Start has returned
LEMMA MainOrder ==
  ASSUME Assumptions, TypeOK, Phase, Hands, Ordered, Main, media.la > 0
  PROVE  order' = IF main'.pc = "out" THEN Line' ELSE <<>>
<1> USE DEF Assumptions
<1>0. /\ LastPass = 2 /\ Passes = 2 /\ main \in MainSteps /\ UNCHANGED <<back, worker>>
      /\ order = IF main.pc = "out" THEN Line ELSE <<>>
  BY PassesFacts
     DEF TypeOK, Ordered, Main, Start, StartAgain, CreateEncoder, Stop, StopSteps, ReleaseConfig, ResetConfig,
         ReleaseSource, ReleaseStream, DestroyPass, Clear, lookAhead
<1>1. ASSUME UNCHANGED <<queue, m_fifo>> PROVE Line' = Line
  BY <1>0, <1>1 DEF Line
<1>2. ASSUME NEW created \in 0..Passes, Start(created)
      PROVE  order' = IF main'.pc = "out" THEN Line' ELSE <<>>
  <2>1. UNCHANGED <<queue, m_fifo, main, order>>
    BY <1>2 DEF Start, CreateEncoder, lookAhead, history
  <2>2. QED
    BY <1>0, <1>1, <2>1
<1>3. ASSUME NEW created \in 0..Passes, StartAgain(created)
      PROVE  order' = IF main'.pc = "out" THEN Line' ELSE <<>>
  <2>1. UNCHANGED <<queue, m_fifo, order>> /\ main.pc = "create"
    BY <1>3 DEF StartAgain, CreateEncoder, lookAhead, history
  <2>2. encoders = 0 /\ alive = {} /\ ~Past
    BY <2>1 DEF Phase, Past
  <2>3. NothingHeld /\ worker.pc = "idle"
    BY <1>0, <2>2 DEF Phase
  <2>4. QED
    BY <1>0, <1>1, <2>1, <2>3, NoLine
<1>4. ASSUME NEW again \in BOOLEAN, Stop(again)
      PROVE  order' = IF main'.pc = "out" THEN Line' ELSE <<>>
  <2>1. UNCHANGED <<queue, m_fifo>> /\ order' = <<>> /\ main.pc = "out"
    BY <1>4 DEF Stop, library, lookAhead
  <2>2. CASE encoders = 0
    <3>1. alive = {} /\ ~Past
      BY <2>1, <2>2 DEF Phase, Past
    <3>2. NothingHeld /\ worker.pc = "idle"
      BY <1>0, <3>1 DEF Phase
    <3>3. QED
      BY <1>1, <2>1, <3>2, NoLine
  <2>3. CASE encoders # 0
    BY <1>4, <2>1, <2>3 DEF Stop
  <2>4. QED
    BY <2>2, <2>3
<1>5. ASSUME Clear PROVE order' = IF main'.pc = "out" THEN Line' ELSE <<>>
  <2>1. UNCHANGED <<queue, m_fifo, order>> /\ main.pc # "out" /\ Past
    BY <1>5 DEF Clear, library, history, Past
  <2>2. CASE worker.pc = "idle"
    <3>1. NothingHeld
      BY <1>0, <2>1 DEF Phase
    <3>2. QED
      BY <1>0, <1>1, <2>1, <2>2, <3>1, NoLine
  <2>3. CASE worker.pc # "idle"
    BY <1>0, <1>5, <2>1, <2>3 DEF Clear, MainSteps
  <2>4. QED
    BY <2>2, <2>3
<1>6. ASSUME \/ ReleaseConfig \/ ResetConfig \/ ReleaseStream
             \/ \E k \in 1..2 : ReleaseSource(k) \/ DestroyPass(k)
      PROVE  order' = IF main'.pc = "out" THEN Line' ELSE <<>>
  <2>1. UNCHANGED order /\ main.pc # "out" /\ main'.pc # "out"
    BY <1>0, <1>6 DEF ReleaseConfig, ResetConfig, ReleaseSource, ReleaseStream, DestroyPass, Dying, history, MainSteps
  <2>2. QED
    BY <1>0, <2>1
<1>7. QED
  BY <1>2, <1>3, <1>4, <1>5, <1>6 DEF Main, StopSteps

LEMMA OrderedStep ==
  ASSUME Assumptions, TypeOK, Phase, Hands, EosLast, Ordered, [Next]_vars
  PROVE  Ordered'
<1> USE DEF Assumptions
<1>1. SUFFICES ASSUME media.la > 0 PROVE order' = IF main'.pc = "out" THEN Line' ELSE <<>>
  BY MediaKept DEF Ordered
<1>2. order = IF main.pc = "out" THEN Line ELSE <<>>
  BY <1>1 DEF Ordered
<1>3. CASE Workers
  BY <1>1, <1>3, WorkersOrder
<1>4. CASE EndEncoding
  <2>1. /\ UNCHANGED main
        /\ \/ Line' = Line /\ order' = order
           \/ Line # <<>> /\ Line' = Tail(Line) /\ order' = IF order = <<>> THEN order ELSE Tail(order)
    BY <1>1, <1>4, EndEncodingLine
  <2>2. QED
    BY <1>2, <2>1
<1>5. CASE LookAheadWorker
  <2>1. UNCHANGED <<main, order>>
    BY <1>5 DEF LookAheadWorker, EndEncodingLookAhead, WorkerTake, WorkerProcess, history
  <2>2. main.pc = "out" => Line' = Line
    BY <1>1, <1>5, LookAheadLine
  <2>3. QED
    BY <1>2, <2>1, <2>2
<1>6. CASE Main
  BY <1>1, <1>6, MainOrder
<1>7. CASE UNCHANGED vars
  <2>1. UNCHANGED <<queue, m_fifo, back, worker, main, order>>
    BY <1>7 DEF vars, library, lookAhead, history
  <2>2. QED
    BY <1>2, <2>1 DEF Line
<1>8. QED
  BY <1>3, <1>4, <1>5, <1>6, <1>7 DEF Next


-----------------------------------------------------------------------------
(* Ownership.  The handles of each place, as sets, and what the steps do to   *)
(* such a division of the handles.                                            *)

\* A to G: the two queues, the FIFO, the worker's hand, the stream buffers, the
\* one kept for the configuration, the callback's; R: refused and forgotten; H
\* and P: the two maps; K: the configuration that goes out; L: what Stop has
\* taken out of the maps and not yet forgotten
Owns(A, B, C, D, E, F, G, R, H, P, K, L) ==
  /\ A \subseteq Sources /\ B \subseteq Sources /\ C \subseteq Sources /\ D \subseteq Sources
  /\ E \subseteq Streams /\ F \subseteq Streams /\ L \subseteq F
  /\ A \cap (B \cup C \cup D \cup G) = {} /\ B \cap (C \cup D \cup G) = {}
  /\ C \cap (D \cup G) = {} /\ D \cap G = {} /\ E \cap (F \cup G) = {} /\ F \cap G = {}
  /\ (A \cup B \cup C \cup D \cup E \cup F \cup G) \cap R = {}
  /\ H = ((A \cup B \cup C \cup D \cup E \cup F \cup G) \ L) \cup R
  /\ P = H \cup K
  /\ K \cap H = {}

\* a new handle comes to a place, or to those the library has refused
LEMMA OwnsNew ==
  ASSUME NEW A, NEW B, NEW C, NEW D, NEW E, NEW F, NEW G, NEW R, NEW H, NEW P, NEW K, NEW x,
         Owns(A, B, C, D, E, F, G, R, H, P, K, {}), x \notin P, HandlesAssumption
  PROVE  /\ x \in Sources => Owns(A \cup {x}, B, C, D, E, F, G, R, H \cup {x}, P \cup {x}, K, {})
         /\ Owns(A, B, C, D, E, F, G, R \cup {x}, H \cup {x}, P \cup {x}, K, {})
         /\ x \in Streams => Owns(A, B, C, D, E \cup {x}, F, G, R, H \cup {x}, P \cup {x}, K, {})
         /\ x \in Streams /\ F = {} => Owns(A, B, C, D, E, {x}, G, R, H \cup {x}, P \cup {x}, K, {})
<1>1. x \in Sources => Owns(A \cup {x}, B, C, D, E, F, G, R, H \cup {x}, P \cup {x}, K, {})
  BY DEF Owns, HandlesAssumption
<1>2. Owns(A, B, C, D, E, F, G, R \cup {x}, H \cup {x}, P \cup {x}, K, {})
  BY DEF Owns
<1>3. x \in Streams => Owns(A, B, C, D, E \cup {x}, F, G, R, H \cup {x}, P \cup {x}, K, {})
  BY DEF Owns, HandlesAssumption
<1>4. x \in Streams /\ F = {} => Owns(A, B, C, D, E, {x}, G, R, H \cup {x}, P \cup {x}, K, {})
  BY DEF Owns, HandlesAssumption
<1>5. QED
  BY <1>1, <1>2, <1>3, <1>4

\* a handle goes from one place to another
LEMMA OwnsMoved ==
  ASSUME NEW A, NEW B, NEW C, NEW D, NEW E, NEW F, NEW G, NEW R, NEW H, NEW P, NEW K, NEW L, NEW x,
         Owns(A, B, C, D, E, F, G, R, H, P, K, L), HandlesAssumption
  PROVE  /\ x \in A => Owns(A \ {x}, B, C \cup {x}, D, E, F, G, R, H, P, K, L)
         /\ x \in C /\ D = {} => Owns(A, B, C \ {x}, {x}, E, F, G, R, H, P, K, L)
         /\ D = {x} => Owns(A, B \cup {x}, C, {}, E, F, G, R, H, P, K, L)
         /\ Owns(A, B, {}, D, E, F, G, R \cup C, H, P, K, L)
<1>1. x \in A => Owns(A \ {x}, B, C \cup {x}, D, E, F, G, R, H, P, K, L)
  BY DEF Owns
<1>2. x \in C /\ D = {} => Owns(A, B, C \ {x}, {x}, E, F, G, R, H, P, K, L)
  BY DEF Owns
<1>3. D = {x} => Owns(A, B \cup {x}, C, {}, E, F, G, R, H, P, K, L)
  BY DEF Owns
<1>4. Owns(A, B, {}, D, E, F, G, R \cup C, H, P, K, L)
  BY DEF Owns, HandlesAssumption
<1>5. QED
  BY <1>1, <1>2, <1>3, <1>4

\* the callback takes a stream buffer, with the last one of its picture the
\* source as well, and gives them back
LEMMA OwnsCallback ==
  ASSUME NEW A, NEW B, NEW C, NEW D, NEW E, NEW F, NEW G, NEW R, NEW H, NEW P, NEW K, NEW L, NEW x, NEW y,
         Owns(A, B, C, D, E, F, G, R, H, P, K, L), HandlesAssumption
  PROVE  /\ y \in E /\ G = {} => Owns(A, B, C, D, E \ {y}, F, {y}, R, H, P, K, L)
         /\ y \in E /\ G = {} /\ x \in A => Owns(A \ {x}, B, C, D, E \ {y}, F, {x, y}, R, H, P, K, L)
         /\ y \in E /\ G = {} /\ x \in B => Owns(A, B \ {x}, C, D, E \ {y}, F, {x, y}, R, H, P, K, L)
         /\ K = {} => Owns(A, B, C, D, E, F, {}, R, H \ G, P \ G, K, L)
<1>1. y \in E /\ G = {} => Owns(A, B, C, D, E \ {y}, F, {y}, R, H, P, K, L)
  BY DEF Owns, HandlesAssumption
<1>2. y \in E /\ G = {} /\ x \in A => Owns(A \ {x}, B, C, D, E \ {y}, F, {x, y}, R, H, P, K, L)
  BY DEF Owns, HandlesAssumption
<1>3. y \in E /\ G = {} /\ x \in B => Owns(A, B \ {x}, C, D, E \ {y}, F, {x, y}, R, H, P, K, L)
  BY DEF Owns, HandlesAssumption
<1>4. ASSUME K = {} PROVE Owns(A, B, C, D, E, F, {}, R, H \ G, P \ G, K, L)
  BY <1>4 DEF Owns, HandlesAssumption
<1>5. QED
  BY <1>1, <1>2, <1>3, <1>4

\* the configuration is taken and goes out, or Stop takes it
LEMMA OwnsConfig ==
  ASSUME NEW A, NEW B, NEW C, NEW D, NEW E, NEW F, NEW G, NEW R, NEW H, NEW P, NEW K, NEW L, NEW x,
         Owns(A, B, C, D, E, F, G, R, H, P, K, L), HandlesAssumption
  PROVE  /\ F = {x} /\ x \in H /\ K = {} => Owns(A, B, C, D, E, {}, G, R, H \ {x}, P, {x}, {})
         /\ Owns(A, B, C, D, E, F, G, R, H, P \ K, {}, L)
         /\ F = {x} /\ L = {} => Owns(A, B, C, D, E, F, G, R, H \ {x}, P \ {x}, K, F)
         /\ L = F => Owns(A, B, C, D, E, {}, G, R, H, P, K, {})
<1>1. ASSUME F = {x}, x \in H, K = {} PROVE Owns(A, B, C, D, E, {}, G, R, H \ {x}, P, {x}, {})
  BY <1>1 DEF Owns, HandlesAssumption
<1>2. Owns(A, B, C, D, E, F, G, R, H, P \ K, {}, L)
  BY DEF Owns
<1>3. ASSUME F = {x}, L = {} PROVE Owns(A, B, C, D, E, F, G, R, H \ {x}, P \ {x}, K, F)
  BY <1>3 DEF Owns, HandlesAssumption
<1>4. L = F => Owns(A, B, C, D, E, {}, G, R, H, P, K, {})
  BY DEF Owns, HandlesAssumption
<1>5. QED
  BY <1>1, <1>2, <1>3, <1>4

\* the library gives back a picture or a stream buffer without a callback
LEMMA OwnsReleased ==
  ASSUME NEW A, NEW B, NEW C, NEW D, NEW E, NEW F, NEW G, NEW R, NEW H, NEW P, NEW K, NEW L, NEW x,
         Owns(A, B, C, D, E, F, G, R, H, P, K, L), HandlesAssumption
  PROVE  /\ x \in A => Owns(A \ {x}, B, C, D, E, F, G, R, H \ {x}, P \ {x}, K, L)
         /\ x \in B => Owns(A, B \ {x}, C, D, E, F, G, R, H \ {x}, P \ {x}, K, L)
         /\ x \in E => Owns(A, B, C, D, E \ {x}, F, G, R, H \ {x}, P \ {x}, K, L)
<1>1. x \in A => Owns(A \ {x}, B, C, D, E, F, G, R, H \ {x}, P \ {x}, K, L)
  BY DEF Owns, HandlesAssumption
<1>2. x \in B => Owns(A, B \ {x}, C, D, E, F, G, R, H \ {x}, P \ {x}, K, L)
  BY DEF Owns, HandlesAssumption
<1>3. x \in E => Owns(A, B, C, D, E \ {x}, F, G, R, H \ {x}, P \ {x}, K, L)
  BY DEF Owns, HandlesAssumption
<1>4. QED
  BY <1>1, <1>2, <1>3

\* each handle once in its place, and the places of the module
Inj == IsInjective(queue[1]) /\ IsInjective(queue[2]) /\ IsInjective(m_fifo) /\ IsInjective(put)
Going == {back.config} \ {None}
Taken == IF main.pc = "reset" THEN InConfig ELSE {}
Book ==
  Owns(InQueue(1), InQueue(2), ToSet(m_fifo), InHand, ToSet(put), InConfig, InBack,
       refused \cup forgotten, handles, pool, Going, Taken)
Sound == back.pc # "null" /\ worker.pc # "late"

\* a queue, as a set of handles
LEMMA ElementsType ==
  ASSUME NEW S, NEW s \in Seq(S)
  PROVE  ToSet(s) \subseteq S
BY DEF ToSet

LEMMA BookTypes ==
  ASSUME Assumptions, TypeOK
  PROVE  /\ InQueue(1) \subseteq Sources /\ InQueue(2) \subseteq Sources /\ ToSet(m_fifo) \subseteq Sources
         /\ InHand \subseteq Sources /\ ToSet(put) \subseteq Streams /\ InConfig \subseteq Streams
         /\ None \notin handles
<1>1. /\ ToSet(queue[1]) \subseteq Sources \cup {Eos} /\ ToSet(queue[2]) \subseteq Sources \cup {Eos}
      /\ ToSet(m_fifo) \subseteq Sources /\ ToSet(put) \subseteq Streams
  <2>1. queue[1] \in Seq(Sources \cup {Eos}) /\ queue[2] \in Seq(Sources \cup {Eos})
    BY DEF TypeOK
  <2>2. m_fifo \in Seq(Sources) /\ put \in Seq(Streams)
    BY DEF TypeOK
  <2>3. QED
    BY <2>1, <2>2, ElementsType
<1>2. InQueue(1) \subseteq Sources /\ InQueue(2) \subseteq Sources
  BY <1>1 DEF InQueue
<1>3. InHand \subseteq Sources /\ InConfig \subseteq Streams /\ None \notin handles
  <2>1. worker.hand \in Sources \cup {None, Eos} /\ configHandle \in Streams \cup {None}
        /\ handles \subseteq Sources \cup Streams
    BY DEF TypeOK, WorkerSteps
  <2>2. QED
    BY <2>1 DEF InHand, InConfig, Assumptions, HandlesAssumption
<1>4. QED
  BY <1>1, <1>2, <1>3

LEMMA OwnedBook ==
  ASSUME Assumptions, TypeOK, Owned, Sound
  PROVE  Inj /\ Book
<1>1. /\ OncePlaced /\ handles = Kept \cup refused \cup forgotten
      /\ pool = handles \cup ({back.config} \ {None}) /\ back.config \notin handles
  BY DEF Owned, Sound
<1>2. Inj
  BY <1>1 DEF OncePlaced, Inj
<1>3. Kept = Inside \ Taken /\ Taken \subseteq InConfig
  BY DEF Kept, Taken
<1>4. Book
  BY <1>1, <1>3, BookTypes DEF Book, Owns, OncePlaced, Inside, Going
<1>5. QED
  BY <1>2, <1>4

LEMMA BookOwned ==
  ASSUME Assumptions, TypeOK', Sound' => (Inj' /\ Book')
  PROVE  Owned'
<1>1. SUFFICES ASSUME Sound'
      PROVE  /\ OncePlaced' /\ handles' = Kept' \cup refused' \cup forgotten'
             /\ pool' = handles' \cup ({back'.config} \ {None}) /\ back'.config \notin handles'
  BY DEF Owned, Sound
<1>2. Inj' /\ Book'
  BY <1>1
<1>3. Kept' = Inside' \ Taken'
  BY DEF Kept, Taken
<1>4. None \notin handles'
  <2>1. handles' \subseteq Sources \cup Streams
    BY DEF TypeOK
  <2>2. QED
    BY <2>1 DEF Assumptions, HandlesAssumption
<1>5. OncePlaced'
  BY <1>2 DEF Inj, Book, Owns, OncePlaced, Inside
<1>6. handles' = (Inside' \ Taken') \cup (refused' \cup forgotten')
  BY <1>2 DEF Book, Owns, Inside
<1>7. pool' = handles' \cup Going' /\ Going' \cap handles' = {}
  BY <1>2 DEF Book, Owns
<1>8. QED
  BY <1>3, <1>4, <1>5, <1>6, <1>7 DEF Going

\* a step that leaves every place as it is
LEMMA BookSame ==
  ASSUME Assumptions, TypeOK, TypeOK', Owned, Sound' => Sound,
         InQueue(1)' = InQueue(1), InQueue(2)' = InQueue(2), ToSet(m_fifo)' = ToSet(m_fifo), InHand' = InHand,
         ToSet(put)' = ToSet(put), InConfig' = InConfig, InBack' = InBack,
         UNCHANGED <<refused, forgotten, handles, pool>>, Going' = Going, Taken' = Taken,
         Inj => Inj'
  PROVE  Owned'
<1>1. Sound' => Inj /\ Book
  BY OwnedBook
<1>2. Book => Book'
  BY DEF Book
<1>3. QED
  BY <1>1, <1>2, BookOwned


\* the handles of a queue, when a handle or the end of the stream is appended,
\* the first one taken, or any one removed
LEMMA QueueHandles ==
  ASSUME Assumptions, NEW s \in Seq(Sources \cup {Eos}), IsInjective(s)
  PROVE  /\ \A h \in Sources : ToSet(Append(s, h)) \ {Eos} = (ToSet(s) \ {Eos}) \cup {h}
         /\ ToSet(Append(s, Eos)) \ {Eos} = ToSet(s) \ {Eos}
         /\ \A x \in Sources \cup {Eos} : x \notin ToSet(s) => IsInjective(Append(s, x))
         /\ s # <<>> => /\ Head(s) \in ToSet(s) /\ ToSet(Tail(s)) \ {Eos} = (ToSet(s) \ {Eos}) \ {Head(s)}
                        /\ IsInjective(Tail(s))
         /\ \A i \in DOMAIN s : /\ s[i] \in ToSet(s)
                                /\ ToSet(RemoveAt(s, i)) \ {Eos} = (ToSet(s) \ {Eos}) \ {s[i]}
                                /\ IsInjective(RemoveAt(s, i))
<1>0. Eos \notin Sources
  BY DEF Assumptions, HandlesAssumption
<1>1. ASSUME NEW x \in Sources \cup {Eos}
      PROVE  /\ ToSet(Append(s, x)) = ToSet(s) \cup {x}
             /\ x \notin ToSet(s) => IsInjective(Append(s, x))
  BY ElementsAppend
<1>2. ASSUME s # <<>>
      PROVE  Head(s) \in ToSet(s) /\ ToSet(Tail(s)) = ToSet(s) \ {Head(s)} /\ IsInjective(Tail(s))
  BY <1>2, ElementsTail
<1>3. ASSUME NEW i \in DOMAIN s
      PROVE  s[i] \in ToSet(s) /\ ToSet(RemoveAt(s, i)) = ToSet(s) \ {s[i]} /\ IsInjective(RemoveAt(s, i))
  BY ElementsRemove
<1>4. \A h \in Sources : ToSet(Append(s, h)) \ {Eos} = (ToSet(s) \ {Eos}) \cup {h}
  BY <1>0, <1>1
<1>5. ToSet(Append(s, Eos)) \ {Eos} = ToSet(s) \ {Eos}
  BY <1>1
<1>6. s # <<>> => /\ Head(s) \in ToSet(s) /\ ToSet(Tail(s)) \ {Eos} = (ToSet(s) \ {Eos}) \ {Head(s)}
                  /\ IsInjective(Tail(s))
  BY <1>2
<1>7. \A i \in DOMAIN s : /\ s[i] \in ToSet(s)
                          /\ ToSet(RemoveAt(s, i)) \ {Eos} = (ToSet(s) \ {Eos}) \ {s[i]}
                          /\ IsInjective(RemoveAt(s, i))
  BY <1>3
<1>8. QED
  BY <1>1, <1>4, <1>5, <1>6, <1>7

\* every handle of a place is in the pool
LEMMA BookPool ==
  ASSUME Book, Taken = {}
  PROVE  InQueue(1) \cup InQueue(2) \cup ToSet(m_fifo) \cup ToSet(put) \subseteq pool
BY DEF Book, Owns

LEMMA WorkersOwned ==
  ASSUME Assumptions, TypeOK, TypeOK', Config, Owned, Workers
  PROVE  Owned'
<1>0. HandlesAssumption /\ Eos \notin Sources /\ \A k \in 1..2 : queue[k] \in Seq(Sources \cup {Eos})
  BY EosTypes DEF Assumptions
<1>1. /\ Taken = {} /\ Taken' = {} /\ Going' = Going /\ InBack' = InBack /\ InHand' = InHand
      /\ m_fifo' = m_fifo /\ forgotten' = forgotten /\ (Sound' <=> Sound)
      /\ queue \in [1..2 -> Seq(Sources \cup {Eos})]
  <2>1. UNCHANGED <<main, back, worker, m_fifo, forgotten>> /\ main.pc = "out"
    BY DEF Workers, Empty, EmptyEos, Fill, SetTable, Working, Open, lookAhead, history
  <2>2. QED
    BY <2>1, EosTypes DEF Taken, Going, InBack, InHand, Sound
<1>2. SUFFICES ASSUME Sound, Inj, Book PROVE Inj' /\ Book'
  BY <1>1, OwnedBook, BookOwned
<1>3. Owns(InQueue(1), InQueue(2), ToSet(m_fifo), InHand, ToSet(put), InConfig, InBack,
           refused \cup forgotten, handles, pool, Going, {})
  BY <1>1, <1>2 DEF Book
<1>4. CASE UNCHANGED <<queue, put, configHandle, refused, handles, pool>>
  BY <1>1, <1>2, <1>3, <1>4 DEF Inj, Book, InQueue, InConfig
<1>5. ASSUME NEW h \in Sources, Empty(h) PROVE Inj' /\ Book'
  <2>1. /\ h \notin pool /\ UNCHANGED <<put, configHandle>>
        /\ handles' = handles \cup {h} /\ pool' = pool \cup {h}
    BY <1>5 DEF Empty, Use, config
  <2>2. InConfig' = InConfig /\ h \notin ToSet(queue[1]) /\ 1 \in 1..2
    BY <1>0, <1>1, <1>2, <2>1, BookPool DEF InConfig, InQueue
  <2>3. CASE queue' = [queue EXCEPT ![1] = Append(@, h)] /\ refused' = refused
    <3>1. queue'[1] = Append(queue[1], h) /\ queue'[2] = queue[2]
      BY <1>1, <2>3
    <3>2. InQueue(1)' = InQueue(1) \cup {h} /\ InQueue(2)' = InQueue(2) /\ IsInjective(queue'[1])
      BY <1>0, <1>2, <2>2, <3>1, QueueHandles DEF InQueue, Inj
    <3>3. Owns(InQueue(1) \cup {h}, InQueue(2), ToSet(m_fifo), InHand, ToSet(put), InConfig, InBack,
               refused \cup forgotten, handles \cup {h}, pool \cup {h}, Going, {})
      BY <1>0, <1>3, <2>1, OwnsNew
    <3>4. Book'
      BY <1>1, <2>1, <2>2, <2>3, <3>2, <3>3 DEF Book
    <3>5. QED
      BY <1>1, <1>2, <2>1, <3>1, <3>2, <3>4 DEF Inj
  <2>4. CASE queue' = queue /\ refused' = refused \cup {h}
    <3>1. Owns(InQueue(1), InQueue(2), ToSet(m_fifo), InHand, ToSet(put), InConfig, InBack,
               (refused \cup forgotten) \cup {h}, handles \cup {h}, pool \cup {h}, Going, {})
      BY <1>0, <1>3, <2>1, OwnsNew
    <3>2. refused' \cup forgotten' = (refused \cup forgotten) \cup {h}
      BY <1>1, <2>4
    <3>3. InQueue(1)' = InQueue(1) /\ InQueue(2)' = InQueue(2)
      BY <2>4 DEF InQueue
    <3>4. Book'
      BY <1>1, <2>1, <2>2, <3>1, <3>2, <3>3 DEF Book
    <3>5. QED
      BY <1>1, <1>2, <2>1, <2>4, <3>4 DEF Inj
  <2>5. QED
    BY <1>5, <2>3, <2>4 DEF Empty
<1>6. ASSUME EmptyEos PROVE Inj' /\ Book'
  <2>1. /\ queue' = [queue EXCEPT ![1] = Append(@, Eos)] /\ UNCHANGED <<put, configHandle, refused, handles, pool>>
        /\ ~Ended /\ 1 \in 1..2
    BY <1>6 DEF EmptyEos, maps, config, history
  <2>2. Eos \notin ToSet(queue[1])
    BY <2>1 DEF Ended
  <2>3. queue'[1] = Append(queue[1], Eos) /\ queue'[2] = queue[2]
    BY <1>1, <2>1
  <2>4. InQueue(1)' = InQueue(1) /\ InQueue(2)' = InQueue(2) /\ IsInjective(queue'[1])
    BY <1>0, <1>2, <2>1, <2>2, <2>3, QueueHandles DEF InQueue, Inj
  <2>5. InConfig' = InConfig
    BY <2>1 DEF InConfig
  <2>6. Book'
    BY <1>1, <1>3, <2>1, <2>4, <2>5 DEF Book
  <2>7. QED
    BY <1>1, <1>2, <2>1, <2>3, <2>4, <2>6 DEF Inj
<1>7. ASSUME NEW h \in Streams, Fill(h) PROVE Inj' /\ Book'
  <2>1. /\ h \notin pool /\ UNCHANGED <<queue, refused>>
        /\ \/ /\ configHandle = None /\ configHandle' = h /\ put' = put
              /\ handles' = handles \cup {h} /\ pool' = pool \cup {h}
           \/ /\ put' = Append(put, h) /\ configHandle' = configHandle
              /\ handles' = handles \cup {h} /\ pool' = pool \cup {h}
           \/ UNCHANGED <<put, configHandle, handles, pool>>
    BY <1>7 DEF Fill, Use, maps, history
  <2>2. InQueue(1)' = InQueue(1) /\ InQueue(2)' = InQueue(2)
    BY <2>1 DEF InQueue
  <2>3. CASE /\ configHandle = None /\ configHandle' = h /\ put' = put
             /\ handles' = handles \cup {h} /\ pool' = pool \cup {h}
    <3>1. InConfig = {} /\ InConfig' = {h}
      BY <1>0, <2>3 DEF InConfig, HandlesAssumption
    <3>2. Owns(InQueue(1), InQueue(2), ToSet(m_fifo), InHand, ToSet(put), {h}, InBack,
               refused \cup forgotten, handles \cup {h}, pool \cup {h}, Going, {})
      BY <1>0, <1>3, <2>1, <3>1, OwnsNew
    <3>3. Book'
      BY <1>1, <2>1, <2>2, <2>3, <3>1, <3>2 DEF Book
    <3>4. QED
      BY <1>1, <1>2, <2>1, <2>3, <3>3 DEF Inj
  <2>4. CASE /\ put' = Append(put, h) /\ configHandle' = configHandle
             /\ handles' = handles \cup {h} /\ pool' = pool \cup {h}
    <3>1. put \in Seq(Streams) /\ h \notin ToSet(put) /\ InConfig' = InConfig
      BY <1>1, <1>2, <2>1, <2>4, BookPool DEF TypeOK, InConfig
    <3>2. ToSet(Append(put, h)) = ToSet(put) \cup {h} /\ IsInjective(Append(put, h))
      BY <1>2, <3>1, ElementsAppend DEF Inj
    <3>3. Owns(InQueue(1), InQueue(2), ToSet(m_fifo), InHand, ToSet(put) \cup {h}, InConfig, InBack,
               refused \cup forgotten, handles \cup {h}, pool \cup {h}, Going, {})
      BY <1>0, <1>3, <2>1, OwnsNew
    <3>4. Book'
      BY <1>1, <2>1, <2>2, <2>4, <3>1, <3>2, <3>3 DEF Book
    <3>5. QED
      BY <1>1, <1>2, <2>1, <2>4, <3>2, <3>4 DEF Inj
  <2>5. CASE UNCHANGED <<put, configHandle, handles, pool>>
    BY <1>4, <2>1, <2>5
  <2>6. QED
    BY <2>1, <2>3, <2>4, <2>5
<1>8. ASSUME NEW t \in Tables, SetTable(t) PROVE Inj' /\ Book'
  BY <1>4, <1>8 DEF SetTable, library, maps, config, history
<1>9. QED
  BY <1>5, <1>6, <1>7, <1>8 DEF Workers


LEMMA EndEncodingOwned ==
  ASSUME Assumptions, TypeOK, TypeOK', Hands, Config, Owned, EndEncoding
  PROVE  Owned'
<1>0. /\ HandlesAssumption /\ Eos \notin Sources /\ None \notin Sources /\ None \notin Streams
      /\ \A k \in 1..2 : queue[k] \in Seq(Sources \cup {Eos})
      /\ queue \in [1..2 -> Seq(Sources \cup {Eos})] /\ put \in Seq(Streams) /\ back \in CallbackSteps
      /\ LastPass \in 1..2
  BY EosTypes, PassesFacts DEF Assumptions, HandlesAssumption, TypeOK
<1>1. /\ InHand' = InHand /\ m_fifo' = m_fifo /\ forgotten' = forgotten /\ refused' = refused
      /\ main' = main /\ (Sound' => Sound)
  BY DEF EndEncoding, Finish, FinishEos, LockConfig, TakeConfig, GiveConfig, GiveData, lookAhead, history, InHand, Sound
<1>2. SUFFICES ASSUME Sound', Sound, Inj, Book PROVE Inj' /\ Book'
  BY <1>1, OwnedBook, BookOwned
<1>3. Owns(InQueue(1), InQueue(2), ToSet(m_fifo), InHand, ToSet(put), InConfig, InBack,
           refused \cup forgotten, handles, pool, Going, Taken)
  BY <1>2 DEF Book
<1>4. ASSUME NEW hasConfig \in BOOLEAN, NEW end \in BOOLEAN, Finish(hasConfig, end) PROVE Inj' /\ Book'
  <2>1. /\ back.pc = "out" /\ queue[LastPass] # <<>> /\ Head(queue[LastPass]) # Eos /\ put # <<>>
        /\ UNCHANGED <<handles, pool, configHandle>> /\ put' = Tail(put)
        /\ queue' = IF end THEN [queue EXCEPT ![LastPass] = Tail(@)] ELSE queue
        /\ back'.source = Head(queue[LastPass]) /\ back'.stream = Head(put) /\ back'.config = None
        /\ back'.end = end
    BY <1>4 DEF Finish, maps, config
  <2>2. PICK x, y : x = Head(queue[LastPass]) /\ y = Head(put)
    OBVIOUS
  <2>3. /\ x \in Sources /\ x \in ToSet(queue[LastPass]) \ {Eos} /\ IsInjective(Tail(queue[LastPass]))
        /\ ToSet(Tail(queue[LastPass])) \ {Eos} = (ToSet(queue[LastPass]) \ {Eos}) \ {x}
    <3>1. queue[LastPass] \in Seq(Sources \cup {Eos}) /\ IsInjective(queue[LastPass])
      BY <1>0, <1>2 DEF Inj
    <3>2. /\ Head(queue[LastPass]) \in ToSet(queue[LastPass])
          /\ ToSet(Tail(queue[LastPass])) \ {Eos} = (ToSet(queue[LastPass]) \ {Eos}) \ {Head(queue[LastPass])}
          /\ IsInjective(Tail(queue[LastPass]))
      BY <2>1, <3>1, QueueHandles
    <3>3. ToSet(queue[LastPass]) \subseteq Sources \cup {Eos}
      BY <3>1, ElementsType
    <3>4. QED
      BY <2>1, <2>2, <3>2, <3>3
  <2>4. /\ y \in ToSet(put) /\ y \in Streams /\ ToSet(put') = ToSet(put) \ {y} /\ IsInjective(put')
    <3>1. Head(put) \in ToSet(put) /\ ToSet(Tail(put)) = ToSet(put) \ {Head(put)} /\ IsInjective(Tail(put))
      BY <1>0, <1>2, <2>1, ElementsTail DEF Inj
    <3>2. Head(put) \in Streams
      BY <1>0, <3>1, ElementsType
    <3>3. QED
      BY <2>1, <2>2, <3>1, <3>2
  <2>5. InBack = {} /\ Going = {} /\ Going' = {} /\ InConfig' = InConfig /\ Taken' = Taken
        /\ InBack' = IF end THEN {x, y} ELSE {y}
    BY <1>0, <1>1, <2>1, <2>2, <2>3, <2>4 DEF Hands, NoCallback, InBack, Going, InConfig, Taken
  <2>6. CASE ~end
    <3>1. InQueue(1)' = InQueue(1) /\ InQueue(2)' = InQueue(2) /\ queue' = queue
      BY <2>1, <2>6 DEF InQueue
    <3>2. Owns(InQueue(1), InQueue(2), ToSet(m_fifo), InHand, ToSet(put) \ {y}, InConfig, {y},
               refused \cup forgotten, handles, pool, Going, Taken)
      BY <1>0, <1>3, <2>4, <2>5, OwnsCallback
    <3>3. Book'
      BY <1>1, <2>1, <2>4, <2>5, <2>6, <3>1, <3>2 DEF Book
    <3>4. QED
      BY <1>1, <1>2, <2>4, <3>1, <3>3 DEF Inj
  <2>7. CASE end /\ LastPass = 1
    <3>1. queue'[1] = Tail(queue[1]) /\ queue'[2] = queue[2]
      BY <1>0, <2>1, <2>7
    <3>2. InQueue(1)' = InQueue(1) \ {x} /\ InQueue(2)' = InQueue(2) /\ x \in InQueue(1)
      BY <2>3, <2>7, <3>1 DEF InQueue
    <3>3. Owns(InQueue(1) \ {x}, InQueue(2), ToSet(m_fifo), InHand, ToSet(put) \ {y}, InConfig, {x, y},
               refused \cup forgotten, handles, pool, Going, Taken)
      BY <1>0, <1>3, <2>4, <2>5, <3>2, OwnsCallback
    <3>4. Book'
      BY <1>1, <2>1, <2>4, <2>5, <2>7, <3>2, <3>3 DEF Book
    <3>5. QED
      BY <1>1, <1>2, <2>3, <2>4, <2>7, <3>1, <3>4 DEF Inj
  <2>8. CASE end /\ LastPass = 2
    <3>1. queue'[2] = Tail(queue[2]) /\ queue'[1] = queue[1]
      BY <1>0, <2>1, <2>8
    <3>2. InQueue(2)' = InQueue(2) \ {x} /\ InQueue(1)' = InQueue(1) /\ x \in InQueue(2)
      BY <2>3, <2>8, <3>1 DEF InQueue
    <3>3. Owns(InQueue(1), InQueue(2) \ {x}, ToSet(m_fifo), InHand, ToSet(put) \ {y}, InConfig, {x, y},
               refused \cup forgotten, handles, pool, Going, Taken)
      BY <1>0, <1>3, <2>4, <2>5, <3>2, OwnsCallback
    <3>4. Book'
      BY <1>1, <2>1, <2>4, <2>5, <2>8, <3>2, <3>3 DEF Book
    <3>5. QED
      BY <1>1, <1>2, <2>3, <2>4, <2>8, <3>1, <3>4 DEF Inj
  <2>9. QED
    BY <1>0, <2>6, <2>7, <2>8
<1>5. ASSUME FinishEos PROVE Inj' /\ Book'
  <2>1. /\ queue[LastPass] # <<>> /\ Head(queue[LastPass]) = Eos
        /\ queue' = [queue EXCEPT ![LastPass] = Tail(@)] /\ UNCHANGED <<put, handles, pool, configHandle, back>>
    BY <1>5 DEF FinishEos, maps, config
  <2>2. IsInjective(Tail(queue[LastPass])) /\ ToSet(Tail(queue[LastPass])) \ {Eos} = ToSet(queue[LastPass]) \ {Eos}
    <3>1. queue[LastPass] \in Seq(Sources \cup {Eos}) /\ IsInjective(queue[LastPass])
      BY <1>0, <1>2 DEF Inj
    <3>2. /\ ToSet(Tail(queue[LastPass])) \ {Eos} = (ToSet(queue[LastPass]) \ {Eos}) \ {Head(queue[LastPass])}
          /\ IsInjective(Tail(queue[LastPass]))
      BY <2>1, <3>1, QueueHandles
    <3>3. QED
      BY <2>1, <3>2
  <2>3. \A k \in 1..2 : queue'[k] = IF k = LastPass THEN Tail(queue[k]) ELSE queue[k]
    BY <1>0, <2>1
  <2>4. 1 \in 1..2 /\ 2 \in 1..2
    OBVIOUS
  <2>5. /\ InQueue(1)' = InQueue(1) /\ InQueue(2)' = InQueue(2) /\ IsInjective(queue'[1]) /\ IsInjective(queue'[2])
    BY <1>2, <2>2, <2>3, <2>4 DEF InQueue, Inj
  <2>6. InConfig' = InConfig /\ Taken' = Taken /\ InBack' = InBack /\ Going' = Going
    BY <1>1, <2>1 DEF InConfig, Taken, InBack, Going
  <2>7. Book'
    BY <1>1, <1>3, <2>1, <2>5, <2>6 DEF Book
  <2>8. QED
    BY <1>1, <1>2, <2>1, <2>5, <2>7 DEF Inj
<1>6. ASSUME UNCHANGED <<queue, put>> PROVE Inj' /\ InQueue(1)' = InQueue(1) /\ InQueue(2)' = InQueue(2)
  BY <1>1, <1>2, <1>6 DEF Inj, InQueue
<1>7. ASSUME LockConfig PROVE Inj' /\ Book'
  <2>1. UNCHANGED <<queue, put, handles, pool, configHandle>> /\ back' = [back EXCEPT !.pc = "wait"]
    BY <1>7 DEF LockConfig, maps, library
  <2>2. InConfig' = InConfig /\ Taken' = Taken /\ InBack' = InBack /\ Going' = Going
    BY <1>0, <1>1, <2>1 DEF InConfig, Taken, InBack, Going, CallbackSteps
  <2>3. Book'
    BY <1>1, <1>3, <1>6, <2>1, <2>2 DEF Book
  <2>4. QED
    BY <1>6, <2>1, <2>3
<1>8. ASSUME TakeConfig PROVE Inj' /\ Book'
  <2>1. /\ UNCHANGED <<queue, put, pool>> /\ handles' = handles \ {configHandle} /\ back.pc = "wait" /\ sem > 0
        /\ back' = [back EXCEPT !.pc = IF configHandle \in handles THEN "config" ELSE "null", !.config = configHandle]
        /\ configHandle' = None
    BY <1>8 DEF TakeConfig, library
  <2>2. configHandle # None /\ configHandle \in handles /\ back.config = None
    BY <1>0, <1>2, <2>1 DEF Config, Hands, Sound, CallbackSteps
  <2>3. /\ InConfig = {configHandle} /\ InConfig' = {} /\ Going = {} /\ Going' = {configHandle}
        /\ InBack' = InBack /\ Taken' = {}
    BY <1>0, <1>1, <2>1, <2>2 DEF InConfig, Going, InBack, Taken, CallbackSteps
  <2>4. Owns(InQueue(1), InQueue(2), ToSet(m_fifo), InHand, ToSet(put), {}, InBack,
             refused \cup forgotten, handles \ {configHandle}, pool, {configHandle}, {})
    BY <1>0, <1>3, <2>2, <2>3, OwnsConfig
  <2>5. Book'
    BY <1>1, <1>6, <2>1, <2>3, <2>4 DEF Book
  <2>6. QED
    BY <1>6, <2>1, <2>5
<1>9. ASSUME GiveConfig PROVE Inj' /\ Book'
  <2>1. /\ UNCHANGED <<queue, put, handles, configHandle>> /\ pool' = pool \ {back.config}
        /\ back.pc = "config" /\ back' = [back EXCEPT !.pc = "data", !.config = None]
    BY <1>9 DEF GiveConfig, Unuse, library, config
  <2>2. Going' = {} /\ InConfig' = InConfig /\ InBack' = InBack /\ Taken' = Taken
    BY <1>0, <1>1, <2>1 DEF Going, InConfig, InBack, Taken, CallbackSteps
  <2>3. pool' = pool \ Going
    <3>1. None \notin pool
      BY <1>0 DEF TypeOK
    <3>2. QED
      BY <2>1, <3>1 DEF Going
  <2>4. Owns(InQueue(1), InQueue(2), ToSet(m_fifo), InHand, ToSet(put), InConfig, InBack,
             refused \cup forgotten, handles, pool \ Going, {}, Taken)
    BY <1>0, <1>3, OwnsConfig
  <2>5. Book'
    BY <1>1, <1>6, <2>1, <2>2, <2>3, <2>4 DEF Book
  <2>6. QED
    BY <1>6, <2>1, <2>5
<1>10. ASSUME GiveData PROVE Inj' /\ Book'
  <2>1. /\ UNCHANGED <<queue, put, configHandle>> /\ back.pc = "data" /\ back' = NoCallback
        /\ handles' = handles \ ({back.stream} \cup (IF back.end THEN {back.source} ELSE {}))
        /\ pool' = pool \ ({back.stream} \cup (IF back.end THEN {back.source} ELSE {}))
    BY <1>10 DEF GiveData, Unuse, library, config
  <2>2. back.config = None /\ back.source \in Sources /\ back.stream \in Streams
    BY <2>1 DEF Hands
  <2>3. /\ InBack = {back.stream} \cup (IF back.end THEN {back.source} ELSE {}) /\ Going = {}
    BY <1>0, <2>2 DEF InBack, Going
  <2>4. InBack' = {} /\ Going' = {} /\ InConfig' = InConfig /\ Taken' = Taken
    BY <1>1, <2>1 DEF InBack, Going, NoCallback, InConfig, Taken
  <2>5. Owns(InQueue(1), InQueue(2), ToSet(m_fifo), InHand, ToSet(put), InConfig, {},
             refused \cup forgotten, handles \ InBack, pool \ InBack, Going, Taken)
    BY <1>0, <1>3, <2>3, OwnsCallback
  <2>6. Book'
    BY <1>1, <1>6, <2>1, <2>3, <2>4, <2>5 DEF Book
  <2>7. QED
    BY <1>6, <2>1, <2>6
<1>11. QED
  BY <1>4, <1>5, <1>7, <1>8, <1>9, <1>10 DEF EndEncoding


LEMMA LookAheadOwned ==
  ASSUME Assumptions, TypeOK, TypeOK', Phase, Hands, EosLast, Owned, LookAheadWorker
  PROVE  Owned'
<1>0. /\ HandlesAssumption /\ Eos \notin Sources /\ None \notin Sources
      /\ \A k \in 1..2 : queue[k] \in Seq(Sources \cup {Eos})
      /\ queue \in [1..2 -> Seq(Sources \cup {Eos})] /\ m_fifo \in Seq(Sources) /\ worker \in WorkerSteps
  BY EosTypes DEF Assumptions, TypeOK
<1>1. /\ InBack' = InBack /\ Going' = Going /\ InConfig' = InConfig /\ Taken' = Taken /\ put' = put
      /\ UNCHANGED <<refused, forgotten, handles, pool>> /\ (Sound' => Sound)
  <2>1. UNCHANGED <<back, configHandle, main, put, refused, forgotten, handles, pool>>
    BY DEF LookAheadWorker, EndEncodingLookAhead, WorkerTake, WorkerProcess, config, maps, library, history
  <2>2. worker.pc = "late" => worker'.pc = "late"
    BY DEF LookAheadWorker, EndEncodingLookAhead, WorkerTake, WorkerProcess
  <2>3. QED
    BY <2>1, <2>2 DEF InBack, Going, InConfig, Taken, Sound
<1>2. SUFFICES ASSUME Sound', Sound, Inj, Book PROVE Inj' /\ Book'
  BY <1>1, OwnedBook, BookOwned
<1>3. Owns(InQueue(1), InQueue(2), ToSet(m_fifo), InHand, ToSet(put), InConfig, InBack,
           refused \cup forgotten, handles, pool, Going, Taken)
  BY <1>2 DEF Book
<1>4. ASSUME EndEncodingLookAhead PROVE Inj' /\ Book'
  <2>1. /\ queue[1] # <<>> /\ queue' = [queue EXCEPT ![1] = Tail(@)] /\ UNCHANGED worker
        /\ m_fifo' = IF Head(queue[1]) = Eos THEN m_fifo ELSE Append(m_fifo, Head(queue[1]))
    BY <1>4 DEF EndEncodingLookAhead
  <2>2. PICK x : x = Head(queue[1])
    OBVIOUS
  <2>3. queue'[1] = Tail(queue[1]) /\ queue'[2] = queue[2] /\ InHand' = InHand
    BY <1>0, <2>1 DEF InHand
  <2>4. /\ x \in ToSet(queue[1]) /\ IsInjective(Tail(queue[1])) /\ x \in Sources \cup {Eos}
        /\ ToSet(Tail(queue[1])) \ {Eos} = (ToSet(queue[1]) \ {Eos}) \ {x}
    <3>1. queue[1] \in Seq(Sources \cup {Eos}) /\ IsInjective(queue[1])
      BY <1>0, <1>2 DEF Inj
    <3>2. /\ Head(queue[1]) \in ToSet(queue[1])
          /\ ToSet(Tail(queue[1])) \ {Eos} = (ToSet(queue[1]) \ {Eos}) \ {Head(queue[1])}
          /\ IsInjective(Tail(queue[1]))
      BY <2>1, <3>1, QueueHandles
    <3>3. ToSet(queue[1]) \subseteq Sources \cup {Eos}
      BY <3>1, ElementsType
    <3>4. QED
      BY <2>2, <3>2, <3>3
  <2>5. CASE x = Eos
    <3>1. InQueue(1)' = InQueue(1) /\ InQueue(2)' = InQueue(2) /\ m_fifo' = m_fifo
      BY <2>1, <2>2, <2>3, <2>4, <2>5 DEF InQueue
    <3>2. Book'
      BY <1>1, <1>3, <2>3, <3>1 DEF Book
    <3>3. QED
      BY <1>1, <1>2, <2>3, <2>4, <3>1, <3>2 DEF Inj
  <2>6. CASE x # Eos
    <3>1. InQueue(1)' = InQueue(1) \ {x} /\ InQueue(2)' = InQueue(2) /\ x \in InQueue(1) /\ x \in Sources
      BY <2>3, <2>4, <2>6 DEF InQueue
    <3>2. x \notin ToSet(m_fifo)
      BY <1>3, <3>1 DEF Owns
    <3>3. ToSet(m_fifo') = ToSet(m_fifo) \cup {x} /\ IsInjective(m_fifo')
      <4>1. m_fifo' = Append(m_fifo, x)
        BY <2>1, <2>2, <2>6
      <4>2. ToSet(Append(m_fifo, x)) = ToSet(m_fifo) \cup {x} /\ IsInjective(Append(m_fifo, x))
        BY <1>0, <1>2, <3>1, <3>2, ElementsAppend DEF Inj
      <4>3. QED
        BY <4>1, <4>2
    <3>4. Owns(InQueue(1) \ {x}, InQueue(2), ToSet(m_fifo) \cup {x}, InHand, ToSet(put), InConfig, InBack,
               refused \cup forgotten, handles, pool, Going, Taken)
      BY <1>0, <1>3, <3>1, OwnsMoved
    <3>5. Book'
      BY <1>1, <2>3, <3>1, <3>3, <3>4 DEF Book
    <3>6. QED
      BY <1>1, <1>2, <2>3, <2>4, <3>3, <3>5 DEF Inj
  <2>7. QED
    BY <2>5, <2>6
<1>5. ASSUME WorkerTake PROVE Inj' /\ Book'
  <2>1. UNCHANGED queue /\ worker.hand = None /\ media.la \in Nat \ {0}
    BY <1>5, TakenTask DEF WorkerTake, Hands, library
  <2>2. PICK isEOS \in BOOLEAN : EmptyFifoFrom(isEOS)
    BY <1>5, TakenTask
  <2>3. \/ m_fifo' = m_fifo /\ worker'.hand \in {None, Eos}
        \/ m_fifo # <<>> /\ m_fifo' = Tail(m_fifo) /\ worker'.hand = Head(m_fifo) /\ Head(m_fifo) \in Sources
    BY <2>1, <2>2, EmptyFifoFacts
  <2>4. InHand = {} /\ InQueue(1)' = InQueue(1) /\ InQueue(2)' = InQueue(2)
    BY <2>1 DEF InHand, InQueue
  <2>5. CASE m_fifo' = m_fifo /\ worker'.hand \in {None, Eos}
    <3>1. InHand' = {}
      BY <2>5 DEF InHand
    <3>2. Book'
      BY <1>1, <1>3, <2>4, <2>5, <3>1 DEF Book
    <3>3. QED
      BY <1>1, <1>2, <2>1, <2>5, <3>2 DEF Inj
  <2>6. CASE m_fifo # <<>> /\ m_fifo' = Tail(m_fifo) /\ worker'.hand = Head(m_fifo) /\ Head(m_fifo) \in Sources
    <3>1. PICK x : x = Head(m_fifo)
      OBVIOUS
    <3>2. /\ x \in ToSet(m_fifo) /\ ToSet(m_fifo') = ToSet(m_fifo) \ {x} /\ IsInjective(m_fifo')
      <4>1. Head(m_fifo) \in ToSet(m_fifo) /\ ToSet(Tail(m_fifo)) = ToSet(m_fifo) \ {Head(m_fifo)}
            /\ IsInjective(Tail(m_fifo))
        BY <1>0, <1>2, <2>6, ElementsTail DEF Inj
      <4>2. QED
        BY <2>6, <3>1, <4>1
    <3>3. InHand' = {x}
      BY <1>0, <2>6, <3>1 DEF InHand
    <3>4. Owns(InQueue(1), InQueue(2), ToSet(m_fifo) \ {x}, {x}, ToSet(put), InConfig, InBack,
               refused \cup forgotten, handles, pool, Going, Taken)
      BY <1>0, <1>3, <2>4, <3>2, OwnsMoved
    <3>5. Book'
      BY <1>1, <2>4, <3>2, <3>3, <3>4 DEF Book
    <3>6. QED
      BY <1>1, <1>2, <2>1, <3>2, <3>5 DEF Inj
  <2>7. QED
    BY <2>3, <2>5, <2>6
<1>6. ASSUME WorkerProcess PROVE Inj' /\ Book'
  <2>1. /\ worker.pc \in {"process", "processAgain"} /\ worker'.hand = None /\ UNCHANGED m_fifo
        /\ queue' = [queue EXCEPT ![2] = IF 2 \in alive THEN Append(@, worker.hand) ELSE @]
        /\ 2 \notin alive => worker'.pc = "late"
    <3>1. /\ worker.pc \in {"process", "processAgain"} /\ UNCHANGED m_fifo
          /\ queue' = [queue EXCEPT ![2] = IF 2 \in alive THEN Append(@, worker.hand) ELSE @]
      BY <1>6 DEF WorkerProcess
    <3>2. worker'.hand = None
      BY <1>6 DEF WorkerProcess
    <3>3. 2 \notin alive => worker'.pc = "late"
      BY <1>6 DEF WorkerProcess
    <3>4. QED
      BY <3>1, <3>2, <3>3
  <2>2. PICK x : x = worker.hand
    OBVIOUS
  <2>3. 2 \in alive /\ x \in Sources \cup {Eos} /\ InHand' = {}
    BY <1>0, <1>2, <2>1, <2>2 DEF Sound, Hands, WorkerSteps, InHand
  <2>4. queue'[2] = Append(queue[2], x) /\ queue'[1] = queue[1] /\ InQueue(1)' = InQueue(1)
    BY <1>0, <2>1, <2>2, <2>3 DEF InQueue
  <2>5. queue[2] \in Seq(Sources \cup {Eos}) /\ IsInjective(queue[2])
    BY <1>0, <1>2 DEF Inj
  <2>6. CASE x = Eos
    <3>1. Eos \notin ToSet(queue[2]) /\ InHand = {}
      BY <2>2, <2>6 DEF EosLast, InHand
    <3>2. InQueue(2)' = InQueue(2) /\ IsInjective(queue'[2])
      <4>1. ToSet(Append(queue[2], Eos)) \ {Eos} = ToSet(queue[2]) \ {Eos} /\ IsInjective(Append(queue[2], Eos))
        BY <2>5, <3>1, QueueHandles
      <4>2. QED
        BY <2>4, <2>6, <4>1 DEF InQueue
    <3>3. Book'
      BY <1>1, <1>3, <2>1, <2>3, <2>4, <3>1, <3>2 DEF Book
    <3>4. QED
      BY <1>1, <1>2, <2>1, <2>4, <3>2, <3>3 DEF Inj
  <2>7. CASE x # Eos
    <3>1. x \in Sources /\ InHand = {x}
      BY <1>0, <2>2, <2>3, <2>7 DEF InHand
    <3>2. x \notin ToSet(queue[2])
      BY <1>3, <2>7, <3>1 DEF Owns, InQueue
    <3>3. InQueue(2)' = InQueue(2) \cup {x} /\ IsInjective(queue'[2])
      <4>1. ToSet(Append(queue[2], x)) \ {Eos} = (ToSet(queue[2]) \ {Eos}) \cup {x} /\ IsInjective(Append(queue[2], x))
        BY <2>5, <3>1, <3>2, QueueHandles
      <4>2. QED
        BY <2>4, <4>1 DEF InQueue
    <3>4. Owns(InQueue(1), InQueue(2) \cup {x}, ToSet(m_fifo), {}, ToSet(put), InConfig, InBack,
               refused \cup forgotten, handles, pool, Going, Taken)
      BY <1>0, <1>3, <3>1, OwnsMoved
    <3>5. Book'
      BY <1>1, <2>1, <2>3, <2>4, <3>3, <3>4 DEF Book
    <3>6. QED
      BY <1>1, <1>2, <2>1, <2>4, <3>3, <3>5 DEF Inj
  <2>8. QED
    BY <2>6, <2>7
<1>7. QED
  BY <1>4, <1>5, <1>6 DEF LookAheadWorker

LEMMA MainOwned ==
  ASSUME Assumptions, TypeOK, TypeOK', Phase, Config, Owned, Main
  PROVE  Owned'
<1>0. /\ HandlesAssumption /\ Eos \notin Sources /\ None \notin Sources /\ None \notin Streams
      /\ \A k \in 1..2 : queue[k] \in Seq(Sources \cup {Eos})
      /\ queue \in [1..2 -> Seq(Sources \cup {Eos})] /\ put \in Seq(Streams) /\ main \in MainSteps
      /\ None \notin handles /\ None \notin pool /\ Passes \in 1..2 /\ LastPass = Passes
  BY EosTypes, PassesFacts DEF Assumptions, HandlesAssumption, TypeOK
<1>1. /\ InBack' = InBack /\ Going' = Going /\ InHand' = InHand /\ (Sound' => Sound) /\ refused' = refused
  <2>1. UNCHANGED <<back, worker, refused>>
    BY DEF Main, Start, StartAgain, CreateEncoder, Stop, StopSteps, ReleaseConfig, ResetConfig, ReleaseSource,
           ReleaseStream, DestroyPass, Clear, lookAhead, history
  <2>2. QED
    BY <2>1 DEF InBack, Going, InHand, Sound
<1>2. SUFFICES ASSUME Sound', Sound, Inj, Book PROVE Inj' /\ Book'
  BY <1>1, OwnedBook, BookOwned
<1>3. Owns(InQueue(1), InQueue(2), ToSet(m_fifo), InHand, ToSet(put), InConfig, InBack,
           refused \cup forgotten, handles, pool, Going, Taken)
  BY <1>2 DEF Book
<1>4. ASSUME UNCHANGED <<queue, m_fifo, put>> PROVE Inj' /\ InQueue(1)' = InQueue(1) /\ InQueue(2)' = InQueue(2)
  BY <1>2, <1>4 DEF Inj, InQueue
<1>5. ASSUME UNCHANGED <<queue, m_fifo, put, configHandle, forgotten, handles, pool>>,
             main.pc # "reset", main'.pc # "reset"
      PROVE  Inj' /\ Book'
  <2>1. InConfig' = InConfig /\ Taken' = Taken
    BY <1>5 DEF InConfig, Taken
  <2>2. Book'
    BY <1>1, <1>3, <1>4, <1>5, <2>1 DEF Book
  <2>3. QED
    BY <1>4, <1>5, <2>2
<1>6. ASSUME NEW created \in 0..Passes, Start(created) \/ StartAgain(created) PROVE Inj' /\ Book'
  <2>1. UNCHANGED <<queue, m_fifo, put, configHandle, forgotten, handles, pool>>
    BY <1>6 DEF Start, StartAgain, CreateEncoder, maps, config, lookAhead, history
  <2>2. main.pc # "reset" /\ main'.pc # "reset"
    BY <1>0, <1>6 DEF Start, StartAgain, MainSteps
  <2>3. QED
    BY <1>5, <2>1, <2>2
<1>7. ASSUME NEW again \in BOOLEAN, Stop(again) PROVE Inj' /\ Book'
  <2>1. UNCHANGED <<queue, m_fifo, put, configHandle, forgotten, handles, pool>>
    BY <1>7 DEF Stop, library, maps, config, lookAhead
  <2>2. main.pc # "reset" /\ main'.pc # "reset"
    BY <1>7 DEF Stop
  <2>3. QED
    BY <1>5, <2>1, <2>2
<1>8. ASSUME Clear PROVE Inj' /\ Book'
  <2>1. UNCHANGED <<queue, m_fifo, put, configHandle, forgotten, handles, pool>>
    BY <1>8 DEF Clear, library, maps, config, history
  <2>2. main.pc # "reset" /\ main'.pc # "reset"
    BY <1>0, <1>8 DEF Clear, MainSteps
  <2>3. QED
    BY <1>5, <2>1, <2>2
<1>9. ASSUME ReleaseConfig PROVE Inj' /\ Book'
  <2>1. /\ UNCHANGED <<queue, m_fifo, put, configHandle, forgotten>> /\ main.pc = "release"
        /\ main'.pc = IF configHandle = None THEN "destroy" ELSE "reset"
        /\ handles' = handles \ {configHandle} /\ pool' = pool \ {configHandle}
    BY <1>0, <1>9 DEF ReleaseConfig, ReleaseBuf, library, config, lookAhead, history, MainSteps
  <2>2. Taken = {} /\ InConfig' = InConfig
    BY <2>1 DEF Taken, InConfig
  <2>3. CASE configHandle = None
    <3>1. handles' = handles /\ pool' = pool
      BY <1>0, <2>1, <2>3
    <3>2. QED
      BY <1>5, <2>1, <2>3, <3>1
  <2>4. CASE configHandle # None
    <3>1. InConfig = {configHandle} /\ Taken' = InConfig
      BY <2>1, <2>4 DEF InConfig, Taken
    <3>2. Owns(InQueue(1), InQueue(2), ToSet(m_fifo), InHand, ToSet(put), InConfig, InBack,
               refused \cup forgotten, handles \ {configHandle}, pool \ {configHandle}, Going, InConfig)
      BY <1>0, <1>3, <2>2, <3>1, OwnsConfig
    <3>3. Book'
      BY <1>1, <1>4, <2>1, <2>2, <3>1, <3>2 DEF Book
    <3>4. QED
      BY <1>4, <2>1, <3>3
  <2>5. QED
    BY <2>3, <2>4
<1>10. ASSUME ResetConfig PROVE Inj' /\ Book'
  <2>1. /\ UNCHANGED <<queue, m_fifo, put, forgotten, handles, pool>> /\ main.pc = "reset"
        /\ main'.pc = "destroy" /\ configHandle' = None
    BY <1>0, <1>10 DEF ResetConfig, library, maps, lookAhead, history, MainSteps
  <2>2. Taken = InConfig /\ Taken' = {} /\ InConfig' = {}
    BY <2>1 DEF Taken, InConfig
  <2>3. Owns(InQueue(1), InQueue(2), ToSet(m_fifo), InHand, ToSet(put), {}, InBack,
             refused \cup forgotten, handles, pool, Going, {})
    BY <1>0, <1>3, <2>2, OwnsConfig
  <2>4. Book'
    BY <1>1, <1>4, <2>1, <2>2, <2>3 DEF Book
  <2>5. QED
    BY <1>4, <2>1, <2>4
<1>11. ASSUME NEW k \in 1..2, ReleaseSource(k) PROVE Inj' /\ Book'
  <2>1. PICK i \in DOMAIN queue[k] :
          /\ queue[k][i] # Eos
          /\ queue' = [queue EXCEPT ![k] = RemoveAt(@, i)]
          /\ handles' = handles \ {queue[k][i]} /\ pool' = pool \ {queue[k][i]}
    BY <1>11 DEF ReleaseSource, ReleaseBuf
  <2>2. /\ UNCHANGED <<m_fifo, put, configHandle, forgotten, main>>
    BY <1>11 DEF ReleaseSource, config, lookAhead, history
  <2>3. PICK x : x = queue[k][i]
    OBVIOUS
  <2>4. /\ x \in ToSet(queue[k]) \ {Eos} /\ IsInjective(RemoveAt(queue[k], i))
        /\ ToSet(RemoveAt(queue[k], i)) \ {Eos} = (ToSet(queue[k]) \ {Eos}) \ {x}
    <3>1. queue[k] \in Seq(Sources \cup {Eos}) /\ IsInjective(queue[k])
      BY <1>0, <1>2 DEF Inj
    <3>2. QED
      BY <2>1, <2>3, <3>1, QueueHandles
  <2>5. InConfig' = InConfig /\ Taken' = Taken
    BY <2>2 DEF InConfig, Taken
  <2>6. CASE k = 1
    <3>1. queue'[1] = RemoveAt(queue[1], i) /\ queue'[2] = queue[2]
      BY <1>0, <2>1, <2>6
    <3>2. InQueue(1)' = InQueue(1) \ {x} /\ InQueue(2)' = InQueue(2) /\ x \in InQueue(1)
      BY <2>4, <2>6, <3>1 DEF InQueue
    <3>3. Owns(InQueue(1) \ {x}, InQueue(2), ToSet(m_fifo), InHand, ToSet(put), InConfig, InBack,
               refused \cup forgotten, handles \ {x}, pool \ {x}, Going, Taken)
      BY <1>0, <1>3, <3>2, OwnsReleased
    <3>4. Book'
      BY <1>1, <2>1, <2>2, <2>3, <2>5, <3>2, <3>3 DEF Book
    <3>5. QED
      BY <1>2, <2>2, <2>4, <2>6, <3>1, <3>4 DEF Inj
  <2>7. CASE k = 2
    <3>1. queue'[2] = RemoveAt(queue[2], i) /\ queue'[1] = queue[1]
      BY <1>0, <2>1, <2>7
    <3>2. InQueue(2)' = InQueue(2) \ {x} /\ InQueue(1)' = InQueue(1) /\ x \in InQueue(2)
      BY <2>4, <2>7, <3>1 DEF InQueue
    <3>3. Owns(InQueue(1), InQueue(2) \ {x}, ToSet(m_fifo), InHand, ToSet(put), InConfig, InBack,
               refused \cup forgotten, handles \ {x}, pool \ {x}, Going, Taken)
      BY <1>0, <1>3, <3>2, OwnsReleased
    <3>4. Book'
      BY <1>1, <2>1, <2>2, <2>3, <2>5, <3>2, <3>3 DEF Book
    <3>5. QED
      BY <1>2, <2>2, <2>4, <2>7, <3>1, <3>4 DEF Inj
  <2>8. QED
    BY <2>6, <2>7
<1>12. ASSUME ReleaseStream PROVE Inj' /\ Book'
  <2>1. /\ UNCHANGED <<queue, m_fifo, configHandle, forgotten, main>> /\ put # <<>> /\ put' = Tail(put)
        /\ handles' = handles \ {Head(put)} /\ pool' = pool \ {Head(put)}
    BY <1>12 DEF ReleaseStream, ReleaseBuf, config, lookAhead, history
  <2>2. PICK y : y = Head(put)
    OBVIOUS
  <2>3. y \in ToSet(put) /\ ToSet(put') = ToSet(put) \ {y} /\ IsInjective(put')
    <3>1. Head(put) \in ToSet(put) /\ ToSet(Tail(put)) = ToSet(put) \ {Head(put)} /\ IsInjective(Tail(put))
      BY <1>0, <1>2, <2>1, ElementsTail DEF Inj
    <3>2. QED
      BY <2>1, <2>2, <3>1
  <2>4. InConfig' = InConfig /\ Taken' = Taken /\ InQueue(1)' = InQueue(1) /\ InQueue(2)' = InQueue(2)
    BY <2>1 DEF InConfig, Taken, InQueue
  <2>5. Owns(InQueue(1), InQueue(2), ToSet(m_fifo), InHand, ToSet(put) \ {y}, InConfig, InBack,
             refused \cup forgotten, handles \ {y}, pool \ {y}, Going, Taken)
    BY <1>0, <1>3, <2>3, OwnsReleased
  <2>6. Book'
    BY <1>1, <2>1, <2>2, <2>3, <2>4, <2>5 DEF Book
  <2>7. QED
    BY <1>2, <2>1, <2>3, <2>6 DEF Inj
<1>13. ASSUME NEW k \in 1..2, DestroyPass(k) PROVE Inj' /\ Book'
  <2>1. /\ queue' = [queue EXCEPT ![k] = <<>>] /\ ToSet(queue[k]) \subseteq {Eos}
        /\ main.pc = "destroy" /\ main'.pc = "destroy" /\ UNCHANGED <<put, handles, pool, configHandle>>
        /\ \/ m_fifo' = <<>> /\ forgotten' = forgotten \cup ToSet(m_fifo)
           \/ m_fifo' = m_fifo /\ forgotten' = forgotten
    BY <1>0, <1>13 DEF DestroyPass, Dying, maps, config, MainSteps
  <2>2. ToSet(<<>>) = {} /\ IsInjective(<<>>)
    BY DEF ToSet, IsInjective
  <2>3. \A j \in 1..2 : queue'[j] = IF j = k THEN <<>> ELSE queue[j]
    BY <1>0, <2>1
  <2>4. 1 \in 1..2 /\ 2 \in 1..2
    OBVIOUS
  <2>5. InQueue(1)' = InQueue(1) /\ InQueue(2)' = InQueue(2) /\ IsInjective(queue'[1]) /\ IsInjective(queue'[2])
    BY <1>2, <2>1, <2>2, <2>3, <2>4 DEF InQueue, Inj
  <2>6. InConfig' = InConfig /\ Taken' = Taken
    BY <2>1 DEF InConfig, Taken
  <2>7. CASE m_fifo' = <<>> /\ forgotten' = forgotten \cup ToSet(m_fifo)
    <3>1. ToSet(m_fifo') = {} /\ IsInjective(m_fifo')
      BY <2>2, <2>7
    <3>2. Owns(InQueue(1), InQueue(2), {}, InHand, ToSet(put), InConfig, InBack,
               (refused \cup forgotten) \cup ToSet(m_fifo), handles, pool, Going, Taken)
      BY <1>0, <1>3, OwnsMoved
    <3>3. refused' \cup forgotten' = (refused \cup forgotten) \cup ToSet(m_fifo)
      BY <1>1, <2>7
    <3>4. Book'
      BY <1>1, <2>1, <2>5, <2>6, <3>1, <3>2, <3>3 DEF Book
    <3>5. QED
      BY <1>2, <2>1, <2>5, <3>1, <3>4 DEF Inj
  <2>8. CASE m_fifo' = m_fifo /\ forgotten' = forgotten
    <3>1. Book'
      BY <1>1, <1>3, <2>1, <2>5, <2>6, <2>8 DEF Book
    <3>2. QED
      BY <1>2, <2>1, <2>5, <2>8, <3>1 DEF Inj
  <2>9. QED
    BY <2>1, <2>7, <2>8
<1>14. QED
  BY <1>6, <1>7, <1>8, <1>9, <1>10, <1>11, <1>12, <1>13 DEF Main, StopSteps


-----------------------------------------------------------------------------
(* The theorems.                                                            *)

LEMMA NextIInv ==
  ASSUME Assumptions, IInv, [Next]_vars
  PROVE  IInv'
<1>1. TypeOK /\ Phase /\ Hands /\ Config /\ Owned /\ EosLast /\ Ordered /\ Waiting /\ TablesHeld
  BY DEF IInv
<1>2. Ordered' /\ Waiting' /\ TablesHeld'
  BY <1>1, OrderedStep, WaitingStep, TablesStep
<1>3. CASE Workers
  <2>1. TypeOK'
    BY <1>1, <1>3, WorkersType
  <2>2. Phase' /\ Hands' /\ Config' /\ EosLast'
    BY <1>1, <1>3, WorkersPhase, WorkersHands, WorkersEos
  <2>3. Owned'
    BY <1>1, <1>3, <2>1, WorkersOwned
  <2>4. QED
    BY <1>2, <2>1, <2>2, <2>3 DEF IInv
<1>4. CASE EndEncoding
  <2>1. TypeOK'
    BY <1>1, <1>4, EndEncodingType
  <2>2. Phase' /\ Hands' /\ Config' /\ EosLast'
    BY <1>1, <1>4, EndEncodingPhase, EndEncodingHands, EndEncodingEos
  <2>3. Owned'
    BY <1>1, <1>4, <2>1, EndEncodingOwned
  <2>4. QED
    BY <1>2, <2>1, <2>2, <2>3 DEF IInv
<1>5. CASE LookAheadWorker
  <2>1. TypeOK'
    BY <1>1, <1>5, LookAheadType
  <2>2. Phase' /\ Hands' /\ Config' /\ EosLast'
    BY <1>1, <1>5, LookAheadPhase, LookAheadHands, LookAheadEos
  <2>3. Owned'
    BY <1>1, <1>5, <2>1, LookAheadOwned
  <2>4. QED
    BY <1>2, <2>1, <2>2, <2>3 DEF IInv
<1>6. CASE Main
  <2>1. TypeOK'
    BY <1>1, <1>6, MainType
  <2>2. Phase' /\ Hands' /\ Config' /\ EosLast'
    BY <1>1, <1>6, MainPhase, MainHands, MainEos
  <2>3. Owned'
    BY <1>1, <1>6, <2>1, MainOwned
  <2>4. QED
    BY <1>2, <2>1, <2>2, <2>3 DEF IInv
<1>7. CASE UNCHANGED vars
  <2>1. /\ UNCHANGED <<media, encoders, alive, queue, put, handles, pool, configHandle, sem, mutex, back>>
        /\ UNCHANGED <<m_fifo, tasks, worker, nextQPBuffer, tables, refs, uses, main, order, forgotten, refused>>
    BY <1>7 DEF vars, library, maps, config, lookAhead, qp, history
  <2>2. TypeOK' /\ EosLast'
    BY <1>1, <2>1 DEF TypeOK, EosLast
  <2>3. Phase' /\ Hands' /\ Config'
    BY <1>1, <2>1 DEF Phase, Past, Passes, LastPass, NothingHeld, NoCallback, Hands, Config
  <2>4. Owned'
    <3>1. UNCHANGED <<InQueue(1), InQueue(2), InHand, InConfig, InBack, Going, Taken, ToSet(m_fifo), ToSet(put)>>
      BY <2>1 DEF InQueue, InHand, InConfig, InBack, Going, Taken
    <3>2. (Sound' => Sound) /\ (Inj => Inj')
      BY <2>1 DEF Sound, Inj
    <3>3. QED
      BY <1>1, <2>1, <2>2, <3>1, <3>2, BookSame
  <2>5. QED
    BY <1>2, <2>2, <2>3, <2>4 DEF IInv
<1>8. QED
  BY <1>3, <1>4, <1>5, <1>6, <1>7 DEF Next

(* IInv is an invariant.                                                      *)
THEOREM Inductive == Spec => []IInv
<1>1. Init => IInv
  BY Assumed, InitIInv
<1>2. IInv /\ [Next]_vars => IInv'
  BY Assumed, NextIInv
<1>3. QED
  BY <1>1, <1>2, PTL DEF Spec

(* Every handle the maps know is in exactly one place, and whatever has been   *)
(* given back, by a callback, a refusal or Stop, is known no more              *)
(* (module_enc.cpp:583-745, 847-1073).                                         *)
THEOREM OwnershipHolds == Spec => [](TypeOK /\ Ownership)
<1>1. IInv => TypeOK /\ Ownership
  BY DEF IInv, Owned, Ownership, Kept
<1>2. QED
  BY <1>1, Inductive, PTL

(* A callback that has passed the semaphore finds the stream buffer kept for   *)
(* the configuration, unless Stop has taken it (module_enc.cpp:720-728,       *)
(* 964-972).                                                                   *)
THEOREM ConfigThereHolds == Spec => []ConfigThere
<1>1. IInv => ConfigThere
  BY DEF IInv, Config, ConfigThere
<1>2. QED
  BY <1>1, Inductive, PTL

(* With a look-ahead pictures come back in the order in which they were        *)
(* accepted, all before the end of the stream, and fewer than uLookAheadSize   *)
(* of them wait when nothing is to be done, unless two came before one task    *)
(* was treated (module_enc.cpp:1115-1168).                                     *)
THEOREM LookAheadInOrderHolds == Spec => []LookAheadInOrder
<1>1. ASSUME IInv PROVE InOrder
  <2>1. Eos \in ToSet(queue[2]) => queue[2][Len(queue[2])] = Eos /\ m_fifo = <<>>
    <3>1. \A s : OnlyLast(s, Eos) /\ Eos \in ToSet(s) => s[Len(s)] = Eos
      BY DEF OnlyLast, ToSet
    <3>2. QED
      BY <1>1, <3>1 DEF IInv, EosLast
  <2>2. QED
    BY <1>1, <2>1 DEF IInv, Ordered, InOrder
<1>2. ASSUME IInv PROVE KeepsMoving
  <2>1. Len(<<>>) = 0
    BY EmptySeq
  <2>2. media.la \in Nat
    BY <1>2, Assumed, PassesFacts DEF IInv, Assumptions
  <2>3. QED
    BY <1>2, <2>1, <2>2 DEF IInv, Waiting, KeepsMoving
<1>3. IInv => LookAheadInOrder
  BY <1>1, <1>2 DEF LookAheadInOrder
<1>4. QED
  BY <1>3, Inductive, PTL

(* With one encoder a table goes with one picture, and the module holds one    *)
(* reference of each table it still has to give and none of the others         *)
(* (module_enc.cpp:640-656, 1189-1226).                                        *)
THEOREM TablesUsedOnceHolds == Spec => []TablesUsedOnce
<1>1. ASSUME IInv, media.la = 0, NEW t \in Tables
      PROVE  /\ refs[t] = Cardinality({x \in {"module", "encoder"} :
                                         t = IF x = "module" THEN nextQPBuffer ELSE tables[1]})
             /\ uses[t] <= 1
  <2>1. /\ refs[t] = IF t \in {nextQPBuffer, tables[1]} THEN 1 ELSE 0
        /\ nextQPBuffer = tables[1] => nextQPBuffer = None
        /\ IF t \in {nextQPBuffer, tables[1]} THEN uses[t] = 0 ELSE uses[t] <= 1
        /\ t # None
    BY <1>1, Assumed DEF IInv, TablesHeld, Assumptions, TablesAssumption
  <2>2. CASE t = nextQPBuffer
    <3>1. {x \in {"module", "encoder"} : t = IF x = "module" THEN nextQPBuffer ELSE tables[1]} = {"module"}
      BY <2>1, <2>2
    <3>2. Cardinality({"module"}) = 1
      BY FS_Singleton
    <3>3. t \in {nextQPBuffer, tables[1]}
      BY <2>2
    <3>4. refs[t] = 1 /\ uses[t] <= 1
      BY <2>1, <3>3
    <3>5. QED
      BY <3>1, <3>2, <3>4
  <2>3. CASE t = tables[1]
    <3>1. {x \in {"module", "encoder"} : t = IF x = "module" THEN nextQPBuffer ELSE tables[1]} = {"encoder"}
      BY <2>1, <2>3
    <3>2. Cardinality({"encoder"}) = 1
      BY FS_Singleton
    <3>3. t \in {nextQPBuffer, tables[1]}
      BY <2>3
    <3>4. refs[t] = 1 /\ uses[t] <= 1
      BY <2>1, <3>3
    <3>5. QED
      BY <3>1, <3>2, <3>4
  <2>4. CASE t # nextQPBuffer /\ t # tables[1]
    <3>1. {x \in {"module", "encoder"} : t = IF x = "module" THEN nextQPBuffer ELSE tables[1]} = {}
      BY <2>4
    <3>2. QED
      BY <2>1, <2>4, <3>1, FS_EmptySet
  <2>5. QED
    BY <2>2, <2>3, <2>4
<1>2. IInv => TablesUsedOnce
  BY <1>1 DEF TablesUsedOnce
<1>3. QED
  BY <1>2, Inductive, PTL

(* When Stop has returned the module knows no buffer any more but those the    *)
(* library refused and those it drops from the look-ahead FIFO                 *)
(* (module_enc.cpp:258-318).                                                   *)
THEOREM StoppedKnowsNothingHolds == Spec => []StoppedKnowsNothing
<1>1. ASSUME IInv, main.pc = "out", encoders = 0
      PROVE  /\ handles = refused \cup forgotten /\ pool = handles
             /\ media.la = 0 => forgotten = {}
             /\ configHandle = None /\ sem = 0 /\ m_fifo = <<>>
  <2>1. alive = {} /\ ~Past /\ LastPass \in 1..2
    BY <1>1, Assumed, PassesFacts DEF IInv, Phase, Past, Assumptions
  <2>2. NothingHeld /\ worker.pc = "idle" /\ (media.la = 0 => forgotten = {})
    BY <1>1, <2>1 DEF IInv, Phase
  <2>3. worker.hand = None
    BY <1>1, <2>2 DEF IInv, Hands
  <2>4. /\ queue[1] = <<>> /\ queue[2] = <<>> /\ m_fifo = <<>> /\ put = <<>>
        /\ back.pc = "out" /\ back.config = None /\ back.stream = None /\ back.end = FALSE
        /\ configHandle = None /\ sem = 0
    BY <2>2 DEF NothingHeld, NoCallback
  <2>5. ToSet(<<>>) = {}
    BY DEF ToSet
  <2>6. Inside = {}
    BY <2>3, <2>4, <2>5 DEF Inside, InQueue, InHand, InConfig, InBack
  <2>7. handles = Inside \cup refused \cup forgotten /\ pool = handles
    BY <1>1, <2>2, <2>4 DEF IInv, Owned, Kept
  <2>8. QED
    BY <2>2, <2>4, <2>6, <2>7
<1>2. IInv => StoppedKnowsNothing
  BY <1>1 DEF StoppedKnowsNothing
<1>3. QED
  BY <1>2, Inductive, PTL

(***************************************************************************)
(* The messages and regions of the component.                               *)
(***************************************************************************)
(* Types, those of the tasks, of the pictures and of the history included.     *)
Configs == [cmd : {"SetDynamic"}, data : Seis \cup Rois]
PictureTasks == [cmd : {"EmptyBuffer"}, data : Headers, eos : BOOLEAN, seis : SUBSET Seis, rois : SUBSET Rois]
Tasks == Configs \cup PictureTasks
Encodings == [header : Headers, handle : Handles, seis : SUBSET Seis, rois : SUBSET Rois,
              given : SUBSET Rois, last : BOOLEAN]
States == [seis : SUBSET Seis, rois : SUBSET Rois, fresh : BOOLEAN]

Types ==
  /\ PicturesTypeOK
  /\ fifo \in Seq(Tasks) /\ encoding \in Seq(Encodings)
  /\ asked \in States /\ flushes \in Nat

IsPicture(i) == fifo[i].cmd = "EmptyBuffer"

(* A header is with the client, on its way to the worker, or with the picture  *)
(* the module has.                                                            *)
Apart ==
  /\ \A i \in DOMAIN fifo : IsPicture(i) => fifo[i].data \in used \ client
  /\ \A i \in DOMAIN encoding : encoding[i].header \in used \ client
  /\ \A i, j \in DOMAIN fifo : IsPicture(i) /\ IsPicture(j) /\ fifo[i].data = fifo[j].data => i = j
  /\ \A i, j \in DOMAIN encoding : encoding[i].header = encoding[j].header => i = j
  /\ \A i \in DOMAIN fifo, j \in DOMAIN encoding : IsPicture(i) => fifo[i].data # encoding[j].header

(* Where the map buffers are: each once in the pool or with one header, and     *)
(* that header's picture is in the module; there are as many as headers, so      *)
(* that there is one for a picture that is not there yet.                       *)
GivenRegions == {h \in Headers : roiMap[h] # Null}
Out == {roiMap[h] : h \in GivenRegions}
Pool == ToSet(roiFreeBuffers)

Placed ==
  /\ Out \cup Pool = Live /\ Out \cap Pool = {}
  /\ \A i, j \in DOMAIN roiFreeBuffers : roiFreeBuffers[i] = roiFreeBuffers[j] => i = j
  /\ \A g, h \in GivenRegions : roiMap[g] = roiMap[h] => g = h
  /\ \A h \in GivenRegions : \E i \in DOMAIN encoding : encoding[i].header = h

Counted ==
  /\ IsFiniteSet(used) /\ IsFiniteSet(Live) /\ IsFiniteSet(GivenRegions)
  /\ Cardinality(Live) = Cardinality(used)
  /\ Cardinality(Live) = Len(roiFreeBuffers) + Cardinality(GivenRegions)

(* What a task does to the messages and regions that wait for a picture.       *)
After(s, task) ==
  IF task.cmd = "EmptyBuffer"
  THEN [seis |-> {}, rois |-> s.rois, fresh |-> IF task.eos THEN s.fresh ELSE TRUE]
  ELSE IF task.data \in Seis THEN [s EXCEPT !.seis = @ \cup {task.data}]
  ELSE [s EXCEPT !.rois = IF s.fresh THEN {task.data} ELSE @ \cup {task.data}, !.fresh = FALSE]

(* A chain of such states leads from what the worker has to what the client has *)
(* asked for, task by task, and each picture finds what was asked with it.       *)
Chain(st) ==
  /\ st \in Seq(States) /\ Len(st) = Len(fifo) + 1
  /\ st[Len(fifo) + 1] = asked
  /\ \A i \in 1..Len(fifo) : /\ st[i + 1] = After(st[i], fifo[i])
                             /\ IsPicture(i) => fifo[i].seis = st[i].seis /\ fifo[i].rois = st[i].rois
  /\ st[1].seis = tmpSeis /\ st[1].rois = regions
  /\ regions = {} \/ st[1].fresh = shouldClearROI
Leads ==
  /\ \E st : Chain(st)
  /\ shouldPushROI \/ regions = {}

(* A picture in the module goes with its own messages and regions.              *)
Carried ==
  /\ \A i \in DOMAIN encoding :
       /\ encoding[i].given = encoding[i].rois
       /\ encoding[i].handle \in DOMAIN seisMap => seisMap[encoding[i].handle] = encoding[i].seis
  /\ \A i, j \in DOMAIN encoding : encoding[i].handle = encoding[j].handle => i = j
  /\ \A x \in DOMAIN seisMap : \E i \in DOMAIN encoding : encoding[i].handle = x

Orderly == Placed /\ Counted /\ dry = Null /\ Leads /\ Carried /\ got.given = got.seis \cup got.rois

PInv == Types /\ Apart /\ (~Flushed => Orderly)

-----------------------------------------------------------------------------
(* Facts                                                                    *)

LEMMA FifoFacts ==
  ASSUME Types, fifo # <<>>
  PROVE  /\ Head(fifo) = fifo[1] /\ 1 \in DOMAIN fifo /\ Head(fifo) \in Tasks
         /\ Tail(fifo) \in Seq(Tasks) /\ Len(Tail(fifo)) = Len(fifo) - 1
         /\ \A i \in DOMAIN Tail(fifo) : i + 1 \in DOMAIN fifo /\ Tail(fifo)[i] = fifo[i + 1]
BY TailFacts DEF Types

LEMMA EncodingFacts ==
  ASSUME Types, encoding # <<>>
  PROVE  /\ Head(encoding) = encoding[1] /\ 1 \in DOMAIN encoding /\ Head(encoding) \in Encodings
         /\ Tail(encoding) \in Seq(Encodings)
         /\ \A i \in DOMAIN Tail(encoding) : i + 1 \in DOMAIN encoding /\ Tail(encoding)[i] = encoding[i + 1]
         /\ \A i \in DOMAIN encoding : i # 1 => i - 1 \in DOMAIN Tail(encoding) /\ encoding[i] = Tail(encoding)[i - 1]
BY TailFacts DEF Types

LEMMA TaskFacts ==
  ASSUME NEW task \in Tasks
  PROVE  /\ task.cmd \in {"SetDynamic", "EmptyBuffer"}
         /\ task.cmd = "SetDynamic" => task.data \in Seis \cup Rois
         /\ task.cmd = "EmptyBuffer" => /\ task.data \in Headers /\ task.eos \in BOOLEAN
                                        /\ task.seis \subseteq Seis /\ task.rois \subseteq Rois
BY DEF Tasks, Configs, PictureTasks

LEMMA AfterType ==
  ASSUME NEW s \in States, NEW task \in Tasks
  PROVE  After(s, task) \in States
<1>1. CASE task.cmd = "EmptyBuffer"
  BY <1>1, TaskFacts DEF After, States
<1>2. CASE task.cmd # "EmptyBuffer" /\ task.data \in Seis
  BY <1>2 DEF After, States
<1>3. CASE task.cmd # "EmptyBuffer" /\ task.data \notin Seis
  <2>1. task.data \in Rois
    BY <1>3, TaskFacts
  <2>2. QED
    BY <1>3, <2>1 DEF After, States
<1>4. QED
  BY <1>1, <1>2, <1>3

\* a task is queued behind the others
LEMMA ChainGrows ==
  ASSUME Types, NEW st, Chain(st), NEW task \in Tasks,
         task.cmd = "EmptyBuffer" => task.seis = asked.seis /\ task.rois = asked.rois,
         fifo' = Append(fifo, task), asked' = After(asked, task),
         UNCHANGED <<tmpSeis, shouldPushROI, shouldClearROI, regions>>
  PROVE  \E ss : Chain(ss)'
<1>1. asked \in States /\ asked' \in States /\ fifo \in Seq(Tasks)
  BY AfterType DEF Types
<1>2. /\ Len(fifo') = Len(fifo) + 1 /\ Len(fifo) \in Nat /\ fifo'[Len(fifo) + 1] = task
      /\ \A i \in 1..Len(fifo) : fifo'[i] = fifo[i]
  BY <1>1
<1>3. /\ st \in Seq(States) /\ Len(st) = Len(fifo) + 1 /\ st[Len(fifo) + 1] = asked
  BY DEF Chain
<1>0. PICK ss : ss = Append(st, asked')
  OBVIOUS
<1>4. /\ ss \in Seq(States) /\ Len(ss) = Len(fifo) + 2 /\ ss[Len(fifo) + 2] = asked'
      /\ \A i \in 1..(Len(fifo) + 1) : ss[i] = st[i]
  BY <1>0, <1>1, <1>2, <1>3
<1>5. ASSUME NEW i \in 1..(Len(fifo) + 1)
      PROVE  /\ ss[i + 1] = After(ss[i], fifo'[i])
             /\ fifo'[i].cmd = "EmptyBuffer" => fifo'[i].seis = ss[i].seis /\ fifo'[i].rois = ss[i].rois
  <2>1. CASE i = Len(fifo) + 1
    BY <1>2, <1>3, <1>4, <2>1
  <2>2. CASE i # Len(fifo) + 1
    <3>1. i \in 1..Len(fifo) /\ i + 1 \in 1..(Len(fifo) + 1)
      BY <1>2, <2>2
    <3>2. fifo'[i] = fifo[i] /\ ss[i] = st[i] /\ ss[i + 1] = st[i + 1]
      BY <1>2, <1>4, <3>1
    <3>3. QED
      BY <3>1, <3>2 DEF Chain, IsPicture
  <2>3. QED
    BY <2>1, <2>2
<1>6. ss[1] = st[1]
  BY <1>2, <1>4
<1>7. ss[1].seis = tmpSeis' /\ ss[1].rois = regions' /\ (regions' = {} \/ ss[1].fresh = shouldClearROI')
  BY <1>6 DEF Chain
<1>8. Len(fifo') = Len(fifo) + 1 /\ Len(ss) = Len(fifo') + 1 /\ ss[Len(fifo') + 1] = asked'
  BY <1>2, <1>4
<1>9. \A i \in 1..Len(fifo') :
        /\ ss[i + 1] = After(ss[i], fifo'[i])
        /\ fifo'[i].cmd = "EmptyBuffer" => fifo'[i].seis = ss[i].seis /\ fifo'[i].rois = ss[i].rois
  BY <1>5, <1>8
<1>10. Chain(ss)'
  BY <1>4, <1>7, <1>8, <1>9 DEF Chain, IsPicture
<1>11. QED
  BY <1>10

\* the first task is treated
LEMMA ChainShrinks ==
  ASSUME Types, NEW st, Chain(st), fifo # <<>>, fifo' = Tail(fifo), UNCHANGED asked,
         tmpSeis' = st[2].seis, regions' = st[2].rois, regions' = {} \/ st[2].fresh = shouldClearROI'
  PROVE  Chain(Tail(st))'
<1>1. /\ fifo \in Seq(Tasks) /\ Len(fifo) \in Nat \ {0} /\ Len(fifo') = Len(fifo) - 1
      /\ \A i \in 1..Len(fifo') : fifo'[i] = fifo[i + 1] /\ i + 1 \in 1..Len(fifo)
  BY DEF Types
<1>2. st \in Seq(States) /\ Len(st) = Len(fifo) + 1
  BY DEF Chain
<1>3. /\ Tail(st) \in Seq(States) /\ Len(Tail(st)) = Len(fifo') + 1
      /\ \A i \in 1..(Len(fifo') + 1) : Tail(st)[i] = st[i + 1]
  BY <1>1, <1>2
<1>4. Tail(st)[Len(fifo') + 1] = asked' /\ Tail(st)[1] = st[2]
  <2>1. Tail(st)[Len(fifo') + 1] = st[Len(fifo) + 1] /\ Tail(st)[1] = st[2]
    BY <1>1, <1>3
  <2>2. QED
    BY <2>1 DEF Chain
<1>5. ASSUME NEW i \in 1..Len(fifo')
      PROVE  /\ Tail(st)[i + 1] = After(Tail(st)[i], fifo'[i])
             /\ fifo'[i].cmd = "EmptyBuffer" =>
                  fifo'[i].seis = Tail(st)[i].seis /\ fifo'[i].rois = Tail(st)[i].rois
  <2>1. fifo'[i] = fifo[i + 1] /\ i + 1 \in 1..Len(fifo)
    BY <1>1
  <2>2. Tail(st)[i] = st[i + 1] /\ Tail(st)[i + 1] = st[(i + 1) + 1]
    BY <1>1, <1>3
  <2>3. QED
    BY <2>1, <2>2 DEF Chain, IsPicture
<1>6. QED
  BY <1>3, <1>4, <1>5 DEF Chain, IsPicture

-----------------------------------------------------------------------------
LEMMA InitPInv == PicturesInit => PInv
<1> SUFFICES ASSUME PicturesInit PROVE PInv
  OBVIOUS
<1>1. Types
  <2>1. PicturesTypeOK
    <3>1. roiFreeBuffers \in Seq(RoiBuffers) /\ DOMAIN seisMap = {}
      BY DEF PicturesInit
    <3>2. QED
      BY <3>1 DEF PicturesInit, PicturesTypeOK
  <2>2. fifo \in Seq(Tasks) /\ encoding \in Seq(Encodings)
    BY DEF PicturesInit
  <2>3. asked \in States /\ flushes \in Nat
    BY DEF PicturesInit, Nothing, States
  <2>4. QED
    BY <2>1, <2>2, <2>3 DEF Types
<1>2. Apart
  BY DEF PicturesInit, Apart
<1>3. GivenRegions = {} /\ Out = {} /\ Pool = {} /\ Live = {}
  BY DEF PicturesInit, GivenRegions, Out, Pool, Live, ToSet
<1>4. Placed /\ Counted
  BY <1>3, FS_EmptySet DEF PicturesInit, Placed, Counted
<1>5. Leads
  <2> DEFINE st == <<asked>>
  <2>1. st \in Seq(States) /\ Len(st) = 1 /\ st[1] = asked
    BY <1>1 DEF Types
  <2>2. fifo = <<>> /\ asked.seis = tmpSeis /\ asked.rois = regions /\ regions = {}
    BY DEF PicturesInit, Nothing
  <2>3. Chain(st)
    BY <2>1, <2>2 DEF Chain
  <2>4. QED
    BY <2>2, <2>3 DEF Leads
<1>6. Carried
  BY DEF PicturesInit, Carried
<1>7. dry = Null /\ got.given = got.seis \cup got.rois
  BY DEF PicturesInit, NoPicture
<1>8. QED
  BY <1>1, <1>2, <1>4, <1>5, <1>6, <1>7 DEF PInv, Orderly

-----------------------------------------------------------------------------
(* The client's calls                                                       *)

\* where nothing of the queues and the maps changes
LEMMA PlacedSame ==
  ASSUME Placed, UNCHANGED <<roiFreeBuffers, roiMap, encoding, Live>>
  PROVE  Placed'
BY DEF Placed, GivenRegions, Out, Pool

LEMMA CountedSame ==
  ASSUME Counted, UNCHANGED <<used, roiFreeBuffers, roiMap, Live>>
  PROVE  Counted'
BY DEF Counted, GivenRegions

LEMMA LeadsSame ==
  ASSUME Leads, UNCHANGED <<fifo, asked, tmpSeis, roiState>>
  PROVE  Leads'
BY DEF Leads, Chain, IsPicture, roiState

LEMMA CarriedSame ==
  ASSUME Carried, UNCHANGED <<encoding, seisMap>>
  PROVE  Carried'
BY DEF Carried

LEMMA ApartSame ==
  ASSUME Apart, UNCHANGED <<fifo, encoding, used, client>>
  PROVE  Apart'
BY DEF Apart, IsPicture

LEMMA UseBufferStep ==
  ASSUME PInv, NEW h \in Headers, UseBuffer(h)
  PROVE  PInv'
<1>1. PICK b \in RoiBuffers \ Live :
        roiFreeBuffers' = Append(roiFreeBuffers, b) /\ roiDestroyMap' = [roiDestroyMap EXCEPT ![h] = b]
  BY DEF UseBuffer
<1>2. /\ h \notin used /\ client = used /\ used' = used \cup {h} /\ client' = client \cup {h}
      /\ UNCHANGED <<fifo, roiMap, shouldPushROI, shouldClearROI, regions, tmpSeis, seisMap, encoding,
                     asked, told, got, dry, sent, flushes, freed>>
  BY DEF UseBuffer, roiState, pictureBounds
<1>3. Types /\ Apart
  BY DEF PInv
<1>4. /\ client \subseteq used /\ used \subseteq Headers /\ roiFreeBuffers \in Seq(RoiBuffers)
      /\ roiDestroyMap \in [Headers -> RoiBuffers \cup {Null}]
  BY <1>3 DEF Types, PicturesTypeOK
<1>5. Types'
  <2>1. Append(roiFreeBuffers, b) \in Seq(RoiBuffers)
    BY <1>4
  <2>2. QED
    BY <1>1, <1>2, <1>3, <1>4, <2>1 DEF Types, PicturesTypeOK
<1>6. Apart'
  BY <1>2, <1>3 DEF Apart, IsPicture
<1>7. ASSUME ~Flushed PROVE Orderly'
  <2>1. Placed /\ Counted /\ dry = Null /\ Leads /\ Carried /\ got.given = got.seis \cup got.rois
    BY <1>7 DEF PInv, Orderly
  <2>2. Live' = Live \cup {b} /\ b \notin Live
    <3>1. \A x \in used : roiDestroyMap'[x] = roiDestroyMap[x]
      BY <1>1, <1>2, <1>4
    <3>2. roiDestroyMap'[h] = b
      BY <1>1, <1>4
    <3>3. QED
      BY <1>2, <3>1, <3>2 DEF Live
  <2>3. GivenRegions' = GivenRegions /\ Out' = Out /\ Pool' = Pool \cup {b}
    <3>1. GivenRegions' = GivenRegions /\ Out' = Out
      BY <1>2 DEF GivenRegions, Out
    <3>2. QED
      BY <1>1, <1>4, <3>1, ElementsAppend DEF Pool
  <2>4. Placed'
    <3>1. b \notin Pool /\ b \notin Out
      BY <2>1, <2>2 DEF Placed
    <3>2. Out' \cup Pool' = Live' /\ Out' \cap Pool' = {}
      BY <2>1, <2>2, <2>3, <3>1 DEF Placed
    <3>3. \A i, j \in DOMAIN roiFreeBuffers' : roiFreeBuffers'[i] = roiFreeBuffers'[j] => i = j
      <4>1. /\ DOMAIN roiFreeBuffers' = 1..(Len(roiFreeBuffers) + 1) /\ DOMAIN roiFreeBuffers = 1..Len(roiFreeBuffers)
            /\ \A i \in DOMAIN roiFreeBuffers : roiFreeBuffers'[i] = roiFreeBuffers[i]
            /\ roiFreeBuffers'[Len(roiFreeBuffers) + 1] = b /\ Len(roiFreeBuffers) \in Nat
        BY <1>1, <1>4, AppendFacts
      <4>2. \A i \in DOMAIN roiFreeBuffers : roiFreeBuffers[i] # b
        BY <3>1 DEF Pool, ToSet
      <4>3. QED
        BY <2>1, <4>1, <4>2 DEF Placed
    <3>4. QED
      BY <1>2, <2>1, <2>3, <3>2, <3>3 DEF Placed
  <2>5. Counted'
    <3>1. /\ IsFiniteSet(used') /\ Cardinality(used') = Cardinality(used) + 1
          /\ IsFiniteSet(Live') /\ Cardinality(Live') = Cardinality(Live) + 1
      BY <1>2, <2>1, <2>2, FS_AddElement DEF Counted
    <3>2. Len(roiFreeBuffers') = Len(roiFreeBuffers) + 1 /\ Len(roiFreeBuffers) \in Nat
      BY <1>1, <1>4
    <3>3. Cardinality(GivenRegions) \in Nat
      BY <2>1, FS_CardinalityType DEF Counted
    <3>4. QED
      <4>1. Cardinality(GivenRegions') = Cardinality(GivenRegions) /\ IsFiniteSet(GivenRegions')
        BY <2>1, <2>3 DEF Counted
      <4>2. Cardinality(Live) = Cardinality(used) /\ Cardinality(Live) = Len(roiFreeBuffers) + Cardinality(GivenRegions)
        BY <2>1 DEF Counted
      <4>3. /\ Cardinality(Live') = Cardinality(used')
            /\ Cardinality(Live') = Len(roiFreeBuffers') + Cardinality(GivenRegions')
        BY <3>1, <3>2, <3>3, <4>1, <4>2
      <4>4. QED
        BY <3>1, <4>1, <4>3 DEF Counted
  <2>6. Leads' /\ Carried'
    BY <1>2, <2>1, LeadsSame, CarriedSame DEF roiState
  <2>7. QED
    BY <1>2, <2>1, <2>4, <2>5, <2>6 DEF Orderly
<1>8. QED
  BY <1>2, <1>5, <1>6, <1>7 DEF PInv, Flushed

LEMMA FreeBufferStep ==
  ASSUME PInv, NEW h \in Headers, FreeBuffer(h)
  PROVE  PInv'
<1>1. /\ client = used /\ flushes' = flushes + 1 /\ used' = used \ {h} /\ client' = client \ {h}
      /\ roiDestroyMap' = [roiDestroyMap EXCEPT ![h] = Null]
      /\ UNCHANGED <<fifo, roiFreeBuffers, roiMap, shouldPushROI, shouldClearROI, regions, tmpSeis, seisMap,
                     encoding, asked, dry>>
  BY DEF FreeBuffer, roiState
<1>2. Types /\ Apart
  BY DEF PInv
<1>3. Types'
  BY <1>1, <1>2 DEF Types, PicturesTypeOK
<1>4. Apart'
  BY <1>1, <1>2 DEF Apart, IsPicture
<1>5. Flushed'
  BY <1>1, <1>2 DEF Flushed, Types
<1>6. QED
  BY <1>3, <1>4, <1>5 DEF PInv

LEMMA SetConfigStep ==
  ASSUME PInv, NEW c \in Seis \cup Rois, SetConfig(c)
  PROVE  PInv'
<1> DEFINE task == [cmd |-> "SetDynamic", data |-> c]
<1>1. /\ fifo' = Append(fifo, task)
      /\ asked' = IF c \in Seis THEN [asked EXCEPT !.seis = @ \cup {c}]
                  ELSE [asked EXCEPT !.rois = IF asked.fresh THEN {c} ELSE @ \cup {c}, !.fresh = FALSE]
      /\ UNCHANGED <<client, used, roiFreeBuffers, roiMap, roiDestroyMap, shouldPushROI, shouldClearROI,
                     regions, tmpSeis, seisMap, encoding, got, dry, sent, flushes, freed>>
  BY DEF SetConfig, roiMaps, roiState, pictureBounds
<1>2. Types /\ Apart /\ task \in Tasks /\ fifo \in Seq(Tasks)
  BY DEF PInv, Tasks, Configs, Types
<1>3. asked' = After(asked, task)
  BY <1>1 DEF After
<1>4. Types'
  <2>1. Append(fifo, task) \in Seq(Tasks) /\ asked' \in States
    BY <1>2, <1>3, AfterType DEF Types
  <2>2. QED
    BY <1>1, <1>2, <2>1 DEF Types, PicturesTypeOK
<1>5. Apart'
  <2>1. /\ DOMAIN fifo' = 1..(Len(fifo) + 1) /\ DOMAIN fifo = 1..Len(fifo) /\ Len(fifo) \in Nat
        /\ \A i \in DOMAIN fifo : fifo'[i] = fifo[i]
        /\ fifo'[Len(fifo) + 1] = task
    BY <1>1, <1>2, AppendFacts
  <2>2. \A i \in DOMAIN fifo' : fifo'[i].cmd = "EmptyBuffer" => i \in DOMAIN fifo /\ IsPicture(i)
    BY <2>1 DEF IsPicture
  <2>3. QED
    BY <1>1, <1>2, <2>1, <2>2 DEF Apart, IsPicture
<1>6. ASSUME ~Flushed PROVE Orderly'
  <2>1. Orderly
    BY <1>6 DEF PInv
  <2>2. Placed' /\ Counted' /\ Carried'
    BY <1>1, <2>1, PlacedSame, CountedSame, CarriedSame DEF Orderly, Live
  <2>3. Leads'
    <3>1. PICK st : Chain(st)
      BY <2>1 DEF Orderly, Leads
    <3>2. \E ss : Chain(ss)'
      BY <1>1, <1>2, <1>3, <3>1, ChainGrows
    <3>3. QED
      BY <1>1, <2>1, <3>2 DEF Orderly, Leads
  <2>4. QED
    BY <1>1, <2>1, <2>2, <2>3 DEF Orderly
<1>7. QED
  BY <1>1, <1>4, <1>5, <1>6 DEF PInv, Flushed

LEMMA EmptyThisBufferStep ==
  ASSUME PInv, NEW h \in Headers, NEW eos \in BOOLEAN, EmptyThisBuffer(h, eos)
  PROVE  PInv'
<1> DEFINE task == [cmd |-> "EmptyBuffer", data |-> h, eos |-> eos, seis |-> asked.seis, rois |-> asked.rois]
<1>1. /\ fifo' = Append(fifo, task) /\ h \in client /\ client' = client \ {h}
      /\ asked' = [seis |-> {}, rois |-> asked.rois, fresh |-> IF eos THEN asked.fresh ELSE TRUE]
      /\ UNCHANGED <<used, roiFreeBuffers, roiMap, roiDestroyMap, shouldPushROI, shouldClearROI,
                     regions, tmpSeis, seisMap, encoding, got, dry, flushes, freed>>
  BY DEF EmptyThisBuffer, roiMaps, roiState
<1>2. Types /\ Apart /\ asked \in States /\ fifo \in Seq(Tasks) /\ client \subseteq used
  BY DEF PInv, Types, PicturesTypeOK
<1>3. task \in Tasks
  BY <1>2 DEF Tasks, PictureTasks, States
<1>4. asked' = After(asked, task)
  BY <1>1 DEF After
<1>5. Types'
  <2>1. Append(fifo, task) \in Seq(Tasks) /\ asked' \in States
    BY <1>2, <1>3, <1>4, AfterType
  <2>2. QED
    BY <1>1, <1>2, <2>1 DEF Types, PicturesTypeOK
<1>6. Apart'
  <2>1. /\ DOMAIN fifo' = 1..(Len(fifo) + 1) /\ DOMAIN fifo = 1..Len(fifo) /\ Len(fifo) \in Nat
        /\ \A i \in DOMAIN fifo : fifo'[i] = fifo[i]
        /\ fifo'[Len(fifo) + 1] = task
    BY <1>1, <1>2, <1>3, AppendFacts
  <2>2. \A i \in DOMAIN fifo' : i \in DOMAIN fifo \/ i = Len(fifo) + 1
    BY <2>1
  <2>3. \A i \in DOMAIN fifo : IsPicture(i) => fifo[i].data # h
    BY <1>1, <1>2 DEF Apart
  <2>4. \A i \in DOMAIN encoding : encoding[i].header # h
    BY <1>1, <1>2 DEF Apart
  <2>5. QED
    BY <1>1, <1>2, <2>1, <2>2, <2>3, <2>4 DEF Apart, IsPicture
<1>7. ASSUME ~Flushed PROVE Orderly'
  <2>1. Orderly
    BY <1>7 DEF PInv
  <2>2. Placed' /\ Counted' /\ Carried'
    BY <1>1, <2>1, PlacedSame, CountedSame, CarriedSame DEF Orderly, Live
  <2>3. Leads'
    <3>1. PICK st : Chain(st)
      BY <2>1 DEF Orderly, Leads
    <3>2. \E ss : Chain(ss)'
      BY <1>1, <1>2, <1>3, <1>4, <3>1, ChainGrows
    <3>3. QED
      BY <1>1, <2>1, <3>2 DEF Orderly, Leads
  <2>4. QED
    BY <1>1, <2>1, <2>2, <2>3 DEF Orderly
<1>8. QED
  BY <1>1, <1>5, <1>6, <1>7 DEF PInv, Flushed

-----------------------------------------------------------------------------
(* The worker of the input FIFO                                             *)

LEMMA TreatDynamicStep ==
  ASSUME PInv, TreatDynamicCommand
  PROVE  PInv'
<1> DEFINE c == Head(fifo).data
<1>1. /\ fifo # <<>> /\ Head(fifo).cmd = "SetDynamic" /\ fifo' = Tail(fifo)
      /\ UNCHANGED <<client, used, roiFreeBuffers, roiMap, roiDestroyMap, seisMap, encoding, asked, got, dry,
                     flushes>>
  BY DEF TreatDynamicCommand, Next_, roiMaps, pictureBounds
<1>2. /\ c \in Seis => tmpSeis' = tmpSeis \cup {c} /\ UNCHANGED <<shouldPushROI, shouldClearROI, regions>>
      /\ c \notin Seis => /\ regions' = (IF shouldClearROI THEN {c} ELSE regions \cup {c})
                          /\ shouldPushROI' = TRUE /\ shouldClearROI' = FALSE /\ UNCHANGED tmpSeis
  BY DEF TreatDynamicCommand, AddRegion, roiState
<1>3. Types /\ Apart
  BY DEF PInv
<1>4. /\ Head(fifo) = fifo[1] /\ 1 \in DOMAIN fifo /\ Head(fifo) \in Tasks /\ Tail(fifo) \in Seq(Tasks)
      /\ \A i \in DOMAIN Tail(fifo) : i + 1 \in DOMAIN fifo /\ Tail(fifo)[i] = fifo[i + 1]
  BY <1>1, <1>3, FifoFacts
<1>5. c \in Seis \cup Rois
  BY <1>1, <1>4, TaskFacts
<1>6. Types'
  <2>1. /\ tmpSeis' \subseteq Seis /\ regions' \subseteq Rois
        /\ shouldPushROI' \in BOOLEAN /\ shouldClearROI' \in BOOLEAN
    BY <1>2, <1>3, <1>5 DEF Types, PicturesTypeOK
  <2>2. QED
    BY <1>1, <1>3, <1>4, <2>1 DEF Types, PicturesTypeOK
<1>7. Apart'
  <2>1. \A i \in DOMAIN fifo' : i + 1 \in DOMAIN fifo /\ fifo'[i] = fifo[i + 1] /\ i \in Int
    BY <1>1, <1>4
  <2>2. \A i, j \in DOMAIN fifo' : i + 1 = j + 1 => i = j
    BY <2>1
  <2>3. QED
    BY <1>1, <1>3, <2>1, <2>2 DEF Apart, IsPicture
<1>8. ASSUME ~Flushed PROVE Orderly'
  <2>1. Orderly
    BY <1>8 DEF PInv
  <2>2. Placed' /\ Counted' /\ Carried'
    BY <1>1, <2>1, PlacedSame, CountedSame, CarriedSame DEF Orderly, Live
  <2>3. PICK st : Chain(st)
    BY <2>1 DEF Orderly, Leads
  <2>4. /\ st[1] \in States /\ st[2] = After(st[1], Head(fifo)) /\ st[1].seis = tmpSeis /\ st[1].rois = regions
        /\ regions = {} \/ st[1].fresh = shouldClearROI
    <3>1. Len(fifo) \in Nat \ {0} /\ 1 \in 1..Len(fifo)
      BY <1>1, <1>3 DEF Types
    <3>2. st \in Seq(States) /\ 1 \in 1..Len(st)
      BY <2>3, <3>1 DEF Chain
    <3>3. st[1 + 1] = After(st[1], fifo[1])
      BY <2>3, <3>1 DEF Chain
    <3>4. QED
      BY <1>4, <2>3, <3>2, <3>3 DEF Chain
  <2>5. tmpSeis' = st[2].seis /\ regions' = st[2].rois /\ (regions' = {} \/ st[2].fresh = shouldClearROI')
    <3>1. CASE c \in Seis
      <4>1. /\ st[2].seis = st[1].seis \cup {c} /\ st[2].rois = st[1].rois /\ st[2].fresh = st[1].fresh
        BY <1>1, <2>4, <3>1 DEF After, States
      <4>2. QED
        BY <1>2, <2>4, <3>1, <4>1
    <3>2. CASE c \notin Seis
      <4>1. /\ st[2].seis = st[1].seis /\ st[2].fresh = FALSE
            /\ st[2].rois = (IF st[1].fresh THEN {c} ELSE st[1].rois \cup {c})
        BY <1>1, <2>4, <3>2 DEF After, States
      <4>2. CASE regions = {}
        BY <1>2, <2>4, <3>2, <4>1, <4>2
      <4>3. CASE regions # {}
        BY <1>2, <2>4, <3>2, <4>1, <4>3
      <4>4. QED
        BY <4>2, <4>3
    <3>3. QED
      BY <3>1, <3>2
  <2>6. Chain(Tail(st))'
    BY <1>1, <1>3, <2>3, <2>5, ChainShrinks
  <2>7. shouldPushROI' \/ regions' = {}
    BY <1>2, <2>1 DEF Orderly, Leads
  <2>8. QED
    BY <1>1, <2>1, <2>2, <2>6, <2>7 DEF Orderly, Leads
<1>9. QED
  BY <1>1, <1>6, <1>7, <1>8 DEF PInv, Flushed

\* with as many map buffers as headers, a picture that is not in the module finds
\* one in the pool
LEMMA PoolHasOne ==
  ASSUME Types, Apart, Placed, Counted, fifo # <<>>, Head(fifo).cmd = "EmptyBuffer"
  PROVE  roiFreeBuffers # <<>>
<1> SUFFICES ASSUME roiFreeBuffers = <<>> PROVE FALSE
  OBVIOUS
<1> DEFINE h == Head(fifo).data
<1>1. Head(fifo) = fifo[1] /\ 1 \in DOMAIN fifo
  BY FifoFacts
<1>2. h \in used /\ \A j \in DOMAIN encoding : encoding[j].header # h /\ encoding[j].header \in used
  BY <1>1 DEF Apart, IsPicture
<1>3. GivenRegions \in SUBSET (used \ {h})
  BY <1>2 DEF Placed
<1>4. IsFiniteSet(used) /\ IsFiniteSet(used \ {h}) /\ Cardinality(used \ {h}) = Cardinality(used) - 1
  BY <1>2, FS_RemoveElement DEF Counted
<1>5. Cardinality(GivenRegions) <= Cardinality(used \ {h})
  BY <1>3, <1>4, FS_Subset
<1>6. Cardinality(GivenRegions) = Cardinality(used)
  <2>1. Cardinality(GivenRegions) \in Nat /\ Len(roiFreeBuffers) = 0
    BY FS_CardinalityType DEF Counted
  <2>2. QED
    BY <2>1 DEF Counted
<1>7. Cardinality(used) \in Nat
  BY <1>4, FS_CardinalityType
<1>8. QED
  BY <1>4, <1>5, <1>6, <1>7

\* a map buffer goes from the pool to a header that has none
LEMMA GiveMap ==
  ASSUME Types, Placed, Counted, roiFreeBuffers # <<>>, NEW h \in Headers, roiMap[h] = Null,
         roiMap' = [roiMap EXCEPT ![h] = Head(roiFreeBuffers)], roiFreeBuffers' = Tail(roiFreeBuffers),
         UNCHANGED <<used, Live>>,
         \A i \in DOMAIN encoding : i \in DOMAIN encoding' /\ encoding'[i].header = encoding[i].header,
         \E i \in DOMAIN encoding' : encoding'[i].header = h
  PROVE  Placed' /\ Counted'
<1> DEFINE b == Head(roiFreeBuffers)
<1>1. roiFreeBuffers \in Seq(RoiBuffers) /\ roiMap \in [Headers -> RoiBuffers \cup {Null}]
  BY DEF Types, PicturesTypeOK
<1>2. /\ b = roiFreeBuffers[1] /\ b \in RoiBuffers /\ 1 \in DOMAIN roiFreeBuffers /\ Len(roiFreeBuffers) \in Nat \ {0}
      /\ Len(roiFreeBuffers') = Len(roiFreeBuffers) - 1
      /\ \A i \in DOMAIN roiFreeBuffers' : i + 1 \in DOMAIN roiFreeBuffers
                                           /\ roiFreeBuffers'[i] = roiFreeBuffers[i + 1] /\ i \in Nat \ {0}
      /\ \A i \in DOMAIN roiFreeBuffers : i # 1 => i - 1 \in DOMAIN roiFreeBuffers'
                                                   /\ roiFreeBuffers[i] = roiFreeBuffers'[i - 1]
  BY <1>1
<1>3. b # Null
  BY <1>2, NullAssumption
<1>4. GivenRegions' = GivenRegions \cup {h} /\ h \notin GivenRegions
  BY <1>1, <1>3 DEF GivenRegions
<1>5. roiMap'[h] = b /\ \A g \in GivenRegions : g # h /\ roiMap'[g] = roiMap[g]
  BY <1>1, <1>4 DEF GivenRegions
<1>6. Out' = Out \cup {b}
  BY <1>4, <1>5 DEF Out
<1>7. b \in Pool /\ b \notin Out
  BY <1>2 DEF Pool, ToSet, Placed
<1>8. Pool' = Pool \ {b}
  <2>1. \A i \in DOMAIN roiFreeBuffers' : roiFreeBuffers'[i] # b
    BY <1>2 DEF Placed
  <2>2. QED
    <3>1. Pool' \subseteq Pool \ {b}
      BY <1>2, <2>1 DEF Pool, ToSet
    <3>2. ASSUME NEW i \in DOMAIN roiFreeBuffers, roiFreeBuffers[i] # b
          PROVE  roiFreeBuffers[i] \in Pool'
      BY <1>2, <3>2 DEF Pool, ToSet
    <3>3. QED
      BY <3>1, <3>2 DEF Pool, ToSet
<1>9. Placed'
  <2>1. Out' \cup Pool' = Live' /\ Out' \cap Pool' = {}
    BY <1>6, <1>7, <1>8 DEF Placed
  <2>2. \A i, j \in DOMAIN roiFreeBuffers' : roiFreeBuffers'[i] = roiFreeBuffers'[j] => i = j
    <3>1. \A i, j \in DOMAIN roiFreeBuffers' : roiFreeBuffers'[i] = roiFreeBuffers'[j] => i + 1 = j + 1
      BY <1>2 DEF Placed
    <3>2. QED
      BY <1>2, <3>1
  <2>3. \A f, g \in GivenRegions' : roiMap'[f] = roiMap'[g] => f = g
    <3>1. \A g \in GivenRegions : roiMap'[g] # b
      BY <1>5, <1>7 DEF Out
    <3>2. QED
      BY <1>4, <1>5, <3>1 DEF Placed
  <2>4. \A g \in GivenRegions' : \E i \in DOMAIN encoding' : encoding'[i].header = g
    BY <1>4 DEF Placed
  <2>5. QED
    BY <2>1, <2>2, <2>3, <2>4 DEF Placed
<1>10. Counted'
  <2>1. IsFiniteSet(GivenRegions') /\ Cardinality(GivenRegions') = Cardinality(GivenRegions) + 1
    BY <1>4, FS_AddElement DEF Counted
  <2>2. Cardinality(GivenRegions) \in Nat
    BY FS_CardinalityType DEF Counted
  <2>3. Cardinality(Live) = Len(roiFreeBuffers') + Cardinality(GivenRegions')
    <3>1. Cardinality(Live) = Len(roiFreeBuffers) + Cardinality(GivenRegions)
      BY DEF Counted
    <3>2. QED
      BY <1>2, <2>1, <2>2, <3>1
  <2>4. QED
    BY <2>1, <2>3 DEF Counted
<1>11. QED
  BY <1>9, <1>10

LEMMA TreatEmptyBufferStep ==
  ASSUME PInv, TreatEmptyBufferCommand
  PROVE  PInv'
<1> DEFINE task == Head(fifo)
<1>1. /\ fifo # <<>> /\ task.cmd = "EmptyBuffer"
      /\ UNCHANGED <<client, used, asked, got, flushes>>
  BY DEF TreatEmptyBufferCommand, Next_, pictureBounds
<1>2. Types /\ Apart
  BY DEF PInv
<1>3. /\ task = fifo[1] /\ 1 \in DOMAIN fifo /\ task \in Tasks /\ Tail(fifo) \in Seq(Tasks)
      /\ \A i \in DOMAIN Tail(fifo) : i + 1 \in DOMAIN fifo /\ Tail(fifo)[i] = fifo[i + 1]
  BY <1>1, <1>2, FifoFacts
<1>4. /\ task.data \in Headers /\ task.eos \in BOOLEAN /\ task.seis \subseteq Seis /\ task.rois \subseteq Rois
  BY <1>1, <1>3, TaskFacts
<1>5. CASE shouldPushROI /\ roiFreeBuffers = <<>>
  <2>1. /\ dry' = task.data
        /\ UNCHANGED <<fifo, roiFreeBuffers, roiMap, roiDestroyMap, shouldPushROI, shouldClearROI, regions,
                       tmpSeis, seisMap, encoding>>
    BY <1>5 DEF TreatEmptyBufferCommand, roiMaps, roiState
  <2>2. Types' /\ Apart'
    BY <1>1, <1>2, <1>4, <2>1, ApartSame DEF Types, PicturesTypeOK
  <2>3. Flushed
    BY <1>1, <1>2, <1>5, PoolHasOne DEF PInv, Orderly
  <2>4. QED
    BY <1>1, <2>2, <2>3 DEF PInv, Flushed
<1>6. CASE ~(shouldPushROI /\ roiFreeBuffers = <<>>)
  <2>1. /\ fifo' = Tail(fifo) /\ dry' = Null
        /\ IF shouldPushROI
           THEN /\ roiMap' = Insert(roiMap, task.data, Head(roiFreeBuffers))
                /\ roiFreeBuffers' = Tail(roiFreeBuffers)
           ELSE UNCHANGED <<roiMap, roiFreeBuffers>>
        /\ shouldClearROI' = (shouldClearROI \/ ~task.eos)
        /\ UNCHANGED <<shouldPushROI, regions, roiDestroyMap>>
    BY <1>6, Zenon DEF TreatEmptyBufferCommand
  <2>2. PICK handle \in Handles \ {encoding[i].handle : i \in DOMAIN encoding} :
          /\ MoveSeis(handle)
          /\ encoding' = Append(encoding,
               [header |-> task.data, handle |-> handle, seis |-> task.seis, rois |-> task.rois,
                given |-> IF shouldPushROI THEN regions ELSE {}, last |-> task.eos])
    BY <1>6, Zenon DEF TreatEmptyBufferCommand
  <2> DEFINE e == [header |-> task.data, handle |-> handle, seis |-> task.seis, rois |-> task.rois,
                   given |-> IF shouldPushROI THEN regions ELSE {}, last |-> task.eos]
  <2>3. /\ seisMap' = [x \in DOMAIN seisMap \cup {handle} |-> IF x \in DOMAIN seisMap THEN seisMap[x] ELSE tmpSeis]
        /\ tmpSeis' = {}
    BY <2>2 DEF MoveSeis
  <2>4. e \in Encodings /\ encoding \in Seq(Encodings)
    BY <1>2, <1>4 DEF Encodings, Types, PicturesTypeOK
  <2>5. /\ DOMAIN encoding' = 1..(Len(encoding) + 1) /\ DOMAIN encoding = 1..Len(encoding)
        /\ Len(encoding) \in Nat /\ encoding' \in Seq(Encodings)
        /\ \A i \in DOMAIN encoding : encoding'[i] = encoding[i]
        /\ encoding'[Len(encoding) + 1] = e
    BY <2>2, <2>4, AppendFacts
  <2>6. \A i \in DOMAIN encoding' : i \in DOMAIN encoding \/ i = Len(encoding) + 1
    BY <2>5
  <2>7. Types'
    <3>1. roiFreeBuffers' \in Seq(RoiBuffers) /\ roiMap' \in [Headers -> RoiBuffers \cup {Null}]
      <4>1. roiFreeBuffers \in Seq(RoiBuffers) /\ roiMap \in [Headers -> RoiBuffers \cup {Null}]
        BY <1>2 DEF Types, PicturesTypeOK
      <4>2. CASE ~shouldPushROI
        BY <2>1, <4>1, <4>2
      <4>3. CASE shouldPushROI
        <5>1. Head(roiFreeBuffers) \in RoiBuffers /\ Tail(roiFreeBuffers) \in Seq(RoiBuffers)
          BY <1>6, <4>1, <4>3, TailFacts
        <5>2. Insert(roiMap, task.data, Head(roiFreeBuffers)) \in [Headers -> RoiBuffers \cup {Null}]
          BY <1>4, <4>1, <5>1 DEF Insert
        <5>3. QED
          BY <2>1, <4>3, <5>1, <5>2
      <4>4. QED
        BY <4>2, <4>3
    <3>2. DOMAIN seisMap' \subseteq Handles /\ tmpSeis' \subseteq Seis /\ shouldClearROI' \in BOOLEAN
      BY <1>2, <1>4, <2>1, <2>3 DEF Types, PicturesTypeOK
    <3>3. QED
      BY <1>1, <1>2, <1>3, <2>1, <2>5, <3>1, <3>2 DEF Types, PicturesTypeOK
  <2>8. Apart'
    <3>1. \A i \in DOMAIN fifo' : i + 1 \in DOMAIN fifo /\ fifo'[i] = fifo[i + 1] /\ i \in Nat \ {0}
      BY <1>3, <2>1
    <3>2. \A i, j \in DOMAIN fifo' : (i + 1 = j + 1 => i = j) /\ i + 1 # 1
      BY <3>1
    <3>3. IsPicture(1) /\ fifo[1].data = e.header
      BY <1>1, <1>3 DEF IsPicture
    <3>4. \A i \in DOMAIN fifo' : fifo'[i].cmd = "EmptyBuffer" => fifo'[i].data # e.header
      BY <1>2, <1>3, <3>1, <3>2, <3>3 DEF Apart, IsPicture
    <3>5. \A i \in DOMAIN encoding : encoding[i].header # e.header
      BY <1>2, <1>3, <3>3 DEF Apart
    <3>6. e.header \in used \ client
      BY <1>2, <1>3, <3>3 DEF Apart
    <3>7. /\ \A i \in DOMAIN fifo' : fifo'[i].cmd = "EmptyBuffer" => fifo'[i].data \in used' \ client'
          /\ \A i \in DOMAIN encoding' : encoding'[i].header \in used' \ client'
      BY <1>1, <1>2, <2>5, <2>6, <3>1, <3>6 DEF Apart, IsPicture
    <3>8. \A i, j \in DOMAIN fifo' : fifo'[i].cmd = "EmptyBuffer" /\ fifo'[j].cmd = "EmptyBuffer"
                                     /\ fifo'[i].data = fifo'[j].data => i = j
      BY <1>2, <3>1, <3>2 DEF Apart, IsPicture
    <3>9. \A i, j \in DOMAIN encoding' : encoding'[i].header = encoding'[j].header => i = j
      BY <1>2, <2>5, <2>6, <3>5 DEF Apart
    <3>10. \A i \in DOMAIN fifo', j \in DOMAIN encoding' :
             fifo'[i].cmd = "EmptyBuffer" => fifo'[i].data # encoding'[j].header
      BY <1>2, <2>5, <2>6, <3>1, <3>4 DEF Apart, IsPicture
    <3>11. QED
      BY <3>7, <3>8, <3>9, <3>10 DEF Apart, IsPicture
  <2>9. ASSUME ~Flushed PROVE Orderly'
    <3>1. Placed /\ Counted /\ Leads /\ Carried /\ got.given = got.seis \cup got.rois
      BY <2>9 DEF PInv, Orderly
    <3>2. \A i \in DOMAIN encoding : encoding[i].header # task.data
      BY <1>1, <1>2, <1>3 DEF Apart, IsPicture
    <3>3. roiMap[task.data] = Null
      BY <1>4, <3>1, <3>2 DEF Placed, GivenRegions
    <3>4. Live' = Live
      BY <1>1, <2>1 DEF Live
    <3>5. Placed' /\ Counted'
      <4>1. /\ \A i \in DOMAIN encoding : i \in DOMAIN encoding' /\ encoding'[i].header = encoding[i].header
            /\ \E i \in DOMAIN encoding' : encoding'[i].header = task.data
        BY <2>5
      <4>2. CASE shouldPushROI
        <5>1. roiMap' = [roiMap EXCEPT ![task.data] = Head(roiFreeBuffers)] /\ roiFreeBuffers' = Tail(roiFreeBuffers)
          BY <2>1, <3>3, <4>2 DEF Insert
        <5>2. roiFreeBuffers # <<>>
          BY <1>6, <4>2
        <5>3. QED
          BY <1>1, <1>2, <1>4, <3>1, <3>3, <3>4, <4>1, <5>1, <5>2, GiveMap
      <4>3. CASE ~shouldPushROI
        <5>1. UNCHANGED <<roiMap, roiFreeBuffers>>
          BY <2>1, <4>3
        <5>2. QED
          BY <1>1, <3>1, <3>4, <4>1, <5>1, CountedSame DEF Placed, GivenRegions, Out, Pool
      <4>4. QED
        BY <4>2, <4>3
    <3>6. PICK st : Chain(st)
      BY <3>1 DEF Leads
    <3>7. /\ st[1] \in States /\ st[2] = After(st[1], task) /\ st[1].seis = tmpSeis /\ st[1].rois = regions
          /\ regions = {} \/ st[1].fresh = shouldClearROI
          /\ task.seis = tmpSeis /\ task.rois = regions
      <4>1. Len(fifo) \in Nat \ {0} /\ 1 \in 1..Len(fifo)
        BY <1>1, <1>2 DEF Types
      <4>2. st \in Seq(States) /\ 1 \in 1..Len(st)
        BY <3>6, <4>1 DEF Chain
      <4>3. st[1 + 1] = After(st[1], fifo[1]) /\ fifo[1].seis = st[1].seis /\ fifo[1].rois = st[1].rois
        BY <1>1, <1>3, <3>6, <4>1 DEF Chain, IsPicture
      <4>4. QED
        BY <1>3, <3>6, <4>2, <4>3 DEF Chain
    <3>8. Leads'
      <4>1. /\ st[2].seis = {} /\ st[2].rois = st[1].rois
            /\ st[2].fresh = IF task.eos THEN st[1].fresh ELSE TRUE
        BY <1>1, <3>7 DEF After
      <4>2. tmpSeis' = st[2].seis /\ regions' = st[2].rois /\ (regions' = {} \/ st[2].fresh = shouldClearROI')
        <5>1. tmpSeis' = st[2].seis /\ regions' = st[2].rois
          BY <2>1, <2>3, <3>7, <4>1
        <5>2. CASE regions = {}
          BY <3>7, <4>1, <5>1, <5>2
        <5>3. CASE regions # {} /\ task.eos
          <6>1. st[2].fresh = shouldClearROI
            BY <3>7, <4>1, <5>3
          <6>2. shouldClearROI' = shouldClearROI
            BY <1>2, <2>1, <5>3 DEF Types, PicturesTypeOK
          <6>3. QED
            BY <5>1, <6>1, <6>2
        <5>4. CASE ~task.eos
          BY <2>1, <4>1, <5>1, <5>4
        <5>5. QED
          BY <5>1, <5>2, <5>3, <5>4
      <4>3. Chain(Tail(st))'
        BY <1>1, <1>2, <2>1, <3>6, <4>2, ChainShrinks
      <4>4. QED
        BY <2>1, <3>1, <4>3 DEF Leads
    <3>9. Carried'
      <4>1. e.given = e.rois /\ e.seis = tmpSeis
        BY <3>1, <3>7 DEF Leads
      <4>2. handle \notin DOMAIN seisMap /\ \A i \in DOMAIN encoding : encoding[i].handle # handle
        BY <3>1 DEF Carried
      <4>3. seisMap'[handle] = tmpSeis /\ DOMAIN seisMap' = DOMAIN seisMap \cup {handle}
            /\ \A x \in DOMAIN seisMap : seisMap'[x] = seisMap[x]
        BY <2>3, <4>2
      <4>4. \A i \in DOMAIN encoding' :
              /\ encoding'[i].given = encoding'[i].rois
              /\ encoding'[i].handle \in DOMAIN seisMap' => seisMap'[encoding'[i].handle] = encoding'[i].seis
        <5>1. ASSUME NEW i \in DOMAIN encoding, encoding[i].handle \in DOMAIN seisMap'
              PROVE  seisMap'[encoding[i].handle] = encoding[i].seis
          <6>1. encoding[i].handle \in DOMAIN seisMap
            BY <4>2, <4>3, <5>1
          <6>2. QED
            BY <3>1, <4>3, <6>1 DEF Carried
        <5>2. \A i \in DOMAIN encoding : encoding[i].given = encoding[i].rois
          BY <3>1 DEF Carried
        <5>3. e.handle = handle
          OBVIOUS
        <5>4. QED
          BY <2>5, <2>6, <4>1, <4>3, <5>1, <5>2, <5>3
      <4>5. \A i, j \in DOMAIN encoding' : encoding'[i].handle = encoding'[j].handle => i = j
        BY <2>5, <2>6, <3>1, <4>2 DEF Carried
      <4>6. \A x \in DOMAIN seisMap' : \E i \in DOMAIN encoding' : encoding'[i].handle = x
        BY <2>5, <3>1, <4>3 DEF Carried
      <4>7. QED
        BY <4>4, <4>5, <4>6 DEF Carried
    <3>10. QED
      BY <1>1, <2>1, <3>1, <3>5, <3>8, <3>9 DEF Orderly
  <2>10. QED
    BY <1>1, <2>7, <2>8, <2>9 DEF PInv, Flushed
<1>7. QED
  BY <1>5, <1>6

-----------------------------------------------------------------------------
(* The callbacks and the flush                                              *)

LEMMA AssociateStep ==
  ASSUME PInv, AssociateCallBack
  PROVE  PInv'
<1> DEFINE p == Head(encoding)
<1>1. /\ encoding # <<>> /\ p.handle \in DOMAIN seisMap
      /\ got' = [p EXCEPT !.given = seisMap[p.handle] \cup p.given]
      /\ seisMap' = [x \in DOMAIN seisMap \ {p.handle} |-> seisMap[x]]
      /\ UNCHANGED <<fifo, client, used, roiFreeBuffers, roiMap, roiDestroyMap, shouldPushROI, shouldClearROI,
                     regions, tmpSeis, encoding, asked, dry, flushes>>
  BY DEF AssociateCallBack, roiMaps, roiState, pictureBounds
<1>2. Types /\ Apart
  BY DEF PInv
<1>3. p = encoding[1] /\ 1 \in DOMAIN encoding /\ p \in Encodings
  BY <1>1, <1>2, EncodingFacts
<1>4. DOMAIN seisMap' = DOMAIN seisMap \ {p.handle} /\ \A x \in DOMAIN seisMap' : seisMap'[x] = seisMap[x]
  BY <1>1
<1>5. Types' /\ Apart'
  BY <1>1, <1>2, <1>4, ApartSame DEF Types, PicturesTypeOK
<1>6. ASSUME ~Flushed PROVE Orderly'
  <2>1. Orderly
    BY <1>6 DEF PInv
  <2>2. Placed' /\ Counted' /\ Leads'
    BY <1>1, <2>1, PlacedSame, CountedSame, LeadsSame DEF Orderly, Live, roiState
  <2>3. Carried'
    BY <1>1, <1>3, <1>4, <2>1 DEF Orderly, Carried
  <2>4. got'.given = got'.seis \cup got'.rois
    <3>1. seisMap[p.handle] = p.seis /\ p.given = p.rois
      BY <1>1, <1>3, <2>1 DEF Orderly, Carried
    <3>2. got'.given = seisMap[p.handle] \cup p.given /\ got'.seis = p.seis /\ got'.rois = p.rois
      BY <1>1, <1>3 DEF Encodings
    <3>3. QED
      BY <3>1, <3>2
  <2>5. QED
    BY <1>1, <2>1, <2>2, <2>3, <2>4 DEF Orderly
<1>7. QED
  BY <1>1, <1>5, <1>6 DEF PInv, Flushed

\* the map buffer of a header goes back to the pool
LEMMA TakeMapBack ==
  ASSUME Types, Placed, Counted, NEW h \in Headers, EmptyRoi(h), UNCHANGED <<used, Live>>,
         \A i \in DOMAIN encoding : encoding[i].header # h =>
           \E j \in DOMAIN encoding' : encoding'[j].header = encoding[i].header
  PROVE  Placed' /\ Counted'
<1>1. roiFreeBuffers \in Seq(RoiBuffers) /\ roiMap \in [Headers -> RoiBuffers \cup {Null}]
  BY DEF Types, PicturesTypeOK
<1>2. CASE roiMap[h] = Null
  <2>1. UNCHANGED <<roiMap, roiFreeBuffers>> /\ GivenRegions' = GivenRegions /\ Out' = Out /\ Pool' = Pool /\ h \notin GivenRegions
    BY <1>2 DEF EmptyRoi, GivenRegions, Out, Pool
  <2>2. Placed'
    BY <2>1 DEF Placed
  <2>3. QED
    BY <2>1, <2>2, CountedSame
<1>3. CASE roiMap[h] # Null
  <2> DEFINE b == roiMap[h]
  <2>1. roiFreeBuffers' = Append(roiFreeBuffers, b) /\ roiMap' = [roiMap EXCEPT ![h] = Null] /\ b \in RoiBuffers
    BY <1>1, <1>3 DEF EmptyRoi
  <2>2. /\ DOMAIN roiFreeBuffers' = 1..(Len(roiFreeBuffers) + 1) /\ DOMAIN roiFreeBuffers = 1..Len(roiFreeBuffers)
        /\ Len(roiFreeBuffers) \in Nat /\ Len(roiFreeBuffers') = Len(roiFreeBuffers) + 1
        /\ \A i \in DOMAIN roiFreeBuffers : roiFreeBuffers'[i] = roiFreeBuffers[i]
        /\ roiFreeBuffers'[Len(roiFreeBuffers) + 1] = b
    BY <1>1, <2>1, AppendFacts
  <2>3. GivenRegions' = GivenRegions \ {h} /\ h \in GivenRegions
    BY <1>1, <1>3, <2>1 DEF GivenRegions
  <2>4. \A g \in GivenRegions' : roiMap'[g] = roiMap[g] /\ roiMap[g] # b
    BY <1>1, <2>1, <2>3 DEF Placed, GivenRegions
  <2>5. Out' = Out \ {b} /\ b \in Out
    BY <2>3, <2>4 DEF Out
  <2>6. Pool' = Pool \cup {b} /\ b \notin Pool
    BY <1>1, <2>1, <2>5, ElementsAppend DEF Pool, Placed
  <2>7. Placed'
    <3>1. Out' \cup Pool' = Live' /\ Out' \cap Pool' = {}
      BY <2>5, <2>6 DEF Placed
    <3>2. \A i \in DOMAIN roiFreeBuffers : roiFreeBuffers[i] # b
      BY <2>6 DEF Pool, ToSet
    <3>3. \A i, j \in DOMAIN roiFreeBuffers' : roiFreeBuffers'[i] = roiFreeBuffers'[j] => i = j
      BY <2>2, <3>2 DEF Placed
    <3>4. \A f, g \in GivenRegions' : roiMap'[f] = roiMap'[g] => f = g
      BY <2>3, <2>4 DEF Placed
    <3>5. \A g \in GivenRegions' : \E i \in DOMAIN encoding' : encoding'[i].header = g
      BY <2>3 DEF Placed
    <3>6. QED
      BY <3>1, <3>3, <3>4, <3>5 DEF Placed
  <2>8. Counted'
    <3>1. IsFiniteSet(GivenRegions') /\ Cardinality(GivenRegions') = Cardinality(GivenRegions) - 1
      BY <2>3, FS_RemoveElement DEF Counted
    <3>2. Cardinality(GivenRegions) \in Nat
      BY FS_CardinalityType DEF Counted
    <3>3. Cardinality(Live) = Len(roiFreeBuffers') + Cardinality(GivenRegions')
      <4>1. Cardinality(Live) = Len(roiFreeBuffers) + Cardinality(GivenRegions)
        BY DEF Counted
      <4>2. QED
        BY <2>2, <3>1, <3>2, <4>1
    <3>4. QED
      BY <3>1, <3>3 DEF Counted
  <2>9. QED
    BY <2>7, <2>8
<1>4. QED
  BY <1>2, <1>3

LEMMA EmptyCallBackStep ==
  ASSUME PInv, EmptyThisBufferCallBack
  PROVE  PInv'
<1> DEFINE p == Head(encoding)
<1>1. /\ encoding # <<>> /\ p.handle \notin DOMAIN seisMap /\ encoding' = Tail(encoding)
      /\ EmptyRoi(p.header) /\ client' = client \cup {p.header}
      /\ UNCHANGED <<fifo, used, roiDestroyMap, shouldPushROI, shouldClearROI, regions, tmpSeis, seisMap,
                     asked, got, dry, flushes>>
  BY DEF EmptyThisBufferCallBack, roiState, pictureBounds
<1>2. Types /\ Apart
  BY DEF PInv
<1>3. /\ p = encoding[1] /\ 1 \in DOMAIN encoding /\ p \in Encodings /\ p.header \in Headers
      /\ Tail(encoding) \in Seq(Encodings)
      /\ \A i \in DOMAIN encoding' : i + 1 \in DOMAIN encoding /\ encoding'[i] = encoding[i + 1] /\ i \in Nat \ {0}
      /\ \A i \in DOMAIN encoding : i # 1 => i - 1 \in DOMAIN encoding' /\ encoding[i] = encoding'[i - 1]
  <2>1. /\ p = encoding[1] /\ 1 \in DOMAIN encoding /\ p \in Encodings /\ Tail(encoding) \in Seq(Encodings)
        /\ \A i \in DOMAIN encoding' : i + 1 \in DOMAIN encoding /\ encoding'[i] = encoding[i + 1]
        /\ \A i \in DOMAIN encoding : i # 1 => i - 1 \in DOMAIN encoding' /\ encoding[i] = encoding'[i - 1]
    BY <1>1, <1>2, EncodingFacts
  <2>2. DOMAIN encoding' \subseteq Nat \ {0}
    BY <1>1, <2>1
  <2>3. QED
    BY <2>1, <2>2 DEF Encodings
<1>4. \A i, j \in DOMAIN encoding' : (i + 1 = j + 1 => i = j) /\ i + 1 # 1
  BY <1>3
<1>5. p.header \in used \ client
  BY <1>2, <1>3 DEF Apart
<1>6. Types'
  <2>1. roiFreeBuffers \in Seq(RoiBuffers) /\ roiMap \in [Headers -> RoiBuffers \cup {Null}]
    BY <1>2 DEF Types, PicturesTypeOK
  <2>2. roiFreeBuffers' \in Seq(RoiBuffers) /\ roiMap' \in [Headers -> RoiBuffers \cup {Null}]
    <3>1. CASE roiMap[p.header] = Null
      BY <1>1, <2>1, <3>1 DEF EmptyRoi
    <3>2. CASE roiMap[p.header] # Null
      <4>1. roiMap[p.header] \in RoiBuffers
        BY <1>3, <2>1, <3>2
      <4>2. Append(roiFreeBuffers, roiMap[p.header]) \in Seq(RoiBuffers)
        BY <2>1, <4>1
      <4>3. [roiMap EXCEPT ![p.header] = Null] \in [Headers -> RoiBuffers \cup {Null}]
        BY <2>1
      <4>4. QED
        BY <1>1, <3>2, <4>2, <4>3 DEF EmptyRoi
    <3>3. QED
      BY <3>1, <3>2
  <2>3. QED
    BY <1>1, <1>2, <1>3, <1>5, <2>2 DEF Types, PicturesTypeOK
<1>7. Apart'
  <2>1. \A i \in DOMAIN fifo : IsPicture(i) => fifo[i].data # p.header
    BY <1>2, <1>3 DEF Apart
  <2>2. \A i \in DOMAIN encoding' : encoding'[i].header # p.header
    BY <1>2, <1>3, <1>4 DEF Apart
  <2>3. \A i \in DOMAIN encoding' : encoding'[i].header \in used' \ client'
    BY <1>1, <1>2, <1>3, <2>2 DEF Apart
  <2>4. ASSUME NEW i \in DOMAIN encoding', NEW j \in DOMAIN encoding',
               encoding'[i].header = encoding'[j].header
        PROVE  i = j
    <3>1. i + 1 \in DOMAIN encoding /\ j + 1 \in DOMAIN encoding
          /\ encoding[i + 1].header = encoding[j + 1].header
      BY <1>3, <2>4
    <3>2. i + 1 = j + 1
      BY <1>2, <3>1 DEF Apart
    <3>3. QED
      BY <1>4, <3>2
  <2>5. \A i \in DOMAIN fifo, j \in DOMAIN encoding' : IsPicture(i) => fifo[i].data # encoding'[j].header
    BY <1>2, <1>3 DEF Apart
  <2>6. QED
    BY <1>1, <1>2, <2>1, <2>3, <2>4, <2>5 DEF Apart, IsPicture
<1>8. ASSUME ~Flushed PROVE Orderly'
  <2>1. Orderly
    BY <1>8 DEF PInv
  <2>2. Live' = Live
    BY <1>1 DEF Live
  <2>3. Placed' /\ Counted'
    <3>1. \A i \in DOMAIN encoding : encoding[i].header # p.header =>
            \E j \in DOMAIN encoding' : encoding'[j].header = encoding[i].header
      BY <1>3
    <3>2. QED
      BY <1>1, <1>2, <1>3, <2>1, <2>2, <3>1, TakeMapBack DEF Orderly
  <2>4. Leads'
    BY <1>1, <2>1, LeadsSame DEF Orderly, roiState
  <2>5. Carried'
    <3>1. Carried
      BY <2>1 DEF Orderly
    <3>2. \A i \in DOMAIN encoding' :
            /\ encoding'[i].given = encoding'[i].rois
            /\ encoding'[i].handle \in DOMAIN seisMap' => seisMap'[encoding'[i].handle] = encoding'[i].seis
      BY <1>1, <1>3, <3>1 DEF Carried
    <3>3. ASSUME NEW i \in DOMAIN encoding', NEW j \in DOMAIN encoding',
                 encoding'[i].handle = encoding'[j].handle
          PROVE  i = j
      <4>1. i + 1 \in DOMAIN encoding /\ j + 1 \in DOMAIN encoding
            /\ encoding[i + 1].handle = encoding[j + 1].handle
        BY <1>3, <3>3
      <4>2. i + 1 = j + 1
        BY <3>1, <4>1 DEF Carried
      <4>3. QED
        BY <1>4, <4>2
    <3>4. ASSUME NEW x \in DOMAIN seisMap'
          PROVE  \E i \in DOMAIN encoding' : encoding'[i].handle = x
      <4>1. x \in DOMAIN seisMap /\ x # p.handle
        BY <1>1
      <4>2. PICK i \in DOMAIN encoding : encoding[i].handle = x
        BY <3>1, <4>1 DEF Carried
      <4>3. i # 1
        BY <1>3, <4>1, <4>2
      <4>4. QED
        BY <1>3, <4>2, <4>3
    <3>5. QED
      BY <3>2, <3>3, <3>4 DEF Carried
  <2>6. QED
    BY <1>1, <2>1, <2>3, <2>4, <2>5 DEF Orderly
<1>9. QED
  BY <1>1, <1>6, <1>7, <1>8 DEF PInv, Flushed

LEMMA FlushStep ==
  ASSUME PInv, NEW n \in 0..Len(fifo), Flush(n)
  PROVE  PInv'
<1> DEFINE given == {encoding[i].header : i \in DOMAIN encoding}
                   \cup {fifo[i].data : i \in {j \in 1..n : fifo[j].cmd = "EmptyBuffer"}}
<1>1. /\ flushes' = flushes + 1 /\ client' = client \cup given /\ encoding' = <<>>
      /\ fifo' = SubSeq(fifo, n + 1, Len(fifo))
      /\ UNCHANGED <<used, roiFreeBuffers, roiMap, roiDestroyMap, shouldPushROI, shouldClearROI, regions,
                     tmpSeis, seisMap, asked, dry>>
  BY DEF Flush, roiMaps, roiState
<1>2. Types /\ Apart /\ fifo \in Seq(Tasks) /\ Len(fifo) \in Nat
  BY DEF PInv, Types
<1>3. /\ fifo' \in Seq(Tasks)
      /\ \A i \in DOMAIN fifo' : i + n \in DOMAIN fifo /\ fifo'[i] = fifo[i + n] /\ i \in Nat \ {0}
  BY <1>1, <1>2
<1>4. \A i \in 1..n : i \in DOMAIN fifo
  BY <1>2
<1>5. given \subseteq used
  BY <1>2, <1>4 DEF Apart, IsPicture
<1>6. Types'
  <2>1. encoding' \in Seq(Encodings) /\ flushes' \in Nat
    BY <1>1, <1>2 DEF Types
  <2>2. QED
    BY <1>1, <1>2, <1>3, <1>5, <2>1 DEF Types, PicturesTypeOK
<1>7. Apart'
  <2>1. ASSUME NEW i \in DOMAIN fifo', fifo'[i].cmd = "EmptyBuffer"
        PROVE  fifo'[i].data \in used' \ client'
    <3>1. i + n \in DOMAIN fifo /\ IsPicture(i + n) /\ fifo'[i].data = fifo[i + n].data
      BY <1>3, <2>1 DEF IsPicture
    <3>2. \A j \in 1..n : j # i + n
      BY <1>3
    <3>3. fifo[i + n].data \notin given
      BY <1>2, <1>4, <3>1, <3>2 DEF Apart, IsPicture
    <3>4. QED
      BY <1>1, <1>2, <3>1, <3>3 DEF Apart
  <2>2. \A i, j \in DOMAIN fifo' : i + n = j + n => i = j
    BY <1>3
  <2>3. \A i, j \in DOMAIN fifo' : fifo'[i].cmd = "EmptyBuffer" /\ fifo'[j].cmd = "EmptyBuffer"
                                   /\ fifo'[i].data = fifo'[j].data => i = j
    BY <1>2, <1>3, <2>2 DEF Apart, IsPicture
  <2>4. DOMAIN encoding' = {}
    BY <1>1
  <2>5. QED
    BY <2>1, <2>3, <2>4 DEF Apart, IsPicture
<1>8. Flushed'
  BY <1>1, <1>2 DEF Flushed, Types
<1>9. QED
  BY <1>6, <1>7, <1>8 DEF PInv

LEMMA NextPInv == PInv /\ [PicturesNext]_pictureVars => PInv'
<1> SUFFICES ASSUME PInv, [PicturesNext]_pictureVars PROVE PInv'
  OBVIOUS
<1>1. CASE UNCHANGED pictureVars
  <2>1. /\ UNCHANGED <<fifo, client, used, roiFreeBuffers, roiMap, roiDestroyMap, shouldPushROI, shouldClearROI,
                       regions, tmpSeis, seisMap, encoding, asked, got, dry, flushes>>
    BY <1>1 DEF pictureVars, roiMaps, roiState, pictureBounds
  <2>2. Types' /\ Apart' /\ (Flushed' <=> Flushed) /\ Live' = Live
    BY <2>1, ApartSame DEF PInv, Types, PicturesTypeOK, Flushed, Live
  <2>3. ASSUME ~Flushed PROVE Orderly'
    BY <2>1, <2>2, <2>3, PlacedSame, CountedSame, LeadsSame, CarriedSame DEF PInv, Orderly, roiState
  <2>4. QED
    BY <2>2, <2>3 DEF PInv
<1>2. CASE PicturesNext
  BY <1>2, UseBufferStep, FreeBufferStep, SetConfigStep, EmptyThisBufferStep, TreatDynamicStep,
     TreatEmptyBufferStep, AssociateStep, EmptyCallBackStep, FlushStep DEF PicturesNext
<1>3. QED
  BY <1>1, <1>2

(* PInv is an invariant, and PicturesTypeOK with it.                          *)
THEOREM PicturesInductive == PicturesSpec => [](PInv /\ PicturesTypeOK)
<1>1. PInv => PicturesTypeOK
  BY DEF PInv, Types
<1>2. QED
  BY <1>1, InitPInv, NextPInv, PTL DEF PicturesSpec

(* Without a flush no map buffer is lost, shared or freed under its picture,    *)
(* and no picture waits for one, however many headers and pictures there are    *)
(* (omx_component_enc.cpp:36-49, 187-223, 332-338).                            *)
THEOREM RoiAccountedHolds == PicturesSpec => []RoiAccounted
<1>1. ASSUME PInv, ~Flushed PROVE RoiAccounted
  BY <1>1 DEF PInv, Orderly, Placed, Counted, GivenRegions, Out, Pool, ToSet, RoiAccounted
<1>2. PInv => RoiAccounted
  BY <1>1 DEF RoiAccounted
<1>3. QED
  BY <1>2, PicturesInductive, PTL

(* Without a flush the module encodes each picture with the messages and the     *)
(* regions that SetConfig was called with for it, whatever waits in the FIFOs    *)
(* (omx_component.cpp:2194-2255, omx_component_enc.cpp:99-113, 330-353).      *)
THEOREM ConfigWithItsPictureHolds == PicturesSpec => []ConfigWithItsPicture
<1>1. PInv => ConfigWithItsPicture
  BY DEF PInv, Orderly, ConfigWithItsPicture
<1>2. QED
  BY <1>1, PicturesInductive, PTL
=============================================================================
