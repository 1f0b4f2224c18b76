--------------------------- MODULE InboundProofs ---------------------------
(* What TLAPS proves of InboundMessages, for any people, messages, chunks  *)
(* and bounds: nothing that the session's engine has learned is forgotten, *)
(* a reply finds the message it quotes, and a backfill answers what was    *)
(* appended to the history.                                                *)
EXTENDS InboundMessages, Integers, FiniteSetTheorems, WellFoundedInduction, TLAPS

IsEngine(e) == e = [dir |-> e.dir, dirty |-> e.dirty, timer |-> e.timer, store |-> e.store]
IsSave(s) == s = [by |-> s.by, nr |-> s.nr, dir |-> s.dir, at |-> s.at, onto |-> s.onto,
                  alone |-> s.alone, caught |-> s.caught]

\* Engines are dirty exactly while their timer runs; those to come are clean, and save nothing.
Shape ==
    /\ engine = [e \in Engines |-> engine[e]]
    /\ \A e \in Engines : /\ IsEngine(engine[e]) /\ engine[e].dirty \in BOOLEAN
                          /\ engine[e].timer = engine[e].dirty
                          /\ e > used.engines => ~engine[e].dirty
    /\ used = [engines |-> used.engines, events |-> used.events]
    /\ used.engines \in 0..MaxEngines
    /\ current \in 0..used.engines /\ overlapped \in BOOLEAN
    /\ \A s \in saves : IsSave(s) /\ s.by \in 1..used.engines

\* As long as no two have written at once there is one save at most, and it has the temporary
\* file to itself.
Alone ==
    /\ \A s, o \in saves : s = o
    /\ \A s \in saves : /\ s.onto = "tmp" /\ s.alone = TRUE /\ s.at \in {"writing", "renaming"}
                        /\ s.at = "renaming" => tmp = File("whole", s.dir)

\* What the session's engine has learned and nobody else can still overwrite.
Safe ==
    /\ \A o \in Engines \ {current} : ~engine[o].dirty
    /\ \A s \in saves : s.by = current /\ s.caught = FALSE
    /\ ~engine[current].dirty =>
          IF saves = {} THEN Covers(Load, engine[current].dir)
          ELSE \A s \in saves : Covers(s.dir, engine[current].dir)

IInv == Shape /\ (~overlapped => Alone /\ (current # 0 => Safe))

-----------------------------------------------------------------------------
LEMMA CoversItself == ASSUME NEW d PROVE Covers(d, d)
    BY DEF Covers

\* What is learned is what the engine had, or has a timer now.
LEMMA LearnedKeeps ==
    ASSUME Shape, NEW e \in Engines, NEW d
    PROVE  /\ IsEngine(Learned(e, d)) /\ Learned(e, d).dirty \in BOOLEAN
           /\ Learned(e, d).timer = Learned(e, d).dirty
           /\ ~Learned(e, d).dirty => /\ ~engine[e].dirty
                                      /\ \A f : Covers(f, engine[e].dir) => Covers(f, Learned(e, d).dir)
<1> DEFINE old == engine[e]
<1>1. old = [dir |-> old.dir, dirty |-> old.dirty, timer |-> old.timer, store |-> old.store]
      /\ old.dirty \in BOOLEAN /\ old.timer = old.dirty
    BY DEF Shape, IsEngine
<1>2. CASE Changed(old.dir, d)
    <2>1. Learned(e, d) = [dir |-> d, dirty |-> TRUE, timer |-> TRUE, store |-> old.store]
        BY <1>1, <1>2 DEF Learned
    <2> QED
        BY <2>1 DEF IsEngine
<1>3. CASE ~Changed(old.dir, d)
    <2>1. Learned(e, d) = [dir |-> d, dirty |-> old.dirty, timer |-> old.dirty, store |-> old.store]
        BY <1>1, <1>3 DEF Learned
    <2>2. d.known = old.dir.known /\ d.names = old.dir.names
        BY <1>3 DEF Changed
    <2> QED
        BY <1>1, <2>1, <2>2 DEF IsEngine, Covers
<1> QED
    BY <1>2, <1>3

\* Init
LEMMA IInvInit == Init => IInv
<1> SUFFICES ASSUME Init PROVE IInv
    OBVIOUS
<1>1. Shape
    <2>1. engine = [e \in Engines |-> NoEngine] /\ current = 0 /\ saves = {} /\ overlapped = FALSE
          /\ used = [engines |-> 0, events |-> 0]
        BY DEF Init
    <2>2. used.engines = 0 /\ used.engines \in 0..MaxEngines
        BY <2>1, InboundAssumption
    <2>3. IsEngine(NoEngine) /\ NoEngine.dirty = FALSE /\ NoEngine.timer = FALSE
        BY DEF IsEngine, NoEngine
    <2>4. \A e \in Engines : engine[e] = NoEngine
        BY <2>1
    <2>5. engine = [e \in Engines |-> engine[e]]
        BY <2>1, <2>4
    <2>6. current \in 0..used.engines
        BY <2>1, <2>2
    <2>7. used = [engines |-> used.engines, events |-> used.events]
        BY <2>1
    <2> QED
        BY <2>1, <2>2, <2>3, <2>4, <2>5, <2>6, <2>7 DEF Shape
<1>2. Alone
    BY DEF Init, Alone
<1> QED
    BY <1>1, <1>2 DEF Init, IInv

\* A step of the session's engine that learns, and starts no save.
LEMMA LearningKeeps ==
    ASSUME IInv, current # 0, NEW d, NEW store,
           engine' = [engine EXCEPT ![current] = [Learned(current, d) EXCEPT !.store = store]]
                \/ engine' = [engine EXCEPT ![current] = Learned(current, d)],
           UNCHANGED <<current, saves, disk, tmp, overlapped>>,
           used' = [used EXCEPT !.events = @ + 1]
    PROVE  IInv'
<1>1. current \in Engines
    BY InboundAssumption DEF IInv, Shape, Engines
<1>2. LET l == Learned(current, d) IN
        /\ IsEngine(l) /\ l.dirty \in BOOLEAN /\ l.timer = l.dirty
        /\ ~l.dirty => /\ ~engine[current].dirty
                       /\ \A f : Covers(f, engine[current].dir) => Covers(f, l.dir)
    BY <1>1, LearnedKeeps DEF IInv
<1>3. /\ IsEngine(engine'[current]) /\ engine'[current].dirty \in BOOLEAN
      /\ engine'[current].timer = engine'[current].dirty
      /\ ~engine'[current].dirty => /\ ~engine[current].dirty
            /\ \A f : Covers(f, engine[current].dir) => Covers(f, engine'[current].dir)
    BY <1>1, <1>2 DEF IInv, Shape, IsEngine
<1>4. /\ engine' = [e \in Engines |-> engine'[e]]
      /\ \A e \in Engines \ {current} : engine'[e] = engine[e]
    BY <1>1 DEF IInv, Shape
<1>5. Shape'
    BY <1>1, <1>3, <1>4 DEF IInv, Shape
<1>6. Alone => Alone'
    BY DEF Alone
<1>7. ~overlapped => Safe'
    BY <1>1, <1>3, <1>4 DEF IInv, Safe, Load
<1> QED
    BY <1>5, <1>6, <1>7 DEF IInv

\* A save stays one when a field of it changes.
LEMMA SaveChanges ==
    ASSUME NEW s, IsSave(s), NEW v
    PROVE  /\ [s EXCEPT !.alone = v] = [by |-> s.by, nr |-> s.nr, dir |-> s.dir, at |-> s.at,
                                        onto |-> s.onto, alone |-> v, caught |-> s.caught]
           /\ [s EXCEPT !.at = v] = [by |-> s.by, nr |-> s.nr, dir |-> s.dir, at |-> v,
                                     onto |-> s.onto, alone |-> s.alone, caught |-> s.caught]
           /\ [s EXCEPT !.onto = v] = [by |-> s.by, nr |-> s.nr, dir |-> s.dir, at |-> s.at,
                                       onto |-> v, alone |-> s.alone, caught |-> s.caught]
    BY DEF IsSave

\* A save begins where none has been at work.
LEMMA SaveBegins ==
    ASSUME IInv, NEW e \in Engines, e <= used.engines, NEW caught \in BOOLEAN, BeginSave(e, caught)
    PROVE  /\ overlapped' \in BOOLEAN /\ disk' = disk
           /\ \A s \in saves' : IsSave(s) /\ s.by \in 1..used.engines
           /\ ~overlapped' => ~overlapped /\ Alone'
           /\ ~overlapped' /\ engine[e].dirty =>
                /\ saves' # {}
                /\ \A s \in saves' : s.by = e /\ s.caught = caught /\ s.dir = engine[e].dir
           /\ ~overlapped' /\ ~engine[e].dirty => saves' = saves
<1>1. CASE ~engine[e].dirty
    BY <1>1 DEF IInv, Shape, BeginSave, stored, Alone
<1>2. CASE engine[e].dirty
    <2> DEFINE alone == \A o \in saves : o.at # "writing"
               started == [by |-> e, nr |-> Cardinality(saves), dir |-> engine[e].dir,
                           at |-> "writing", onto |-> "tmp", alone |-> alone, caught |-> caught]
    <2>1. /\ saves' = {IF o.at = "writing" THEN [o EXCEPT !.alone = FALSE] ELSE o : o \in saves}
                        \cup {started}
          /\ overlapped' = (overlapped \/ saves # {}) /\ disk' = disk
        BY <1>2 DEF BeginSave
    <2>2. \A o \in saves : IsSave([o EXCEPT !.alone = FALSE]) /\ [o EXCEPT !.alone = FALSE].by = o.by
        <3> SUFFICES ASSUME NEW o \in saves
                     PROVE  IsSave([o EXCEPT !.alone = FALSE]) /\ [o EXCEPT !.alone = FALSE].by = o.by
            OBVIOUS
        <3>1. IsSave(o)
            BY DEF IInv, Shape
        <3>2. [o EXCEPT !.alone = FALSE] = [by |-> o.by, nr |-> o.nr, dir |-> o.dir, at |-> o.at,
                                            onto |-> o.onto, alone |-> FALSE, caught |-> o.caught]
            BY <3>1, SaveChanges
        <3> QED
            BY <3>2 DEF IsSave
    <2>3. IsSave(started) /\ started.by \in 1..used.engines
        BY InboundAssumption DEF IsSave, Engines, IInv, Shape
    <2>4. \A s \in saves' : IsSave(s) /\ s.by \in 1..used.engines
        <3> HIDE DEF started
        <3>1. \A o \in saves : IsSave(o) /\ o.by \in 1..used.engines
            BY DEF IInv, Shape
        <3> QED
            BY <2>1, <2>2, <2>3, <3>1
    <2>5. ASSUME ~overlapped' PROVE saves = {} /\ saves' = {started} /\ ~overlapped /\ alone = TRUE
        BY <2>1, <2>5
    <2>6. ASSUME ~overlapped' PROVE Alone'
        <3>1. /\ started.onto = "tmp" /\ started.at = "writing"
              /\ started.alone = TRUE
            BY <2>5, <2>6
        <3> HIDE DEF started
        <3> QED
            BY <2>5, <2>6, <3>1 DEF Alone
    <2>7. overlapped' \in BOOLEAN
        BY <2>1 DEF IInv, Shape
    <2>8. started.by = e /\ started.caught = caught /\ started.dir = engine[e].dir
        OBVIOUS
    <2> HIDE DEF started
    <2> QED
        BY <1>2, <2>1, <2>4, <2>5, <2>6, <2>7, <2>8
<1> QED
    BY <1>1, <1>2

\* An engine in the array is replaced by a well-formed one.
LEMMA ShapeKeeps ==
    ASSUME Shape, NEW e \in Engines, NEW new, IsEngine(new), new.dirty \in BOOLEAN,
           new.timer = new.dirty, e > used'.engines => ~new.dirty,
           engine' = [engine EXCEPT ![e] = new],
           used' = [engines |-> used'.engines, events |-> used'.events],
           used'.engines \in used.engines..MaxEngines,
           current' \in 0..used'.engines, overlapped' \in BOOLEAN,
           \A s \in saves' : IsSave(s) /\ s.by \in 1..used'.engines
    PROVE  /\ Shape' /\ engine'[e] = new
           /\ \A o \in Engines \ {e} : engine'[o] = engine[o]
<1>1. /\ engine'[e] = new /\ \A o \in Engines \ {e} : engine'[o] = engine[o]
      /\ engine' = [o \in Engines |-> engine'[o]]
    BY DEF Shape
<1>2. \A o \in Engines : /\ IsEngine(engine'[o]) /\ engine'[o].dirty \in BOOLEAN
                         /\ engine'[o].timer = engine'[o].dirty
                         /\ o > used'.engines => ~engine'[o].dirty
    BY <1>1, InboundAssumption DEF Shape, Engines
<1>3. used'.engines \in 0..MaxEngines
    BY InboundAssumption DEF Shape
<1> QED
    BY <1>1, <1>2, <1>3 DEF Shape, IsEngine, IsSave

LEMMA NoEngineIsOne == IsEngine(NoEngine) /\ NoEngine.dirty = FALSE /\ NoEngine.timer = FALSE
    BY DEF IsEngine, NoEngine

\* An engine stays one with another directory.
LEMMA EngineChanges ==
    ASSUME NEW r, IsEngine(r), NEW d
    PROVE  LET n == [r EXCEPT !.dir = d]
           IN IsEngine(n) /\ n.dirty = r.dirty /\ n.timer = r.timer /\ n.dir = d
<1>1. [r EXCEPT !.dir = d] = [dir |-> d, dirty |-> r.dirty, timer |-> r.timer, store |-> r.store]
    BY DEF IsEngine
<1> QED
    BY <1>1 DEF IsEngine

LEMMA IInvTimer == ASSUME IInv, NEW e \in Engines, Timer(e) PROVE IInv'
<1> DEFINE new == IF e = current THEN [engine[e] EXCEPT !.timer = FALSE, !.dirty = FALSE] ELSE NoEngine
<1>1. /\ engine[e].timer = TRUE /\ engine[e].dirty = TRUE /\ BeginSave(e, FALSE)
      /\ engine' = [engine EXCEPT ![e] = new] /\ UNCHANGED <<current, used>>
    BY DEF Timer, IInv, Shape
<1>2. e <= used.engines
    BY <1>1, InboundAssumption DEF IInv, Shape, Engines
<1>3. /\ overlapped' \in BOOLEAN /\ disk' = disk
      /\ \A s \in saves' : IsSave(s) /\ s.by \in 1..used.engines
      /\ ~overlapped' => /\ ~overlapped /\ Alone' /\ saves' # {}
            /\ \A s \in saves' : s.by = e /\ s.caught = FALSE /\ s.dir = engine[e].dir
    BY <1>1, <1>2, SaveBegins
<1>4. IsEngine(new) /\ new.dirty = FALSE /\ new.timer = FALSE
      /\ (e = current => new.dir = engine[e].dir)
    <2>1. CASE e = current
        <3>1. IsEngine(engine[e])
            BY DEF IInv, Shape
        <3>2. new = [dir |-> engine[e].dir, dirty |-> FALSE, timer |-> FALSE,
                     store |-> engine[e].store]
            BY <2>1, <3>1 DEF IsEngine
        <3> HIDE DEF new
        <3> QED
            BY <3>2 DEF IsEngine
    <2>2. CASE e # current
        BY <2>2, NoEngineIsOne
    <2> QED
        BY <2>1, <2>2
<1> HIDE DEF new
<1>5. Shape' /\ engine'[e] = new /\ \A o \in Engines \ {e} : engine'[o] = engine[o]
    <2>1. used' = used /\ current' = current
        BY <1>1
    <2>2. /\ used' = [engines |-> used'.engines, events |-> used'.events]
          /\ used'.engines \in used.engines..MaxEngines /\ current' \in 0..used'.engines
        BY <2>1, InboundAssumption DEF IInv, Shape
    <2> QED
        BY <1>1, <1>3, <1>4, <2>1, <2>2, ShapeKeeps DEF IInv
<1>6. ASSUME ~overlapped', current' # 0 PROVE Safe'
    <2>1. e = current
        BY <1>1, <1>3, <1>6 DEF IInv, Safe
    <2>2. \A o \in Engines \ {current'} : ~engine'[o].dirty
        BY <1>1, <1>3, <1>5, <1>6, <2>1 DEF IInv, Safe
    <2>3. \A s \in saves' : Covers(s.dir, engine'[e].dir)
        BY <1>3, <1>4, <1>5, <1>6, <2>1, CoversItself
    <2> QED
        BY <1>1, <1>3, <1>6, <2>1, <2>2, <2>3 DEF Safe
<1> QED
    BY <1>3, <1>5, <1>6 DEF IInv

LEMMA IInvDestroy == ASSUME IInv, Destroy PROVE IInv'
<1>1. /\ BeginSave(current, TRUE) /\ engine' = [engine EXCEPT ![current] = NoEngine]
      /\ current' = 0 /\ used' = [used EXCEPT !.events = @ + 1] /\ current \in Engines
      /\ current <= used.engines
    <2>1. current \in Engines /\ current <= used.engines
        BY InboundAssumption DEF Destroy, IInv, Shape, Engines
    <2> QED
        BY <2>1 DEF Destroy, Use
<1>2. /\ overlapped' \in BOOLEAN
      /\ \A s \in saves' : IsSave(s) /\ s.by \in 1..used.engines
      /\ ~overlapped' => Alone'
    BY <1>1, SaveBegins
<1>3. /\ used'.engines = used.engines /\ used' = [engines |-> used'.engines, events |-> used'.events]
      /\ used'.engines \in used.engines..MaxEngines /\ current' \in 0..used'.engines
    BY <1>1, InboundAssumption DEF IInv, Shape
<1>4. Shape'
    BY <1>1, <1>2, <1>3, NoEngineIsOne, ShapeKeeps DEF IInv
<1> QED
    BY <1>1, <1>2, <1>4 DEF IInv

LEMMA IInvDisconnect == ASSUME IInv, Disconnect PROVE IInv'
<1> DEFINE new == Ended(engine[current])
<1>1. /\ engine' = [engine EXCEPT ![current] = new] /\ UNCHANGED <<saves, disk, tmp, overlapped>>
      /\ current' = 0 /\ used' = [used EXCEPT !.events = @ + 1] /\ current \in Engines
      /\ current <= used.engines
    BY InboundAssumption DEF Disconnect, Use, IInv, Shape, Engines, stored
<1>2. IsEngine(new) /\ new.dirty \in BOOLEAN /\ new.timer = new.dirty
    BY NoEngineIsOne DEF Ended, NoEngine, IsEngine
<1> HIDE DEF new
<1>3. /\ used'.engines = used.engines /\ used' = [engines |-> used'.engines, events |-> used'.events]
      /\ used'.engines \in used.engines..MaxEngines /\ current' \in 0..used'.engines
      /\ ~(current > used.engines)
    BY <1>1, InboundAssumption DEF IInv, Shape, Engines
<1>4. Shape'
    BY <1>1, <1>2, <1>3, ShapeKeeps DEF IInv, Shape
<1> QED
    BY <1>1, <1>4 DEF IInv, Alone

LEMMA IInvStart == ASSUME IInv, Start PROVE IInv'
<1> DEFINE e == used.engines + 1
           new == [NoEngine EXCEPT !.dir = Load]
<1>1. /\ used.engines < MaxEngines /\ used' = [engines |-> e, events |-> used.events + 1]
      /\ engine' = [engine EXCEPT ![e] = new] /\ current' = e
      /\ overlapped' = (overlapped \/ IsBusyElsewhere(e)) /\ UNCHANGED <<saves, disk, tmp>>
    BY DEF Start, stored
<1>2. e \in Engines /\ e \in Nat
    BY <1>1, InboundAssumption DEF IInv, Shape, Engines
<1>4. IsEngine(new) /\ new.dirty = FALSE /\ new.timer = FALSE /\ new.dir = Load
    BY NoEngineIsOne, EngineChanges
<1> HIDE DEF new
<1>5. /\ used'.engines = e /\ used' = [engines |-> used'.engines, events |-> used'.events]
      /\ used'.engines \in used.engines..MaxEngines /\ current' \in 0..used'.engines
    BY <1>1, <1>2, InboundAssumption DEF IInv, Shape
<1>6. overlapped' \in BOOLEAN
    BY <1>1 DEF IInv, Shape, IsBusyElsewhere
<1>7. \A s \in saves : IsSave(s) /\ s.by \in 1..used.engines
    BY DEF IInv, Shape
<1>8. \A s \in saves' : IsSave(s) /\ s.by \in 1..used'.engines
    BY <1>1, <1>5, <1>7, InboundAssumption DEF IInv, Shape
<1>9. Shape' /\ engine'[e] = new /\ \A o \in Engines \ {e} : engine'[o] = engine[o]
    BY <1>1, <1>2, <1>4, <1>5, <1>6, <1>8, ShapeKeeps DEF IInv
<1>10. ASSUME ~overlapped' PROVE Alone' /\ Safe'
    <2>1. ~overlapped /\ ~IsBusyElsewhere(e)
        BY <1>1, <1>10
    <2>2. saves = {}
        BY <1>7, <2>1, InboundAssumption DEF IsBusyElsewhere, IInv, Shape
    <2>3. \A o \in Engines \ {e} : ~engine[o].dirty
        BY <2>1 DEF IsBusyElsewhere
    <2>4. Covers(Load', engine'[e].dir)
        BY <1>1, <1>4, <1>9, CoversItself DEF Load
    <2> QED
        BY <1>1, <1>4, <1>9, <2>2, <2>3, <2>4 DEF Alone, Safe
<1> QED
    BY <1>9, <1>10 DEF IInv

LEMMA IInvWritten == ASSUME IInv, NEW s \in saves, Written(s) PROVE IInv'
<1> DEFINE new == [s EXCEPT !.at = "renaming"]
<1>1. /\ saves' = (saves \ {s}) \cup {new} /\ UNCHANGED <<engine, current, overlapped, used>>
    BY DEF Written
<1>2. new = [by |-> s.by, nr |-> s.nr, dir |-> s.dir, at |-> "renaming",
             onto |-> s.onto, alone |-> s.alone, caught |-> s.caught]
    BY SaveChanges DEF IInv, Shape
<1>3. IsSave(new) /\ new.by = s.by /\ new.dir = s.dir /\ new.at = "renaming" /\ new.onto = s.onto
      /\ new.alone = s.alone /\ new.caught = s.caught
    BY <1>2 DEF IsSave
<1> HIDE DEF new
<1>4. Shape'
    BY <1>1, <1>3 DEF IInv, Shape, IsSave, IsEngine
<1>5. ASSUME ~overlapped' PROVE Alone' /\ (current' # 0 => Safe')
    <2>1. ~overlapped /\ saves' = {new} /\ s.onto = "tmp" /\ s.alone = TRUE
        BY <1>1, <1>5 DEF IInv, Alone
    <2>2. tmp' = File("whole", s.dir) /\ disk' = disk
        BY <2>1 DEF Written
    <2>3. Alone'
        BY <1>3, <2>1, <2>2 DEF Alone
    <2>4. ASSUME current # 0 PROVE Safe'
        BY <1>1, <1>3, <2>1, <2>4 DEF IInv, Safe
    <2> QED
        BY <1>1, <2>3, <2>4
<1> QED
    BY <1>4, <1>5 DEF IInv

LEMMA IInvRenamed == ASSUME IInv, NEW s \in saves, Renamed(s) PROVE IInv'
<1>1. /\ disk' = tmp /\ UNCHANGED <<engine, current, overlapped, used>> /\ s.at = "renaming"
      /\ saves' = {IF o.at = "writing" THEN [o EXCEPT !.onto = "disk"] ELSE o : o \in saves \ {s}}
    BY DEF Renamed, Done
<1>2. \A o \in saves : IsSave([o EXCEPT !.onto = "disk"]) /\ [o EXCEPT !.onto = "disk"].by = o.by
    <2> SUFFICES ASSUME NEW o \in saves
                 PROVE  IsSave([o EXCEPT !.onto = "disk"]) /\ [o EXCEPT !.onto = "disk"].by = o.by
        OBVIOUS
    <2>1. IsSave(o)
        BY DEF IInv, Shape
    <2>2. [o EXCEPT !.onto = "disk"] = [by |-> o.by, nr |-> o.nr, dir |-> o.dir, at |-> o.at,
                                        onto |-> "disk", alone |-> o.alone, caught |-> o.caught]
        BY <2>1, SaveChanges
    <2> QED
        BY <2>2 DEF IsSave
<1>3. \A o \in saves : IsSave(o) /\ o.by \in 1..used.engines
    BY DEF IInv, Shape
<1>4. \A o \in saves' : IsSave(o) /\ o.by \in 1..used.engines
    BY <1>1, <1>2, <1>3
<1>5. Shape'
    BY <1>1, <1>4 DEF IInv, Shape, IsEngine, IsSave
<1>6. ASSUME ~overlapped' PROVE Alone' /\ (current' # 0 => Safe')
    <2>1. ~overlapped /\ saves = {s} /\ tmp = File("whole", s.dir)
        BY <1>1, <1>6 DEF IInv, Alone
    <2>2. saves' = {} /\ Load' = s.dir
        BY <1>1, <2>1 DEF Load, File
    <2>3. ASSUME current # 0 PROVE Safe'
        BY <1>1, <2>1, <2>2, <2>3 DEF IInv, Safe
    <2> QED
        BY <1>1, <2>2, <2>3 DEF Alone
<1> QED
    BY <1>5, <1>6 DEF IInv

LEMMA IInvDies ==
    ASSUME IInv, Dies, used' = used \/ used' = [used EXCEPT !.events = @ + 1] PROVE IInv'
<1>1. engine' = [e \in Engines |-> NoEngine] /\ current' = 0 /\ saves' = {} /\ overlapped' = FALSE
    BY DEF Dies
<1>2. \A e \in Engines : engine'[e] = NoEngine
    BY <1>1
<1>3. engine' = [e \in Engines |-> engine'[e]]
    BY <1>1, <1>2
<1>4. /\ used'.engines = used.engines /\ used' = [engines |-> used'.engines, events |-> used'.events]
      /\ current' \in 0..used'.engines
    BY <1>1, InboundAssumption DEF IInv, Shape
<1>5. Shape'
    BY <1>1, <1>2, <1>3, <1>4, NoEngineIsOne DEF IInv, Shape
<1>6. Alone'
    BY <1>1 DEF Alone
<1> QED
    BY <1>1, <1>5, <1>6 DEF IInv

LEMMA IInvSaveFails == ASSUME IInv, NEW s \in saves, SaveFails(s) PROVE IInv'
<1>1. used' = used \/ used' = [used EXCEPT !.events = @ + 1]
    BY DEF SaveFails, Use
<1>2. CASE ~s.caught
    BY <1>1, <1>2, IInvDies DEF SaveFails
<1>3. CASE s.caught
    <2>1. saves' = saves \ {s} /\ UNCHANGED <<engine, current, disk, tmp, overlapped>>
        BY <1>3 DEF SaveFails
    <2>2. /\ used'.engines = used.engines
          /\ used' = [engines |-> used'.engines, events |-> used'.events]
        BY <1>1 DEF IInv, Shape
    <2>3. Shape'
        BY <2>1, <2>2 DEF IInv, Shape, IsEngine, IsSave
    <2>4. Alone => Alone'
        BY <2>1 DEF Alone
    <2>5. ~overlapped => current = 0
        BY <1>3 DEF IInv, Safe
    <2> QED
        BY <2>1, <2>3, <2>4, <2>5 DEF IInv
<1> QED
    BY <1>2, <1>3

\* A step that leaves the directories and the files alone.
LEMMA IInvFrame ==
    ASSUME IInv, UNCHANGED <<engine, current, saves, disk, tmp, overlapped, used>> PROVE IInv'
<1>1. Shape'
    BY DEF IInv, Shape, IsEngine, IsSave
<1>2. Alone => Alone'
    BY DEF Alone
<1>3. Safe => Safe'
    BY DEF Safe, Load
<1> QED
    BY <1>1, <1>2, <1>3 DEF IInv

LEMMA IInvContact == ASSUME IInv, Contact PROVE IInv'
<1>1. PICK p \in People, forms \in SUBSET Forms \ {{}}, fields \in {{}, {"savedName"}} :
        engine' = [engine EXCEPT ![current] =
                      Learned(current, LearnContact(@.dir, p, forms, fields))]
    BY DEF Contact
<1>2. UNCHANGED <<current, saves, disk, tmp, overlapped>> /\ current # 0
      /\ used' = [used EXCEPT !.events = @ + 1]
    BY DEF Contact, Use, stored
<1> DEFINE d == LearnContact(engine[current].dir, p, forms, fields)
<1>3. engine' = [engine EXCEPT ![current] = Learned(current, d)]
    BY <1>1
<1> HIDE DEF d
<1> QED
    BY <1>2, <1>3, LearningKeeps

LEMMA IInvGroups == ASSUME IInv, GroupsCome PROVE IInv'
<1>1. PICK p \in People :
        engine' = [engine EXCEPT ![current] = Learned(current, LearnContact(@.dir, p, Forms, {}))]
    BY DEF GroupsCome
<1>2. UNCHANGED <<current, saves, disk, tmp, overlapped>> /\ current # 0
      /\ used' = [used EXCEPT !.events = @ + 1]
    BY DEF GroupsCome, Use, stored
<1> DEFINE d == LearnContact(engine[current].dir, p, Forms, {})
<1>3. engine' = [engine EXCEPT ![current] = Learned(current, d)]
    BY <1>1
<1> HIDE DEF d
<1> QED
    BY <1>2, <1>3, LearningKeeps

LEMMA IInvHistory == ASSUME IInv, HistoryComes PROVE IInv'
<1>1. UNCHANGED <<current, saves, disk, tmp, overlapped>> /\ current # 0
      /\ used' = [used EXCEPT !.events = @ + 1]
    BY DEF HistoryComes, Use, stored
<1>2. \E d : engine' = [engine EXCEPT ![current] = Learned(current, d)]
    BY DEF HistoryComes
<1>3. PICK d : engine' = [engine EXCEPT ![current] = Learned(current, d)]
    BY <1>2
<1> QED
    BY <1>1, <1>3, LearningKeeps

LEMMA IInvArrive == ASSUME IInv, NEW m \in Messages, Arrive(m) PROVE IInv'
<1>1. UNCHANGED <<current, saves, disk, tmp, overlapped>> /\ current # 0
      /\ used' = [used EXCEPT !.events = @ + 1]
    BY DEF Arrive, Use, stored
<1>2. \E d, p, form, chat :
        engine' = [engine EXCEPT ![current] = [Learned(current, d)
                                                  EXCEPT !.store = Add(@, p, form, chat, m)]]
    BY DEF Arrive
<1>3. PICK d, p, form, chat :
        engine' = [engine EXCEPT ![current] = [Learned(current, d)
                                                  EXCEPT !.store = Add(@, p, form, chat, m)]]
    BY <1>2
<1> DEFINE store == Add(Learned(current, d).store, p, form, chat, m)
<1>4. engine' = [engine EXCEPT ![current] = [Learned(current, d) EXCEPT !.store = store]]
    BY <1>3
<1> HIDE DEF store
<1> QED
    BY <1>1, <1>4, LearningKeeps

\* Every step keeps the invariant.
LEMMA IInvStep == IInv /\ [Next]_vars => IInv'
<1> SUFFICES ASSUME IInv, [Next]_vars PROVE IInv'
    OBVIOUS
<1>1. CASE Start
    BY <1>1, IInvStart
<1>2. CASE Destroy
    BY <1>2, IInvDestroy
<1>3. CASE Disconnect
    BY <1>3, IInvDisconnect
<1>4. CASE Crash
    BY <1>4, IInvDies DEF Crash, Use
<1>5. CASE \E e \in Engines : Timer(e)
    BY <1>5, IInvTimer
<1>6. CASE \E s \in saves : Written(s) \/ Renamed(s) \/ SaveFails(s)
    BY <1>6, IInvWritten, IInvRenamed, IInvSaveFails
<1>7. CASE Contact
    BY <1>7, IInvContact
<1>8. CASE GroupsCome
    BY <1>8, IInvGroups
<1>9. CASE HistoryComes
    BY <1>9, IInvHistory
<1>10. CASE \E m \in Messages : Arrive(m)
    BY <1>10, IInvArrive
<1>11. CASE \E m \in Messages : Fetched(m) \/ Hooked(m)
    BY <1>11, IInvFrame DEF Fetched, Hooked, stored
<1>12. CASE \E a \in appends : AppendPart(a) \/ AppendRest(a)
    BY <1>12, IInvFrame DEF AppendPart, AppendRest, stored
<1>13. CASE UNCHANGED vars
    BY <1>13, IInvFrame DEF vars
<1> QED
    BY <1>1, <1>2, <1>3, <1>4, <1>5, <1>6, <1>7, <1>8, <1>9, <1>10, <1>11, <1>12, <1>13 DEF Next

\* What is learned and not in the file is on its way there, or has its timer.
LEMMA IInvCovers == IInv => NothingForgotten
<1> SUFFICES ASSUME IInv, current # 0, ~overlapped
             PROVE  \/ Covers(Load, engine[current].dir)
                    \/ engine[current].dirty /\ engine[current].timer
                    \/ \E s \in saves : s.by = current /\ Covers(s.dir, engine[current].dir)
    BY DEF NothingForgotten
<1>1. current \in Engines
    BY InboundAssumption DEF IInv, Shape, Engines
<1>2. CASE engine[current].dirty
    BY <1>1, <1>2 DEF IInv, Shape
<1>3. CASE ~engine[current].dirty
    BY <1>3 DEF IInv, Safe
<1> QED
    BY <1>2, <1>3

\* What the session's engine has learned of its contacts is in the file, on its way there or has
\* a timer, in every run (baileys-contact-directory.ts, scheduleSave and save).
THEOREM InboundForgetsNothing == Spec => []NothingForgotten
<1>1. Init => IInv
    BY IInvInit
<1>2. IInv /\ [Next]_vars => IInv'
    BY IInvStep
<1>3. IInv => NothingForgotten
    BY IInvCovers
<1> QED
    BY <1>1, <1>2, <1>3, PTL DEF Spec

-----------------------------------------------------------------------------
(* Types.                                                                   *)

\* A name is an entry's.
IsDir(d) == d \in Directories /\ \A n \in d.names : n[1] \in d.there
IsFile(f) == f = File(f.is, f.dir) /\ f.is \in {"missing", "torn", "whole"} /\ IsDir(f.dir)

Stages == {"coming", "fetching", "hooks", "dispatched", "stopped", "dropped", "lost"}
MessageRecords == [at : Stages, by : {0} \cup Engines, nr : Nat, chat : Forms]
Parts == {"whole", "head", "tail"}
Lines == [of : DOMAIN Who, form : Forms]
Pieces == [of : DOMAIN Who, form : Forms, part : Parts]

\* An append has lines, and has written some of them.
IsAppend(a) ==
    /\ a = [chunk |-> a.chunk, written |-> a.written, lines |-> a.lines]
    /\ a.lines \in Seq(Lines) /\ Len(a.lines) > 0 /\ a.written \in 0..Len(a.lines)

\* Every directory is one, wherever it is: with an engine, in a file, or about to be written.
Directory ==
    /\ \A e \in Engines : IsDir(engine[e].dir)
    /\ IsFile(disk) /\ IsFile(tmp) /\ \A s \in saves : IsDir(s.dir)

-----------------------------------------------------------------------------
(* The messages that are kept for replies.                                   *)

\* The messages that have come in.
Arrived == {m \in Messages : message[m].at # "coming"}

\* The messages are numbered as they arrive.
Numbered ==
    /\ message \in [Messages -> MessageRecords] /\ IsFiniteSet(Arrived)
    /\ \A m \in Arrived : message[m].nr \in 1..Cardinality(Arrived) /\ message[m].by \in 1..used.engines
    /\ \A m \in Messages \ Arrived : message[m] = NoMessage

\* The list of a chat has messages of that chat, in the order of their numbers.
IsListOf(list, key) ==
    /\ list \in Seq(Arrived) /\ Len(list) <= MaxPerChat
    /\ \A i \in DOMAIN list : /\ message[list[i]].by = current
                              /\ Who[list[i]] = key[1] /\ message[list[i]].chat = key[2]
    /\ \A i, j \in DOMAIN list : i < j => message[list[i]].nr < message[list[j]].nr

\* What has come after m in its chat.
Later(m) == {n \in Messages : message[n].by = current /\ Who[n] = Who[m]
                              /\ message[n].chat = message[m].chat
                              /\ message[n].nr > message[m].nr}

\* A message of the session's engine is in its list, or enough have come after it.
IsRemembered(m) ==
    \/ \E i \in DOMAIN engine[current].store[<<Who[m], message[m].chat>>] :
          engine[current].store[<<Who[m], message[m].chat>>][i] = m
    \/ Cardinality(Later(m)) >= MaxPerChat

\* The lists of the session's engine.
Remembered ==
    current # 0 =>
        /\ engine[current].store = [k \in Ids |-> engine[current].store[k]]
        /\ \A k \in Ids : IsListOf(engine[current].store[k], k)
        /\ \A m \in Arrived : message[m].by = current => IsRemembered(m)

-----------------------------------------------------------------------------
(* The history.                                                             *)

\* A line that was begun and that something else follows: it is never finished.
Broken == \E i \in 1..(Len(history) - 1) : IsHead(i) /\ ~Continues(i + 1)

\* The history has a line of m that can be read.
IsFound(m) == \E i \in DOMAIN history : history[i].of = m /\ Parses(i)

\* One append at a time is cut, at the end of the history, and what it has written can be read.
Cut(a) ==
    /\ Len(history) > 0 /\ history[Len(history)] = Piece(a.lines[a.written], "head")
    /\ \A i \in 1..(a.written - 1) : IsFound(a.lines[i].of)

\* As long as no line is broken, all that was kept is found, and one append at most is cut.
Appended ==
    /\ history \in Seq(Pieces) /\ kept \subseteq DOMAIN Who
    /\ \A a \in appends : IsAppend(a)
    /\ ~Broken => /\ \A m \in kept : IsFound(m)
                  /\ \A a \in appends : a.written # 0 => Cut(a)
                  /\ \A a, b \in appends : a.written # 0 /\ b.written # 0 => a = b

\* The inductive invariant of the messages and the history, next to IInv.
Holds == Directory /\ Numbered /\ Remembered /\ Appended

-----------------------------------------------------------------------------
(* The directory.                                                           *)

LEMMA DirHas ==
    ASSUME NEW d, IsDir(d)
    PROVE  /\ d = [known |-> d.known, there |-> d.there, names |-> d.names]
           /\ d.known \subseteq People /\ d.there \subseteq Ids /\ d.names \subseteq Ids \X Fields
           /\ \A n \in d.names : n[1] \in d.there
    BY DEF IsDir, Directories

LEMMA DirIs ==
    ASSUME NEW known \in SUBSET People, NEW there \in SUBSET Ids, NEW names \in SUBSET (Ids \X Fields),
           \A n \in names : n[1] \in there
    PROVE  IsDir([known |-> known, there |-> there, names |-> names])
    BY DEF IsDir, Directories

LEMMA EmptyIsDir == IsDir(Empty)
    BY DirIs DEF Empty

LEMMA ResolvesToForm ==
    ASSUME NEW d, NEW p, NEW form \in Forms PROVE Resolve(d, p, form) \in Forms
    BY DEF Resolve, Forms

LEMMA MovedIsDir ==
    ASSUME NEW d, IsDir(d), NEW p \in People
    PROVE  IsDir(Moved(d, p)) /\ Moved(d, p).known = d.known
<1> DEFINE there == (d.there \ {<<p, "lid">>}) \cup {<<p, "pn">>}
           names == {n \in d.names : n[1] # <<p, "lid">>} \cup ({<<p, "pn">>} \X NamesUnder(d, p, "lid"))
           one == [d EXCEPT !.there = there]
<1>1. /\ d = [known |-> d.known, there |-> d.there, names |-> d.names]
      /\ d.known \subseteq People /\ d.there \subseteq Ids /\ d.names \subseteq Ids \X Fields
      /\ \A n \in d.names : n[1] \in d.there
    BY DirHas
<1>2. <<p, "pn">> \in Ids
    BY DEF Ids, Forms
<1>3. there \in SUBSET Ids
    BY <1>1, <1>2
<1>4. NamesUnder(d, p, "lid") \subseteq Fields
    BY DEF NamesUnder
<1>5. names \in SUBSET (Ids \X Fields)
    BY <1>1, <1>2, <1>4
<1>6. \A n \in names : n[1] \in there
    BY <1>1
<1>7. Moved(d, p) \in {d, [one EXCEPT !.names = names]}
    BY <1>1 DEF Moved
<1>8. one = [known |-> d.known, there |-> there, names |-> d.names]
    BY <1>1
<1> HIDE DEF there, names, one
<1>9. [one EXCEPT !.names = names] = [known |-> d.known, there |-> there, names |-> names]
    BY <1>8
<1> QED
    BY <1>1, <1>3, <1>5, <1>6, <1>7, <1>9, DirIs

LEMMA MergeIsDir ==
    ASSUME NEW d, IsDir(d), NEW p \in People, NEW key \in Forms, NEW fields \in SUBSET Fields
    PROVE  IsDir(Merge(d, p, key, fields)) /\ Merge(d, p, key, fields).known = d.known
<1> DEFINE e == IF key = "pn" THEN Moved(d, p) ELSE d
           there == e.there \cup {<<p, key>>}
           names == e.names \cup ({<<p, key>>} \X fields)
           one == [e EXCEPT !.there = there]
<1>1. IsDir(e) /\ e.known = d.known
    BY MovedIsDir
<1>2. Merge(d, p, key, fields) = [one EXCEPT !.names = names]
    BY <1>1 DEF Merge, IsDir, Directories
<1> HIDE DEF e
<1>3. /\ e = [known |-> e.known, there |-> e.there, names |-> e.names]
      /\ e.known \subseteq People /\ e.there \subseteq Ids /\ e.names \subseteq Ids \X Fields
      /\ \A n \in e.names : n[1] \in e.there
    BY <1>1, DirHas
<1>4. <<p, key>> \in Ids
    BY DEF Ids
<1>5. there \in SUBSET Ids /\ names \in SUBSET (Ids \X Fields)
    BY <1>3, <1>4
<1>6. \A n \in names : n[1] \in there
    BY <1>3
<1>7. one = [known |-> e.known, there |-> there, names |-> e.names]
    BY <1>3
<1> HIDE DEF there, names, one
<1>8. [one EXCEPT !.names = names] = [known |-> e.known, there |-> there, names |-> names]
    BY <1>7
<1> QED
    BY <1>1, <1>2, <1>3, <1>5, <1>6, <1>8, DirIs

LEMMA LearnContactIsDir ==
    ASSUME NEW d, IsDir(d), NEW p \in People, NEW forms, NEW fields \in SUBSET Fields
    PROVE  IsDir(LearnContact(d, p, forms, fields))
<1> DEFINE known == d.known \cup {p}
           e == IF forms = Forms THEN [d EXCEPT !.known = known] ELSE d
           key == IF "pn" \in forms THEN "pn" ELSE Resolve(e, p, "lid")
<1>1. LearnContact(d, p, forms, fields) = Merge(e, p, key, fields)
    BY DEF LearnContact
<1>2. [d EXCEPT !.known = known] = [known |-> known, there |-> d.there, names |-> d.names]
    BY DirHas
<1>3. IsDir([known |-> known, there |-> d.there, names |-> d.names])
    BY DirHas, DirIs
<1>4. IsDir(e)
    BY <1>2, <1>3
<1>5. key \in Forms
    BY ResolvesToForm DEF Forms
<1> HIDE DEF e, key
<1> QED
    BY <1>1, <1>4, <1>5, MergeIsDir

LEMMA LearnPushNameIsDir ==
    ASSUME NEW d, IsDir(d), NEW p \in People, NEW form \in Forms, NEW named
    PROVE  IsDir(LearnPushName(d, p, form, named))
<1>1. Resolve(d, p, form) \in Forms
    BY ResolvesToForm
<1>2. (IF named THEN {"pushName"} ELSE {}) \in SUBSET Fields
    BY DEF Fields
<1> QED
    BY <1>1, <1>2, MergeIsDir DEF LearnPushName

LEMMA LearnSendersIsDir ==
    ASSUME NEW d, IsDir(d), NEW people \in SUBSET People, NEW form \in Forms
    PROVE  IsDir(LearnSenders(d, people, form))
<1> DEFINE new(p) == LearnPushName(d, p, form, FALSE)
           there == {k \in d.there : k[1] \notin people}
                    \cup UNION {{k \in new(p).there : k[1] = p} : p \in people}
           names == {n \in d.names : n[1][1] \notin people}
                    \cup UNION {{n \in new(p).names : n[1][1] = p} : p \in people}
           one == [d EXCEPT !.there = there]
<1>1. /\ d = [known |-> d.known, there |-> d.there, names |-> d.names]
      /\ d.known \subseteq People /\ d.there \subseteq Ids /\ d.names \subseteq Ids \X Fields
      /\ \A n \in d.names : n[1] \in d.there
    BY DirHas
<1>2. \A p \in people : /\ new(p).there \subseteq Ids /\ new(p).names \subseteq Ids \X Fields
                        /\ \A n \in new(p).names : n[1] \in new(p).there
    BY LearnPushNameIsDir, DirHas
<1>3. LearnSenders(d, people, form) = [one EXCEPT !.names = names]
    BY <1>1 DEF LearnSenders
<1> HIDE DEF new
<1>4. there \in SUBSET Ids
    BY <1>1, <1>2
<1>5. names \in SUBSET (Ids \X Fields)
    BY <1>1, <1>2
<1>6. ASSUME NEW n \in names PROVE n[1] \in there
    <2>1. CASE n \in d.names /\ n[1][1] \notin people
        BY <1>1, <2>1
    <2>2. ASSUME NEW p \in people, n \in new(p).names, n[1][1] = p PROVE n[1] \in there
        BY <1>2, <2>2
    <2> QED
        BY <2>1, <2>2
<1> HIDE DEF there, names
<1>7. one = [known |-> d.known, there |-> there, names |-> d.names]
    BY <1>1
<1> HIDE DEF one
<1>8. [one EXCEPT !.names = names] = [known |-> d.known, there |-> there, names |-> names]
    BY <1>7
<1> QED
    BY <1>1, <1>3, <1>4, <1>5, <1>6, <1>8, DirIs


-----------------------------------------------------------------------------
(* The directory of every engine, and its file.                              *)

LEMMA NoEngineHas == NoEngine.dir = Empty /\ NoEngine.store = [i \in Ids |-> <<>>]
    BY DEF NoEngine

\* Learning changes the directory, and nothing of the messages.
LEMMA LearnedHas ==
    ASSUME Shape, NEW e \in Engines, NEW d
    PROVE  Learned(e, d).dir = d /\ Learned(e, d).store = engine[e].store
<1> DEFINE old == engine[e]
           one == [old EXCEPT !.dir = d]
           two == [one EXCEPT !.dirty = TRUE]
           three == [two EXCEPT !.timer = TRUE]
<1>1. old = [dir |-> old.dir, dirty |-> old.dirty, timer |-> old.timer, store |-> old.store]
    BY DEF Shape, IsEngine
<1>2. one = [dir |-> d, dirty |-> old.dirty, timer |-> old.timer, store |-> old.store]
    BY <1>1
<1>3. Learned(e, d) \in {one, three}
    BY <1>1 DEF Learned
<1> HIDE DEF old, one
<1>4. three.dir = d /\ three.store = old.store
    BY <1>2
<1> HIDE DEF three
<1> QED
    BY <1>2, <1>3, <1>4 DEF old

\* The session's engine has learned d, and keeps the messages of store.
Learns(d, store) ==
    /\ current \in Engines
    /\ engine'[current].dir = d /\ engine'[current].store = store
    /\ \A e \in Engines \ {current} : engine'[e] = engine[e]

LEMMA LearningOnly ==
    ASSUME IInv, current # 0, NEW d, engine' = [engine EXCEPT ![current] = Learned(current, d)]
    PROVE  Learns(d, engine[current].store)
<1>1. current \in Engines
    BY InboundAssumption DEF IInv, Shape, Engines
<1>2. engine'[current] = Learned(current, d) /\ \A e \in Engines \ {current} : engine'[e] = engine[e]
    BY <1>1 DEF IInv, Shape
<1>3. Learned(current, d).dir = d /\ Learned(current, d).store = engine[current].store
    BY <1>1, LearnedHas DEF IInv
<1> QED
    BY <1>1, <1>2, <1>3 DEF Learns

LEMMA LearningStores ==
    ASSUME IInv, current # 0, NEW d, NEW store,
           engine' = [engine EXCEPT ![current] = [Learned(current, d) EXCEPT !.store = store]]
    PROVE  Learns(d, store)
<1>1. current \in Engines
    BY InboundAssumption DEF IInv, Shape, Engines
<1>2. /\ engine'[current] = [Learned(current, d) EXCEPT !.store = store]
      /\ \A e \in Engines \ {current} : engine'[e] = engine[e]
    BY <1>1 DEF IInv, Shape
<1>3. Learned(current, d).dir = d /\ IsEngine(Learned(current, d))
    BY <1>1, LearnedHas, LearnedKeeps DEF IInv
<1>4. engine'[current].dir = d /\ engine'[current].store = store
    BY <1>2, <1>3 DEF IsEngine
<1> QED
    BY <1>1, <1>2, <1>4 DEF Learns

LEMMA DirectoryLearns ==
    ASSUME Directory, NEW d, NEW store, Learns(d, store), IsDir(d), UNCHANGED <<disk, tmp, saves>>
    PROVE  Directory'
    BY DEF Directory, Learns, IsFile, IsDir

LEMMA DirectorySame == ASSUME Directory, UNCHANGED <<engine, disk, tmp, saves>> PROVE Directory'
    BY DEF Directory, IsFile, IsDir

LEMMA TornIsFile == IsFile(Torn) /\ IsFile(Missing)
    BY EmptyIsDir DEF IsFile, Torn, Missing, File

\* What is left of the files and the saves after one has begun.
LEMMA DirectoryBegins ==
    ASSUME IInv, Directory, NEW e \in Engines, NEW caught, BeginSave(e, caught)
    PROVE  IsFile(disk)' /\ IsFile(tmp)' /\ \A s \in saves' : IsDir(s.dir)
<1>1. CASE engine[e].dirty
    <2> DEFINE new(o) == IF o.at = "writing" THEN [o EXCEPT !.alone = FALSE] ELSE o
    <2>1. \A s \in saves' : s.dir = engine[e].dir \/ \E o \in saves : s = new(o)
        BY <1>1 DEF BeginSave
    <2>2. ASSUME NEW o \in saves PROVE new(o).dir = o.dir
        BY DEF IInv, Shape, IsSave
    <2> HIDE DEF new
    <2>3. \A s \in saves' : IsDir(s.dir)
        BY <2>1, <2>2 DEF Directory
    <2>4. disk' = disk /\ tmp' = Torn
        BY <1>1 DEF BeginSave
    <2> QED
        BY <2>3, <2>4, TornIsFile DEF Directory, IsFile, IsDir
<1>2. CASE ~engine[e].dirty
    BY <1>2 DEF BeginSave, stored, Directory, IsFile, IsDir
<1> QED
    BY <1>1, <1>2

LEMMA DirectoryTimer == ASSUME IInv, Directory, NEW e \in Engines, Timer(e) PROVE Directory'
<1> DEFINE one == [engine[e] EXCEPT !.timer = FALSE]
           two == [one EXCEPT !.dirty = FALSE]
<1>1. /\ engine'[e] \in {two, NoEngine} /\ \A o \in Engines \ {e} : engine'[o] = engine[o]
    BY DEF Timer, IInv, Shape
<1>2. one.dir = engine[e].dir
    BY DEF IInv, Shape, IsEngine
<1>3. two.dir = engine[e].dir
    BY <1>2 DEF IInv, Shape, IsEngine
<1> HIDE DEF two
<1>4. \A o \in Engines : IsDir(engine'[o].dir)
    BY <1>1, <1>3, NoEngineHas, EmptyIsDir DEF Directory
<1>5. IsFile(disk)' /\ IsFile(tmp)' /\ \A s \in saves' : IsDir(s.dir)
    BY DirectoryBegins DEF Timer
<1> QED
    BY <1>4, <1>5 DEF Directory, IsDir

LEMMA DirectoryDestroy == ASSUME IInv, Directory, Destroy PROVE Directory'
<1>1. current \in Engines
    BY InboundAssumption DEF Destroy, IInv, Shape, Engines
<1>2. engine'[current] = NoEngine /\ \A o \in Engines \ {current} : engine'[o] = engine[o]
    BY <1>1 DEF Destroy, IInv, Shape
<1>3. \A o \in Engines : IsDir(engine'[o].dir)
    BY <1>2, NoEngineHas, EmptyIsDir DEF Directory
<1>4. IsFile(disk)' /\ IsFile(tmp)' /\ \A s \in saves' : IsDir(s.dir)
    BY <1>1, DirectoryBegins DEF Destroy
<1> QED
    BY <1>3, <1>4 DEF Directory, IsDir

LEMMA DirectoryDisconnect == ASSUME IInv, Directory, Disconnect PROVE Directory'
<1> DEFINE e == engine[current]
           one == [NoEngine EXCEPT !.dir = e.dir]
           two == [one EXCEPT !.dirty = TRUE]
           three == [two EXCEPT !.timer = TRUE]
<1>1. current \in Engines
    BY InboundAssumption DEF Disconnect, IInv, Shape, Engines
<1>2. engine'[current] = Ended(e) /\ \A o \in Engines \ {current} : engine'[o] = engine[o]
    BY <1>1 DEF Disconnect, IInv, Shape
<1>3. Ended(e) \in {three, NoEngine}
    BY DEF Ended
<1>4. one = [dir |-> e.dir, dirty |-> NoEngine.dirty, timer |-> NoEngine.timer, store |-> NoEngine.store]
    BY NoEngineIsOne DEF IsEngine
<1> HIDE DEF one
<1>5. three.dir = e.dir
    BY <1>4
<1> HIDE DEF three
<1>6. \A o \in Engines : IsDir(engine'[o].dir)
    BY <1>1, <1>2, <1>3, <1>5, NoEngineHas, EmptyIsDir DEF Directory
<1>7. UNCHANGED <<saves, disk, tmp>>
    BY DEF Disconnect, stored
<1> QED
    BY <1>6, <1>7 DEF Directory, IsFile, IsDir

LEMMA DirectoryStart == ASSUME IInv, Directory, Start PROVE Directory'
<1> DEFINE e == used.engines + 1
<1>1. e \in Engines
    BY InboundAssumption DEF Start, IInv, Shape, Engines
<1>2. /\ engine' = [engine EXCEPT ![e] = [NoEngine EXCEPT !.dir = Load]]
      /\ UNCHANGED <<saves, disk, tmp>>
    BY DEF Start, stored
<1> HIDE DEF e
<1>3. /\ engine'[e] = [NoEngine EXCEPT !.dir = Load]
      /\ \A o \in Engines \ {e} : engine'[o] = engine[o]
    BY <1>1, <1>2 DEF IInv, Shape
<1>4. engine'[e].dir = disk.dir
    BY <1>3 DEF NoEngine, Load
<1>5. \A o \in Engines : IsDir(engine'[o].dir)
    BY <1>3, <1>4 DEF Directory, IsFile
<1> QED
    BY <1>2, <1>5 DEF Directory, IsFile, IsDir

LEMMA DirectoryWritten == ASSUME IInv, Directory, NEW s \in saves, Written(s) PROVE Directory'
<1>1. [s EXCEPT !.at = "renaming"].dir = s.dir /\ IsDir(s.dir)
    BY DEF IInv, Shape, IsSave, Directory
<1>2. PICK content \in {File("whole", s.dir), Torn} :
          \/ tmp' = content /\ UNCHANGED disk
          \/ disk' = content /\ UNCHANGED tmp
    BY DEF Written
<1>3. IsFile(content)
    BY <1>1, TornIsFile DEF IsFile, File
<1>4. IsFile(disk)' /\ IsFile(tmp)'
    BY <1>2, <1>3 DEF Directory, IsFile, IsDir
<1>5. saves' = (saves \ {s}) \cup {[s EXCEPT !.at = "renaming"]} /\ UNCHANGED engine
    BY DEF Written
<1>6. \A o \in saves' : IsDir(o.dir)
    BY <1>1, <1>5 DEF Directory
<1> QED
    BY <1>4, <1>5, <1>6 DEF Directory, IsDir

LEMMA DirectoryRenamed == ASSUME IInv, Directory, NEW s \in saves, Renamed(s) PROVE Directory'
<1> DEFINE new(o) == IF o.at = "writing" THEN [o EXCEPT !.onto = "disk"] ELSE o
<1>1. ASSUME NEW o \in saves PROVE new(o).dir = o.dir
    BY DEF IInv, Shape, IsSave
<1>2. saves' = {new(o) : o \in saves \ {s}}
    BY DEF Renamed
<1> HIDE DEF new
<1>3. \A o \in saves' : IsDir(o.dir)
    BY <1>1, <1>2 DEF Directory
<1>4. disk' = tmp /\ tmp' = Missing /\ engine' = engine
    BY DEF Renamed, Done
<1> QED
    BY <1>3, <1>4, TornIsFile DEF Directory, IsFile, IsDir

LEMMA DirectoryDies == ASSUME Directory, Dies PROVE Directory'
<1>1. \A e \in Engines : engine'[e] = NoEngine
    BY DEF Dies
<1> QED
    BY <1>1, NoEngineHas, EmptyIsDir, TornIsFile DEF Dies, Directory, IsFile, IsDir

LEMMA DirectorySaveFails == ASSUME IInv, Directory, NEW s \in saves, SaveFails(s) PROVE Directory'
<1>1. CASE Dies
    BY <1>1, DirectoryDies
<1>2. CASE saves' = saves \ {s} /\ UNCHANGED <<engine, current, incoming, disk, tmp, overlapped>>
    BY <1>2 DEF Directory, IsFile, IsDir
<1> QED
    BY <1>1, <1>2 DEF SaveFails

LEMMA DirectoryContact == ASSUME IInv, Directory, Contact \/ GroupsCome PROVE Directory'
<1>1. current \in Engines /\ UNCHANGED <<disk, tmp, saves>>
    BY InboundAssumption DEF Contact, GroupsCome, IInv, Shape, Engines, stored
<1>2. \E p \in People, forms \in SUBSET Forms, fields \in SUBSET Fields :
        engine' = [engine EXCEPT ![current] =
                      Learned(current, LearnContact(engine[current].dir, p, forms, fields))]
    <2>1. {"savedName"} \in SUBSET Fields /\ {} \in SUBSET Fields
        BY DEF Fields
    <2> DEFINE learns(p, forms, fields) == engine' = [engine EXCEPT ![current] =
                      Learned(current, LearnContact(engine[current].dir, p, forms, fields))]
    <2> SUFFICES \E p \in People, forms \in SUBSET Forms, fields \in SUBSET Fields : learns(p, forms, fields)
        OBVIOUS
    <2>2. CASE Contact
        <3>1. PICK p \in People, forms \in SUBSET Forms \ {{}}, fields \in {{}, {"savedName"}} :
                learns(p, forms, fields)
            BY <2>2 DEF Contact
        <3> HIDE DEF learns
        <3> QED
            BY <2>1, <3>1
    <2>3. CASE GroupsCome
        <3>1. PICK p \in People :
                learns(p, Forms, {})
            BY <2>3 DEF GroupsCome
        <3> HIDE DEF learns
        <3> QED
            BY <2>1, <3>1
    <2> QED
        BY <2>2, <2>3
<1>3. PICK p \in People, forms \in SUBSET Forms, fields \in SUBSET Fields :
        engine' = [engine EXCEPT ![current] =
                      Learned(current, LearnContact(engine[current].dir, p, forms, fields))]
    BY <1>2
<1> DEFINE d == LearnContact(engine[current].dir, p, forms, fields)
<1>4. IsDir(d)
    BY <1>1, LearnContactIsDir DEF Directory
<1>5. engine' = [engine EXCEPT ![current] = Learned(current, d)]
    BY <1>3
<1>6. current # 0
    BY DEF Contact, GroupsCome
<1> HIDE DEF d
<1> QED
    BY <1>1, <1>4, <1>5, <1>6, LearningOnly, DirectoryLearns

LEMMA DirectoryHistory == ASSUME IInv, Directory, HistoryComes PROVE Directory'
<1>1. current \in Engines /\ UNCHANGED <<disk, tmp, saves>> /\ current # 0
    BY InboundAssumption DEF HistoryComes, IInv, Shape, Engines, stored
<1>2. PICK chunk \in Chunks, raw \in Forms, mapped \in BOOLEAN :
        LET first == engine[current].dir
            dir == IF mapped THEN LearnContact(first, Who[chunk[1]], Forms, {"pushName"}) ELSE first
        IN engine' = [engine EXCEPT ![current] = Learned(current,
                         LearnSenders(dir, {Who[chunk[i]] : i \in DOMAIN chunk}, raw))]
    BY DEF HistoryComes
<1> DEFINE first == engine[current].dir
           dir == IF mapped THEN LearnContact(first, Who[chunk[1]], Forms, {"pushName"}) ELSE first
           people == {Who[chunk[i]] : i \in DOMAIN chunk}
           d == LearnSenders(dir, people, raw)
<1>3. chunk \in Seq(DOMAIN Who) /\ chunk # <<>> /\ \A m \in DOMAIN Who : Who[m] \in People
    BY InboundAssumption
<1>4. people \in SUBSET People
    BY <1>3
<1>5. IsDir(first) /\ {"pushName"} \in SUBSET Fields
    BY <1>1 DEF Directory, Fields
<1>6. IsDir(dir)
    <2>1. CASE mapped
        <3>1. chunk[1] \in DOMAIN Who
            <4>1. Len(chunk) > 0
                BY <1>3
            <4> QED
                BY <1>3, <4>1
        <3>2. Who[chunk[1]] \in People
            BY <1>3, <3>1
        <3> QED
            BY <1>5, <2>1, <3>2, LearnContactIsDir
    <2>2. CASE ~mapped
        BY <1>5, <2>2
    <2> QED
        BY <2>1, <2>2
<1>7. engine' = [engine EXCEPT ![current] = Learned(current, d)]
    BY <1>2
<1> HIDE DEF dir, people
<1>8. IsDir(d)
    BY <1>4, <1>6, LearnSendersIsDir
<1> HIDE DEF d
<1> QED
    BY <1>1, <1>7, <1>8, LearningOnly, DirectoryLearns

\* What a message that arrives leaves behind: one directory, and a list that is longer by it.
Arrives(m, d, chat, at) ==
    /\ Learns(d, Add(engine[current].store, Who[m], chat, chat, m))
    /\ chat \in Forms /\ IsDir(d) /\ at \in {"fetching", "hooks"}
    /\ message' = [message EXCEPT ![m] = [at |-> at, by |-> current, chat |-> chat,
                       nr |-> 1 + Cardinality({n \in Messages : message[n].at # "coming"})]]

LEMMA ArriveHas ==
    ASSUME IInv, Directory, NEW m \in Messages, Arrive(m)
    PROVE  \E d, chat, at : Arrives(m, d, chat, at)
<1>1. current \in Engines /\ current # 0
    BY InboundAssumption DEF Arrive, IInv, Shape, Engines
<1>2. PICK form \in Forms, disclosed \in BOOLEAN, named \in BOOLEAN :
        LET p == Who[m]
            learned == IF disclosed THEN LearnContact(engine[current].dir, p, Forms, {})
                       ELSE engine[current].dir
            chat == Resolve(learned, p, form)
            nr == 1 + Cardinality({n \in Messages : message[n].at # "coming"})
        IN /\ engine' = [engine EXCEPT ![current] =
                  [Learned(current, LearnPushName(learned, p, form, named))
                      EXCEPT !.store = Add(@, p, form, chat, m)]]
           /\ \E at \in {"hooks"} \cup (IF m \in Media THEN {"fetching"} ELSE {}) :
                 message' = [message EXCEPT ![m] = [at |-> at, by |-> current, nr |-> nr,
                                                    chat |-> chat]]
    BY DEF Arrive
<1> DEFINE p == Who[m]
           learned == IF disclosed THEN LearnContact(engine[current].dir, p, Forms, {})
                      ELSE engine[current].dir
           chat == Resolve(learned, p, form)
           nr == 1 + Cardinality({n \in Messages : message[n].at # "coming"})
           d == LearnPushName(learned, p, form, named)
<1>3. p \in People
    BY InboundAssumption
<1>4. IsDir(learned)
    BY <1>1, <1>3, LearnContactIsDir DEF Directory
<1>5. PICK at \in {"fetching", "hooks"} :
          message' = [message EXCEPT ![m] = [at |-> at, by |-> current, nr |-> nr, chat |-> chat]]
    BY <1>2
<1>6. engine' = [engine EXCEPT ![current] =
                  [Learned(current, d) EXCEPT !.store = Add(@, p, form, chat, m)]]
    BY <1>2
<1> HIDE DEF learned
<1>7. chat \in Forms
    BY ResolvesToForm
<1>8. IsDir(d)
    BY <1>3, <1>4, LearnPushNameIsDir
<1> HIDE DEF d, chat
<1>9. Learned(current, d).store = engine[current].store
    BY <1>1, LearnedHas DEF IInv
<1>10. Add(Learned(current, d).store, p, form, chat, m) = Add(engine[current].store, p, chat, chat, m)
    BY <1>9 DEF Add
<1>11. engine' = [engine EXCEPT ![current] =
                     [Learned(current, d) EXCEPT !.store = Add(engine[current].store, p, chat, chat, m)]]
    BY <1>6, <1>10
<1>12. Learns(d, Add(engine[current].store, p, chat, chat, m))
    BY <1>1, <1>11, LearningStores
<1>13. [at |-> at, by |-> current, nr |-> nr, chat |-> chat]
       = [at |-> at, by |-> current, chat |-> chat, nr |-> nr]
    OBVIOUS
<1> QED
    BY <1>5, <1>7, <1>8, <1>12, <1>13 DEF Arrives

LEMMA DirectoryArrive == ASSUME IInv, Directory, NEW m \in Messages, Arrive(m) PROVE Directory'
<1>1. PICK d, chat, at : Arrives(m, d, chat, at)
    BY ArriveHas
<1>2. UNCHANGED <<disk, tmp, saves>>
    BY DEF Arrive, stored
<1> QED
    BY <1>1, <1>2, DirectoryLearns DEF Arrives

LEMMA DirectoryInit == Init => Directory
<1> SUFFICES ASSUME Init PROVE Directory
    OBVIOUS
<1>1. \A e \in Engines : engine[e] = NoEngine
    BY DEF Init
<1>2. disk = Missing /\ tmp = Missing /\ saves = {}
    BY DEF Init
<1> QED
    BY <1>1, <1>2, NoEngineHas, EmptyIsDir, TornIsFile DEF Directory

LEMMA DirectoryStep == ASSUME IInv, Directory, [Next]_vars PROVE Directory'
<1>1. CASE Start
    BY <1>1, DirectoryStart
<1>2. CASE Destroy
    BY <1>2, DirectoryDestroy
<1>3. CASE Disconnect
    BY <1>3, DirectoryDisconnect
<1>4. CASE Crash
    BY <1>4, DirectoryDies DEF Crash
<1>5. ASSUME NEW e \in Engines, Timer(e) PROVE Directory'
    BY <1>5, DirectoryTimer
<1>6. ASSUME NEW s \in saves, Written(s) \/ Renamed(s) \/ SaveFails(s) PROVE Directory'
    BY <1>6, DirectoryWritten, DirectoryRenamed, DirectorySaveFails
<1>7. CASE Contact \/ GroupsCome
    BY <1>7, DirectoryContact
<1>8. CASE HistoryComes
    BY <1>8, DirectoryHistory
<1>9. ASSUME NEW m \in Messages, Arrive(m) PROVE Directory'
    BY <1>9, DirectoryArrive
<1>10. ASSUME NEW m \in Messages, Fetched(m) \/ Hooked(m) PROVE Directory'
    BY <1>10, DirectorySame DEF Fetched, Hooked, stored
<1>11. ASSUME NEW a \in appends, AppendPart(a) \/ AppendRest(a) PROVE Directory'
    BY <1>11, DirectorySame DEF AppendPart, AppendRest, stored
<1>12. CASE UNCHANGED vars
    BY <1>12, DirectorySame DEF vars
<1> QED
    BY <1>1, <1>2, <1>3, <1>4, <1>5, <1>6, <1>7, <1>8, <1>9, <1>10, <1>11, <1>12 DEF Next

-----------------------------------------------------------------------------
(* The messages.                                                            *)

\* Some messages are further on; which they are, and where they came in, is as it was.
Moves ==
    /\ message' = [m \in Messages |-> message'[m]]
    /\ \A m \in Messages :
          \/ message'[m] = message[m]
          \/ /\ message[m].at # "coming"
             /\ \E at \in Stages \ {"coming"} : message'[m] = [message[m] EXCEPT !.at = at]

LEMMA MovesHas ==
    ASSUME Numbered, Moves, NEW m \in Messages
    PROVE  /\ message'[m].by = message[m].by /\ message'[m].nr = message[m].nr
           /\ message'[m].chat = message[m].chat
           /\ message'[m] \in MessageRecords
           /\ message'[m].at = "coming" <=> message[m].at = "coming"
           /\ message[m].at = "coming" => message'[m] = message[m]
<1>1. message[m] \in MessageRecords
    BY DEF Numbered
<1>2. CASE message'[m] = message[m]
    BY <1>1, <1>2
<1>3. ASSUME message[m].at # "coming", NEW at \in Stages \ {"coming"},
             message'[m] = [message[m] EXCEPT !.at = at]
      PROVE  /\ message'[m].by = message[m].by /\ message'[m].nr = message[m].nr
             /\ message'[m].chat = message[m].chat
             /\ message'[m] \in MessageRecords /\ message'[m].at # "coming"
    BY <1>1, <1>3 DEF MessageRecords
<1> QED
    BY <1>2, <1>3 DEF Moves

LEMMA ArrivedSame == ASSUME Numbered, Moves PROVE Arrived' = Arrived
<1>1. \A m \in Messages : message'[m].at = "coming" <=> message[m].at = "coming"
    BY MovesHas
<1> QED
    BY <1>1 DEF Arrived

LEMMA NumberedSame ==
    ASSUME IInv, IInv', Numbered, Moves, used'.engines >= used.engines PROVE Numbered'
<1>1. Arrived' = Arrived
    BY ArrivedSame
<1>2. \A m \in Messages : /\ message'[m].by = message[m].by /\ message'[m].nr = message[m].nr
                          /\ message'[m] \in MessageRecords
                          /\ message[m].at = "coming" => message'[m] = message[m]
    BY MovesHas
<1>3. message' \in [Messages -> MessageRecords]
    BY <1>2 DEF Moves
<1>4. Arrived \subseteq Messages /\ \A m \in Messages \ Arrived : message[m].at = "coming"
    BY DEF Arrived
<1>5. used.engines \in Nat /\ used'.engines \in Nat
    BY DEF IInv, Shape
<1>6. ASSUME NEW m \in Arrived
      PROVE  message'[m].nr \in 1..Cardinality(Arrived) /\ message'[m].by \in 1..used'.engines
    <2>1. message'[m].nr = message[m].nr /\ message'[m].by = message[m].by
        BY <1>2, <1>4
    <2>2. message[m].nr \in 1..Cardinality(Arrived) /\ message[m].by \in 1..used.engines
        BY DEF Numbered
    <2> QED
        BY <1>5, <2>1, <2>2
<1>7. \A m \in Messages \ Arrived : message'[m] = NoMessage
    BY <1>2, <1>4 DEF Numbered
<1> QED
    BY <1>1, <1>3, <1>6, <1>7 DEF Numbered

\* The session's engine, if it still has one, keeps what it has.
StoreStays == current' # 0 => current' = current /\ engine'[current].store = engine[current].store

LEMMA RememberedSame ==
    ASSUME Numbered, Remembered, Moves, StoreStays PROVE Remembered'
<1> SUFFICES ASSUME current' # 0 PROVE Remembered'
    BY DEF Remembered
<1>1. current' = current /\ current # 0 /\ engine'[current].store = engine[current].store
    BY DEF StoreStays
<1>2. Arrived' = Arrived /\ Arrived \subseteq Messages
    BY ArrivedSame DEF Arrived
<1>3. \A m \in Messages : /\ message'[m].by = message[m].by /\ message'[m].nr = message[m].nr
                          /\ message'[m].chat = message[m].chat
    BY MovesHas
<1>4. engine'[current].store = [k \in Ids |-> engine'[current].store[k]]
    BY <1>1 DEF Remembered
<1>5. ASSUME NEW k \in Ids PROVE IsListOf(engine[current].store[k], k)'
    <2> DEFINE list == engine[current].store[k]
    <2>1. IsListOf(list, k)
        BY <1>1 DEF Remembered
    <2>2. engine'[current'].store[k] = list
        BY <1>1
    <2>3. \A i \in DOMAIN list : list[i] \in Messages
        BY <1>2, <2>1 DEF IsListOf
    <2> HIDE DEF list
    <2>4. list \in Seq(Arrived') /\ Len(list) <= MaxPerChat
        BY <1>2, <2>1 DEF IsListOf
    <2>5. \A i \in DOMAIN list : /\ message'[list[i]].by = current
                                 /\ Who[list[i]] = k[1] /\ message'[list[i]].chat = k[2]
        BY <1>3, <2>1, <2>3 DEF IsListOf
    <2>6. \A i, j \in DOMAIN list : i < j => message'[list[i]].nr < message'[list[j]].nr
        BY <1>3, <2>1, <2>3 DEF IsListOf
    <2> QED
        BY <1>1, <2>2, <2>4, <2>5, <2>6 DEF IsListOf
<1>6. ASSUME NEW m \in Arrived, message'[m].by = current PROVE IsRemembered(m)'
    <2>1. IsRemembered(m)
        BY <1>1, <1>2, <1>3, <1>6 DEF Remembered
    <2>2. Later(m)' = Later(m)
        BY <1>1, <1>2, <1>3 DEF Later
    <2>3. message'[m].chat = message[m].chat /\ engine'[current'].store = engine[current].store
        BY <1>1, <1>2, <1>3
    <2> QED
        BY <2>1, <2>2, <2>3 DEF IsRemembered
<1> QED
    BY <1>1, <1>2, <1>4, <1>5, <1>6 DEF Remembered

LEMMA MessagesStart ==
    ASSUME IInv, IInv', Numbered, Start PROVE Numbered' /\ Remembered'
<1> DEFINE e == used.engines + 1
<1>1. e \in Engines
    BY InboundAssumption DEF Start, IInv, Shape, Engines
<1>2. /\ engine' = [engine EXCEPT ![e] = [NoEngine EXCEPT !.dir = Load]]
      /\ current' = e /\ used'.engines = e /\ message' = message
    BY DEF Start, incoming
<1>3. used.engines \in Nat
    BY DEF IInv, Shape
<1>4. Moves
    BY <1>2 DEF Moves, Numbered
<1>5. Numbered'
    BY <1>2, <1>3, <1>4, NumberedSame
<1>6. \A m \in Arrived : message[m].by # e
    BY <1>3 DEF Numbered
<1> HIDE DEF e
<1>7. engine'[e] = [NoEngine EXCEPT !.dir = Load]
    BY <1>1, <1>2 DEF IInv, Shape
<1>8. engine'[e].store = [k \in Ids |-> <<>>]
    BY <1>7 DEF NoEngine
<1>9. Arrived' = Arrived /\ \A m \in Arrived : message'[m].by # e
    BY <1>2, <1>6 DEF Arrived
<1>10. ASSUME NEW k \in Ids PROVE IsListOf(engine[current].store[k], k)'
    <2>1. engine'[current'].store[k] = <<>>
        BY <1>2, <1>8
    <2>2. 0 <= MaxPerChat
        BY InboundAssumption
    <2> QED
        BY <2>1, <2>2 DEF IsListOf
<1>11. engine'[e].store = [k \in Ids |-> engine'[e].store[k]]
    BY <1>8
<1> QED
    BY <1>2, <1>5, <1>9, <1>10, <1>11 DEF Remembered

\* A message that arrives is the last so far.
LEMMA NumberedArrive ==
    ASSUME IInv, IInv', Numbered, NEW m \in Messages, Arrive(m), NEW d, NEW chat, NEW at,
           Arrives(m, d, chat, at)
    PROVE  /\ Numbered' /\ Arrived' = Arrived \cup {m} /\ m \notin Arrived
           /\ message'[m].nr = Cardinality(Arrived) + 1 /\ message'[m].by = current
           /\ message'[m].chat = chat /\ Cardinality(Arrived) \in Nat
           /\ \A o \in Messages \ {m} : message'[o] = message[o]
<1> DEFINE nr == 1 + Cardinality(Arrived)
           new == [at |-> at, by |-> current, chat |-> chat, nr |-> nr]
<1>1. message' = [message EXCEPT ![m] = new]
    BY DEF Arrives, Arrived
<1>2. /\ at \in {"fetching", "hooks"} /\ chat \in Forms /\ current \in Engines
    BY DEF Arrives, Learns
<1>3. m \notin Arrived /\ Arrived \subseteq Messages
    BY DEF Arrive, Arrived
<1>4. IsFiniteSet(Arrived) /\ Cardinality(Arrived) \in Nat
    BY FS_CardinalityType DEF Numbered
<1>5. new \in MessageRecords
    BY <1>2, <1>4 DEF MessageRecords, Stages
<1>6. /\ message' \in [Messages -> MessageRecords] /\ message'[m] = new
      /\ \A o \in Messages \ {m} : message'[o] = message[o]
    BY <1>1, <1>5 DEF Numbered
<1>7. Arrived' = Arrived \cup {m}
    BY <1>2, <1>6 DEF Arrived
<1>8. IsFiniteSet(Arrived') /\ Cardinality(Arrived') = nr
    BY <1>3, <1>4, <1>7, FS_AddElement
<1>9. used'.engines = used.engines /\ used.engines \in Nat /\ current \in 1..used.engines
    <2>1. used' = [used EXCEPT !.events = @ + 1]
        BY DEF Arrive, Use
    <2>2. used'.engines = used.engines
        BY <2>1 DEF IInv, Shape
    <2> QED
        BY <1>2, <2>2 DEF IInv, Shape, Engines
<1>10. ASSUME NEW o \in Arrived'
       PROVE  message'[o].nr \in 1..Cardinality(Arrived') /\ message'[o].by \in 1..used'.engines
    <2>1. CASE o = m
        BY <1>4, <1>6, <1>8, <1>9, <2>1
    <2>2. CASE o # m
        <3>1. o \in Arrived /\ message'[o] = message[o]
            BY <1>3, <1>6, <1>7, <2>2
        <3>2. message[o].nr \in 1..Cardinality(Arrived) /\ message[o].by \in 1..used.engines
            BY <3>1 DEF Numbered
        <3> QED
            BY <1>4, <1>8, <1>9, <3>1, <3>2
    <2> QED
        BY <2>1, <2>2
<1>11. ASSUME NEW o \in Messages \ Arrived' PROVE message'[o] = NoMessage
    BY <1>6, <1>7, <1>11 DEF Numbered
<1>12. Numbered'
    BY <1>6, <1>8, <1>10, <1>11 DEF Numbered
<1>13. new.nr = nr /\ new.by = current /\ new.chat = chat
    OBVIOUS
<1> QED
    BY <1>3, <1>4, <1>6, <1>7, <1>12, <1>13

LEMMA SequenceOf ==
    ASSUME NEW S, NEW s \in Seq(S), NEW T, \A i \in DOMAIN s : s[i] \in T PROVE s \in Seq(T)
    OBVIOUS

\* A finite set holds as many as there are in a list of different ones of it.
LEMMA ListIsMany ==
    ASSUME NEW T, IsFiniteSet(T), NEW list \in Seq(T),
           \A i, j \in 1..Len(list) : i < j => list[i] # list[j]
    PROVE  Cardinality(T) >= Len(list)
<1> DEFINE S == 1..Len(list)
<1>1. Len(list) \in Nat
    OBVIOUS
<1>2. IsFiniteSet(S) /\ Cardinality(S) = Len(list)
    <2>1. 1 \in Int /\ Len(list) \in Int
        BY <1>1
    <2>2. IsFiniteSet(S) /\ Cardinality(S) = IF 1 > Len(list) THEN 0 ELSE Len(list) - 1 + 1
        BY <2>1, FS_Interval
    <2> HIDE DEF S
    <2> QED
        BY <1>1, <2>2
<1>3. list \in [S -> T]
    OBVIOUS
<1>4. Cardinality(T) \in Nat
    BY FS_CardinalityType
<1>5. ~\E i, j \in S : i # j /\ list[i] = list[j]
    <2>1. \A i, j \in S : i # j => i < j \/ j < i
        OBVIOUS
    <2> QED
        BY <2>1
<1> HIDE DEF S
<1>6. ~(Cardinality(T) < Cardinality(S))
    BY <1>2, <1>3, <1>5, FS_PigeonHole
<1> QED
    BY <1>1, <1>2, <1>4, <1>6

\* A list that is longer by m, and has lost its first one if it was full.
Longer(list, m) == LET all == Append(list, m) IN IF Len(all) > MaxPerChat THEN Tail(all) ELSE all

\* The elements of list from the k-th on, and m.
IsLonger(new, list, m, k) ==
    /\ k \in 0..1 /\ (k = 1 => Len(list) = MaxPerChat)
    /\ Len(new) = Len(list) + 1 - k
    /\ \A i \in 1..Len(new) : new[i] = IF i + k <= Len(list) THEN list[i + k] ELSE m

LEMMA LongerHas ==
    ASSUME NEW S, NEW list \in Seq(S), Len(list) <= MaxPerChat, NEW m \in S
    PROVE  /\ Longer(list, m) \in Seq(S) /\ Len(Longer(list, m)) \in 1..MaxPerChat
           /\ \E k : IsLonger(Longer(list, m), list, m, k)
<1> DEFINE all == Append(list, m)
<1>1. /\ all \in Seq(S) /\ Len(all) = Len(list) + 1 /\ Len(list) \in Nat
      /\ \A i \in 1..Len(all) : all[i] = IF i <= Len(list) THEN list[i] ELSE m
    OBVIOUS
<1>2. MaxPerChat \in Nat /\ MaxPerChat >= 1
    BY InboundAssumption
<1> HIDE DEF all
<1>3. CASE Len(all) > MaxPerChat
    <2>1. Len(list) = MaxPerChat /\ Longer(list, m) = Tail(all)
        BY <1>1, <1>2, <1>3 DEF Longer, all
    <2>2. /\ Tail(all) \in Seq(S) /\ Len(Tail(all)) = Len(list)
          /\ \A i \in 1..Len(list) : Tail(all)[i] = all[i + 1]
        <3>1. all # <<>>
            BY <1>1
        <3> QED
            BY <1>1, <3>1
    <2>3. \A i \in 1..Len(list) : Tail(all)[i] = IF i + 1 <= Len(list) THEN list[i + 1] ELSE m
        BY <1>1, <2>2
    <2>4. IsLonger(Tail(all), list, m, 1)
        BY <1>1, <2>1, <2>2, <2>3 DEF IsLonger
    <2> QED
        BY <1>2, <2>1, <2>2, <2>4
<1>4. CASE ~(Len(all) > MaxPerChat)
    <2>1. Longer(list, m) = all
        BY <1>4 DEF Longer, all
    <2>2. IsLonger(all, list, m, 0)
        BY <1>1 DEF IsLonger
    <2> QED
        BY <1>1, <1>2, <1>4, <2>1, <2>2
<1> QED
    BY <1>3, <1>4

\* The list of the chat that the message arrives in is still one.
LEMMA ListArrives ==
    ASSUME Numbered, NEW m \in Messages, m \notin Arrived, Arrived' = Arrived \cup {m},
           message'[m].nr = Cardinality(Arrived) + 1, message'[m].by = current,
           Cardinality(Arrived) \in Nat, current' = current,
           \A o \in Messages \ {m} : message'[o] = message[o],
           NEW key, key = <<Who[m], message'[m].chat>>,
           NEW list, IsListOf(list, key), NEW new, new = Longer(list, m)
    PROVE  /\ new \in Seq(Arrived') /\ Len(new) <= MaxPerChat
           /\ \A i \in DOMAIN new : /\ message'[new[i]].by = current
                                    /\ Who[new[i]] = key[1] /\ message'[new[i]].chat = key[2]
           /\ \A i, j \in DOMAIN new : i < j => message'[new[i]].nr < message'[new[j]].nr
<1>1. list \in Seq(Arrived) /\ Len(list) <= MaxPerChat /\ Arrived \subseteq Messages
    BY DEF IsListOf, Arrived
<1>2. list \in Seq(Arrived \cup {m}) /\ MaxPerChat \in Nat /\ Len(list) \in Nat
    BY <1>1, InboundAssumption
<1>3. /\ new \in Seq(Arrived \cup {m}) /\ Len(new) \in 1..MaxPerChat
      /\ \E k : IsLonger(new, list, m, k)
    BY <1>1, <1>2, LongerHas
<1>4. PICK k : IsLonger(new, list, m, k)
    BY <1>3
<1>5. DOMAIN new = 1..Len(new) /\ DOMAIN list = 1..Len(list) /\ Len(new) \in Nat
    BY <1>2, <1>3
<1>10. k \in 0..1 /\ Len(new) = Len(list) + 1 - k
    BY <1>4 DEF IsLonger
<1>11. \A i \in DOMAIN new : i \in Nat /\ 1 <= i /\ i <= Len(new)
    BY <1>5
<1>6. ASSUME NEW i \in DOMAIN new
      PROVE  \/ /\ i + k \in DOMAIN list /\ new[i] = list[i + k] /\ new[i] \in Arrived
                /\ message'[new[i]] = message[new[i]]
             \/ new[i] = m /\ i + k > Len(list) /\ i = Len(new)
    <2>1. new[i] = IF i + k <= Len(list) THEN list[i + k] ELSE m
        BY <1>4, <1>5 DEF IsLonger
    <2>2. CASE i + k <= Len(list)
        <3>1. i + k \in DOMAIN list
            BY <1>2, <1>5, <1>10, <1>11, <2>2
        <3>2. list[i + k] \in Arrived
            BY <1>1, <3>1
        <3> QED
            BY <1>1, <2>1, <2>2, <3>1, <3>2
    <2>3. CASE ~(i + k <= Len(list))
        <3>1. i + k > Len(list) /\ i = Len(new)
            BY <1>2, <1>5, <1>10, <1>11, <2>3
        <3> QED
            BY <2>1, <2>3, <3>1
    <2> QED
        BY <2>2, <2>3
<1>7. \A i \in DOMAIN list : /\ message[list[i]].by = current
                             /\ Who[list[i]] = key[1] /\ message[list[i]].chat = key[2]
                             /\ message[list[i]].nr <= Cardinality(Arrived)
                             /\ message[list[i]].nr \in Nat
    <2>1. \A i \in DOMAIN list : list[i] \in Arrived
        BY <1>1
    <2>2. \A o \in Arrived : message[o].nr \in 1..Cardinality(Arrived)
        BY DEF Numbered
    <2> QED
        BY <2>1, <2>2 DEF IsListOf
<1>8. ASSUME NEW i \in DOMAIN new
      PROVE  /\ message'[new[i]].by = current
             /\ Who[new[i]] = key[1] /\ message'[new[i]].chat = key[2]
    BY <1>6, <1>7
<1>9. ASSUME NEW i \in DOMAIN new, NEW j \in DOMAIN new, i < j
      PROVE  message'[new[i]].nr < message'[new[j]].nr
    <2>1. i \in Nat /\ j \in Nat /\ i # Len(new) /\ k \in Nat
        BY <1>5, <1>9, <1>10, <1>11
    <2>2. i + k \in DOMAIN list /\ new[i] = list[i + k] /\ message'[new[i]] = message[new[i]]
        BY <1>6, <2>1
    <2>3. CASE new[j] = m
        BY <1>7, <2>2, <2>3
    <2>4. CASE j + k \in DOMAIN list /\ new[j] = list[j + k] /\ message'[new[j]] = message[new[j]]
        <3>1. i + k < j + k
            BY <1>9, <2>1
        <3>2. message[list[i + k]].nr < message[list[j + k]].nr
            BY <2>2, <2>4, <3>1 DEF IsListOf
        <3> QED
            BY <2>2, <2>4, <3>2
    <2> QED
        BY <1>6, <2>3, <2>4
<1> QED
    BY <1>3, <1>5, <1>8, <1>9

LEMMA RememberedArrive ==
    ASSUME IInv, IInv', Numbered, Remembered, NEW m \in Messages, Arrive(m), NEW d, NEW chat, NEW at,
           Arrives(m, d, chat, at)
    PROVE  Remembered'
<1> SUFFICES ASSUME NEW store, store = engine[current].store, NEW key, key = <<Who[m], chat>>,
                    NEW new, new = Longer(store[key], m)
             PROVE  Remembered'
    OBVIOUS
<1>1. /\ Numbered' /\ Arrived' = Arrived \cup {m} /\ m \notin Arrived
      /\ message'[m].nr = Cardinality(Arrived) + 1 /\ message'[m].by = current
      /\ message'[m].chat = chat /\ Cardinality(Arrived) \in Nat
      /\ \A o \in Messages \ {m} : message'[o] = message[o]
    BY NumberedArrive
<1>2. current \in Engines /\ current' = current /\ current # 0
    BY InboundAssumption DEF Arrive, Arrives, Learns, Engines
<1>3. key \in Ids
    BY InboundAssumption DEF Arrives, Ids
<1>4. store = [k \in Ids |-> store[k]] /\ \A k \in Ids : IsListOf(store[k], k)
    BY <1>2 DEF Remembered
<1>5. engine'[current'].store = [store EXCEPT ![key] = new]
    BY <1>2 DEF Arrives, Learns, Add, Longer
<1>6. /\ engine'[current'].store = [k \in Ids |-> engine'[current'].store[k]]
      /\ engine'[current'].store[key] = new
      /\ \A k \in Ids \ {key} : engine'[current'].store[k] = store[k]
    BY <1>3, <1>4, <1>5
<1>7. Arrived \subseteq Messages /\ Arrived' \subseteq Messages
    BY DEF Arrived
<1>8. /\ new \in Seq(Arrived') /\ Len(new) <= MaxPerChat
      /\ \A i \in DOMAIN new : /\ message'[new[i]].by = current
                               /\ Who[new[i]] = key[1] /\ message'[new[i]].chat = key[2]
      /\ \A i, j \in DOMAIN new : i < j => message'[new[i]].nr < message'[new[j]].nr
    <2> DEFINE list == store[key]
    <2>1. IsListOf(list, key) /\ key = <<Who[m], message'[m].chat>> /\ new = Longer(list, m)
        BY <1>1, <1>3, <1>4
    <2> HIDE DEF list
    <2> QED
        BY <1>1, <1>2, <2>1, ListArrives
<1>9. ASSUME NEW k \in Ids PROVE IsListOf(engine[current].store[k], k)'
    <2>1. CASE k = key
        <3>1. engine'[current'].store[k] = new
            BY <1>6, <2>1
        <3> QED
            BY <1>2, <1>8, <2>1, <3>1 DEF IsListOf
    <2>2. CASE k # key
        <3> DEFINE list == store[k]
        <3>1. IsListOf(list, k) /\ engine'[current'].store[k] = list
            BY <1>4, <1>6, <2>2
        <3> HIDE DEF list
        <3>2. list \in Seq(Arrived) /\ Len(list) <= MaxPerChat
            BY <3>1 DEF IsListOf
        <3>3. list \in Seq(Arrived')
            BY <1>1, <3>2
        <3>4. \A i \in DOMAIN list : message'[list[i]] = message[list[i]]
            BY <1>1, <1>7, <3>2
        <3>5. /\ \A i \in DOMAIN list : /\ message'[list[i]].by = current
                                        /\ Who[list[i]] = k[1] /\ message'[list[i]].chat = k[2]
              /\ \A i, j \in DOMAIN list : i < j => message'[list[i]].nr < message'[list[j]].nr
            BY <3>1, <3>4 DEF IsListOf
        <3> QED
            BY <1>2, <3>1, <3>2, <3>3, <3>5 DEF IsListOf
    <2> QED
        BY <2>1, <2>2
<1> DEFINE list == store[key]
<1>10. /\ list \in Seq(Arrived) /\ Len(list) <= MaxPerChat /\ list \in Seq(Arrived') /\ m \in Arrived'
       /\ Len(list) \in Nat
    BY <1>1, <1>3, <1>4 DEF IsListOf
<1>11. \A i \in DOMAIN list : /\ message[list[i]].by = current
                              /\ Who[list[i]] = key[1] /\ message[list[i]].chat = key[2]
    BY <1>3, <1>4 DEF IsListOf
<1> HIDE DEF list
<1>12. new = Longer(list, m)
    BY DEF list
<1>13. Len(new) \in 1..MaxPerChat /\ \E n : IsLonger(new, list, m, n)
    BY <1>10, <1>12, LongerHas
<1>14. PICK n : IsLonger(new, list, m, n)
    BY <1>13
<1>15. /\ n \in 0..1 /\ (n = 1 => Len(list) = MaxPerChat) /\ Len(new) = Len(list) + 1 - n
       /\ \A i \in 1..Len(new) : new[i] = IF i + n <= Len(list) THEN list[i + n] ELSE m
    BY <1>14 DEF IsLonger
<1>16. DOMAIN new = 1..Len(new) /\ DOMAIN list = 1..Len(list)
    BY <1>8, <1>10
\* The message itself is the last one.
<1>17. \E i \in DOMAIN new : new[i] = m
    <2>1. Len(new) \in DOMAIN new /\ ~(Len(new) + n <= Len(list))
        BY <1>10, <1>13, <1>15, <1>16
    <2> QED
        BY <1>15, <1>16, <2>1
<1>21. ASSUME NEW o \in Arrived PROVE IsFiniteSet(Later(o)') /\ Cardinality(Later(o)') \in Nat
    <2>1. \A x \in Messages \ Arrived' : message'[x].by = 0
        BY <1>1 DEF Numbered, NoMessage
    <2>2. Later(o)' \subseteq Arrived'
        BY <1>2, <2>1 DEF Later
    <2>3. IsFiniteSet(Arrived')
        BY <1>1 DEF Numbered
    <2> QED
        BY <2>2, <2>3, FS_Subset, FS_CardinalityType
<1>18. ASSUME NEW o \in Arrived, message[o].by = current, Cardinality(Later(o)) >= MaxPerChat
       PROVE  Cardinality(Later(o)') >= MaxPerChat
    <2>1. ASSUME NEW x \in Later(o) PROVE x \in Later(o)'
        <3>1. message[x].by = current /\ x \in Messages
            BY DEF Later
        <3>2. x # m
            BY <1>1, <1>2, <3>1 DEF Numbered, NoMessage
        <3>3. message'[x] = message[x] /\ message'[o] = message[o]
            BY <1>1, <1>7, <3>1, <3>2
        <3> QED
            BY <1>2, <3>3 DEF Later
    <2>2. Later(o) \in SUBSET Later(o)' /\ IsFiniteSet(Later(o)') /\ Cardinality(Later(o)') \in Nat
        BY <1>21, <2>1
    <2>3. IsFiniteSet(Later(o)) /\ Cardinality(Later(o)) <= Cardinality(Later(o)')
        BY <2>2, FS_Subset
    <2>4. Cardinality(Later(o)) \in Nat /\ MaxPerChat \in Nat
        BY <2>3, FS_CardinalityType, InboundAssumption
    <2> QED
        BY <1>18, <2>2, <2>3, <2>4
<1>19. ASSUME NEW o \in Arrived, message[o].by = current, NEW i \in DOMAIN list, list[i] = o
       PROVE  \/ \E j \in DOMAIN new : new[j] = o
              \/ Cardinality(Later(o)') >= MaxPerChat
    <2>1. i \in Nat /\ 1 <= i /\ i <= Len(list)
        BY <1>10, <1>16
    <2>2. CASE i - n >= 1
        <3>1. i - n \in DOMAIN new /\ i - n + n = i
            BY <1>10, <1>13, <1>15, <1>16, <2>1, <2>2
        <3>2. new[i - n] = list[i]
            BY <1>15, <1>16, <2>1, <3>1
        <3> QED
            BY <1>19, <3>1, <3>2
    <2>3. CASE ~(i - n >= 1)
        <3>1. n = 1 /\ i = 1 /\ Len(list) = MaxPerChat /\ Len(new) = MaxPerChat
            BY <1>10, <1>15, <2>1, <2>3
        <3>2. message'[o] = message[o] /\ o \in Messages /\ o # m
            BY <1>1, <1>7
        <3>3. message'[o].nr \in Nat /\ message'[o].nr <= Cardinality(Arrived)
            BY <3>2 DEF Numbered
        \* What is left of the list has come after it.
        <3>4. ASSUME NEW j \in DOMAIN new PROVE new[j] \in Later(o)'
            <4>1. new[j] \in Messages
                BY <1>7, <1>8
            <4>2. message'[new[j]].by = current /\ Who[new[j]] = key[1] /\ message'[new[j]].chat = key[2]
                BY <1>8
            <4>3. Who[o] = key[1] /\ message[o].chat = key[2]
                BY <1>11, <1>19
            <4>4. message'[new[j]].nr > message'[o].nr
                <5>1. CASE j + 1 <= Len(list)
                    <6>1. j + 1 \in DOMAIN list /\ 1 < j + 1 /\ new[j] = list[j + 1]
                        BY <1>13, <1>15, <1>16, <3>1, <5>1
                    <6>2. message[list[1]].nr < message[list[j + 1]].nr
                        BY <1>3, <1>4, <3>1, <6>1 DEF IsListOf, list
                    <6>3. list[j + 1] \in Arrived /\ list[1] = o
                        BY <1>10, <1>19, <3>1, <6>1
                    <6>4. message'[new[j]] = message[new[j]]
                        BY <1>1, <1>7, <6>1, <6>3
                    <6>5. message[new[j]].nr \in Nat /\ message[o].nr \in Nat
                        BY <6>1, <6>3 DEF Numbered
                    <6> QED
                        BY <3>2, <6>1, <6>2, <6>3, <6>4, <6>5
                <5>2. CASE ~(j + 1 <= Len(list))
                    <6>1. new[j] = m
                        BY <1>15, <1>16, <3>1, <5>2
                    <6> QED
                        BY <1>1, <3>3, <6>1
                <5> QED
                    BY <5>1, <5>2
            <4> QED
                BY <1>2, <3>2, <4>1, <4>2, <4>3, <4>4 DEF Later
        <3>5. new \in Seq(Later(o)')
            <4> DEFINE T == Later(o)'
            <4>1. new \in Seq(Arrived') /\ \A j \in DOMAIN new : new[j] \in T
                BY <1>8, <3>4
            <4> HIDE DEF T
            <4>2. new \in Seq(T)
                BY <4>1, SequenceOf
            <4> QED
                BY <4>2 DEF T
        <3>6. \A j, k \in 1..Len(new) : j < k => new[j] # new[k]
            <4>1. ASSUME NEW j \in DOMAIN new PROVE message'[new[j]].nr \in Nat
                <5>1. new[j] \in Arrived'
                    BY <1>8
                <5> QED
                    BY <1>1, <1>7, <5>1 DEF Numbered, MessageRecords
            <4>2. ASSUME NEW j \in DOMAIN new, NEW k \in DOMAIN new, j < k, new[j] = new[k]
                  PROVE  FALSE
                <5>1. message'[new[j]].nr < message'[new[k]].nr /\ message'[new[j]].nr \in Nat
                    BY <1>8, <4>1, <4>2
                <5> QED
                    BY <4>2, <5>1
            <4> QED
                BY <1>16, <4>2
        <3>7. Cardinality(Later(o)') >= Len(new)
            BY <1>21, <3>5, <3>6, ListIsMany
        <3> QED
            BY <3>1, <3>7
    <2> QED
        BY <2>2, <2>3
<1>20. ASSUME NEW o \in Arrived', message'[o].by = current PROVE IsRemembered(o)'
    <2> DEFINE place == <<Who[o], message'[o].chat>>
    <2>1. place \in Ids
        <3>1. message'[o].chat \in Forms
            BY <1>1, <1>7 DEF Numbered, MessageRecords
        <3> QED
            BY <1>7, <3>1, InboundAssumption DEF Ids
    <2>2. CASE o = m
        BY <1>1, <1>2, <1>6, <1>17, <2>2 DEF IsRemembered
    <2>3. CASE o # m
        <3>1. o \in Arrived /\ message'[o] = message[o]
            BY <1>1, <1>7, <2>3
        <3>2. IsRemembered(o)
            BY <1>2, <1>20, <3>1 DEF Remembered
        <3>3. CASE Cardinality(Later(o)) >= MaxPerChat
            BY <1>18, <1>20, <3>1, <3>3 DEF IsRemembered
        <3>4. ASSUME NEW i \in DOMAIN store[place], store[place][i] = o PROVE IsRemembered(o)'
            <4>1. CASE place = key
                BY <1>2, <1>6, <1>19, <1>20, <3>1, <3>4, <4>1 DEF IsRemembered, list
            <4>2. CASE place # key
                BY <1>2, <1>6, <2>1, <3>1, <3>4, <4>2 DEF IsRemembered
            <4> QED
                BY <4>1, <4>2
        <3> QED
            BY <3>1, <3>2, <3>3, <3>4 DEF IsRemembered
    <2> QED
        BY <2>2, <2>3
<1> QED
    BY <1>2, <1>6, <1>9, <1>20 DEF Remembered

\* A step that lets no message arrive and makes no engine.
Quiet == Moves /\ StoreStays /\ used'.engines = used.engines

LEMMA MessagesQuiet ==
    ASSUME IInv, IInv', Numbered, Remembered, Quiet PROVE Numbered' /\ Remembered'
<1>1. used.engines \in Nat
    BY DEF IInv, Shape
<1> QED
    BY <1>1, NumberedSame, RememberedSame DEF Quiet

LEMMA SameMoves == ASSUME Numbered, UNCHANGED message PROVE Moves
    BY DEF Moves, Numbered

LEMMA UseKeeps == ASSUME IInv, Use PROVE used'.engines = used.engines
    BY DEF Use, IInv, Shape

LEMMA QuietTimer == ASSUME IInv, Numbered, NEW e \in Engines, Timer(e) PROVE Quiet
<1>1. Moves /\ used'.engines = used.engines /\ current' = current
    BY SameMoves DEF Timer, incoming
<1> DEFINE one == [engine[e] EXCEPT !.timer = FALSE]
           two == [one EXCEPT !.dirty = FALSE]
<1>2. /\ e = current => engine'[e] = two
      /\ \A o \in Engines \ {e} : engine'[o] = engine[o]
    BY DEF Timer, IInv, Shape
<1>3. one.store = engine[e].store
    BY DEF IInv, Shape, IsEngine
<1>4. two.store = engine[e].store
    BY <1>3 DEF IInv, Shape, IsEngine
<1> HIDE DEF two
<1>5. current # 0 => current \in Engines
    BY InboundAssumption DEF IInv, Shape, Engines
<1>6. StoreStays
    BY <1>1, <1>2, <1>4, <1>5 DEF StoreStays
<1> QED
    BY <1>1, <1>6 DEF Quiet

LEMMA QuietLearning ==
    ASSUME IInv, Numbered, current # 0, NEW d,
           engine' = [engine EXCEPT ![current] = Learned(current, d)], UNCHANGED <<current, message>>, Use
    PROVE  Quiet
<1>1. Learns(d, engine[current].store)
    BY LearningOnly
<1> QED
    BY <1>1, SameMoves, UseKeeps DEF Learns, StoreStays, Quiet

LEMMA QuietContact == ASSUME IInv, Numbered, Contact PROVE Quiet
<1>1. PICK p \in People, forms \in SUBSET Forms \ {{}}, fields \in {{}, {"savedName"}} :
          engine' = [engine EXCEPT ![current] = Learned(current, LearnContact(@.dir, p, forms, fields))]
    BY DEF Contact
<1> DEFINE d == LearnContact(engine[current].dir, p, forms, fields)
<1>2. engine' = [engine EXCEPT ![current] = Learned(current, d)]
    BY <1>1
<1> HIDE DEF d
<1>3. current # 0 /\ Use /\ UNCHANGED <<current, message>>
    BY DEF Contact, incoming
<1> QED
    BY <1>2, <1>3, QuietLearning

LEMMA QuietGroups == ASSUME IInv, Numbered, GroupsCome PROVE Quiet
<1>1. PICK p \in People :
          engine' = [engine EXCEPT ![current] = Learned(current, LearnContact(@.dir, p, Forms, {}))]
    BY DEF GroupsCome
<1> DEFINE d == LearnContact(engine[current].dir, p, Forms, {})
<1>2. engine' = [engine EXCEPT ![current] = Learned(current, d)]
    BY <1>1
<1> HIDE DEF d
<1>3. current # 0 /\ Use /\ UNCHANGED <<current, message>>
    BY DEF GroupsCome, incoming
<1> QED
    BY <1>2, <1>3, QuietLearning

LEMMA QuietHistory == ASSUME IInv, Numbered, HistoryComes PROVE Quiet
<1>1. PICK chunk \in Chunks, raw \in Forms, mapped \in BOOLEAN :
        LET first == engine[current].dir
            dir == IF mapped THEN LearnContact(first, Who[chunk[1]], Forms, {"pushName"}) ELSE first
        IN engine' = [engine EXCEPT ![current] = Learned(current,
                         LearnSenders(dir, {Who[chunk[i]] : i \in DOMAIN chunk}, raw))]
    BY DEF HistoryComes
<1> DEFINE first == engine[current].dir
           dir == IF mapped THEN LearnContact(first, Who[chunk[1]], Forms, {"pushName"}) ELSE first
           d == LearnSenders(dir, {Who[chunk[i]] : i \in DOMAIN chunk}, raw)
<1>2. engine' = [engine EXCEPT ![current] = Learned(current, d)]
    BY <1>1
<1> HIDE DEF d
<1>3. current # 0 /\ Use /\ UNCHANGED <<current, message>>
    BY DEF HistoryComes
<1> QED
    BY <1>2, <1>3, QuietLearning

\* The process ends, and what was being fetched or was with the hooks is lost.
LEMMA QuietDies == ASSUME IInv, Numbered, Dies, used'.engines = used.engines PROVE Quiet
<1>1. \A m \in Messages : message'[m] = IF message[m].at \in {"fetching", "hooks"}
                                        THEN [message[m] EXCEPT !.at = "lost"] ELSE message[m]
    BY DEF Dies
<1>2. message' = [m \in Messages |-> message'[m]]
    BY <1>1 DEF Dies
<1>3. "lost" \in Stages \ {"coming"}
    BY DEF Stages
<1>4. Moves
    BY <1>1, <1>2, <1>3 DEF Moves
<1>5. StoreStays
    BY DEF Dies, StoreStays
<1> QED
    BY <1>4, <1>5 DEF Quiet

LEMMA QuietSaveFails == ASSUME IInv, Numbered, NEW s \in saves, SaveFails(s) PROVE Quiet
<1>1. used'.engines = used.engines
    BY UseKeeps DEF SaveFails
<1>2. CASE Dies
    BY <1>1, <1>2, QuietDies
<1>3. CASE UNCHANGED <<engine, current, incoming>>
    BY <1>1, <1>3, SameMoves DEF incoming, StoreStays, Quiet
<1> QED
    BY <1>2, <1>3 DEF SaveFails

\* One message is a step further.
LEMMA QuietMessage ==
    ASSUME IInv, Numbered, NEW m \in Messages, Fetched(m) \/ Hooked(m) PROVE Quiet
<1>1. PICK at \in Stages \ {"coming"} : message' = [message EXCEPT ![m].at = at]
    <2>1. {"hooks", "dropped", "dispatched", "stopped"} \subseteq Stages \ {"coming"}
        BY DEF Stages
    <2> QED
        BY <2>1 DEF Fetched, Hooked
<1>2. /\ message'[m] = [message[m] EXCEPT !.at = at]
      /\ \A o \in Messages \ {m} : message'[o] = message[o]
      /\ message' = [o \in Messages |-> message'[o]]
    BY <1>1 DEF Numbered
<1>3. message[m].at # "coming"
    BY DEF Fetched, Hooked
<1>4. Moves
    BY <1>2, <1>3 DEF Moves
<1>5. UNCHANGED <<engine, current, used>>
    BY DEF Fetched, Hooked
<1> QED
    BY <1>4, <1>5 DEF StoreStays, Quiet

LEMMA MessagesStep ==
    ASSUME IInv, IInv', Directory, Numbered, Remembered, [Next]_vars PROVE Numbered' /\ Remembered'
<1>1. CASE Start
    BY <1>1, MessagesStart
<1>2. CASE Destroy \/ Disconnect
    <2>1. current' = 0 /\ UNCHANGED message /\ Use
        BY <1>2 DEF Destroy, Disconnect, incoming
    <2> QED
        BY <2>1, SameMoves, UseKeeps, MessagesQuiet DEF StoreStays, Quiet
<1>3. CASE Crash
    BY <1>3, QuietDies, UseKeeps, MessagesQuiet DEF Crash
<1>4. ASSUME NEW e \in Engines, Timer(e) PROVE Numbered' /\ Remembered'
    BY <1>4, QuietTimer, MessagesQuiet
<1>5. ASSUME NEW s \in saves, Written(s) \/ Renamed(s) PROVE Numbered' /\ Remembered'
    <2>1. UNCHANGED <<engine, current, message, used>>
        BY <1>5 DEF Written, Renamed, Done, incoming
    <2> QED
        BY <2>1, SameMoves, MessagesQuiet DEF StoreStays, Quiet
<1>6. ASSUME NEW s \in saves, SaveFails(s) PROVE Numbered' /\ Remembered'
    BY <1>6, QuietSaveFails, MessagesQuiet
<1>7. CASE Contact \/ GroupsCome \/ HistoryComes
    BY <1>7, QuietContact, QuietGroups, QuietHistory, MessagesQuiet
<1>8. ASSUME NEW m \in Messages, Arrive(m) PROVE Numbered' /\ Remembered'
    <2>1. PICK d, chat, at : Arrives(m, d, chat, at)
        BY <1>8, ArriveHas
    <2> QED
        BY <1>8, <2>1, NumberedArrive, RememberedArrive
<1>9. ASSUME NEW m \in Messages, Fetched(m) \/ Hooked(m) PROVE Numbered' /\ Remembered'
    BY <1>9, QuietMessage, MessagesQuiet
<1>10. CASE UNCHANGED <<engine, current, message, used>>
    BY <1>10, SameMoves, MessagesQuiet DEF StoreStays, Quiet
<1>11. ASSUME NEW a \in appends, AppendPart(a) \/ AppendRest(a) PROVE Numbered' /\ Remembered'
    BY <1>10, <1>11 DEF AppendPart, AppendRest
<1>12. CASE UNCHANGED vars
    BY <1>10, <1>12 DEF vars
<1> QED
    BY <1>1, <1>2, <1>3, <1>4, <1>5, <1>6, <1>7, <1>8, <1>9, <1>11, <1>12 DEF Next

LEMMA MessagesInit == Init => Numbered /\ Remembered
<1> SUFFICES ASSUME Init PROVE Numbered /\ Remembered
    OBVIOUS
<1>1. message = [m \in Messages |-> NoMessage] /\ current = 0
    BY DEF Init
<1>2. NoMessage \in MessageRecords /\ NoMessage.at = "coming"
    BY DEF NoMessage, MessageRecords, Stages, Forms
<1>3. Arrived = {}
    BY <1>1, <1>2 DEF Arrived
<1>4. IsFiniteSet(Arrived)
    BY <1>3, FS_EmptySet
<1> QED
    BY <1>1, <1>2, <1>3, <1>4 DEF Numbered, Remembered

-----------------------------------------------------------------------------
(* The history.                                                             *)

\* What is written is added at the end.
Grows(more) == history \in Seq(Pieces) /\ more \in Seq(Pieces) /\ history' = history \o more

LEMMA GrowsHas ==
    ASSUME NEW more, Grows(more)
    PROVE  /\ history' \in Seq(Pieces) /\ Len(history') = Len(history) + Len(more)
           /\ Len(history) \in Nat /\ Len(more) \in Nat
           /\ DOMAIN history = 1..Len(history) /\ DOMAIN history' = 1..Len(history')
           /\ \A i \in 1..Len(history) : history'[i] = history[i]
           /\ \A j \in 1..Len(more) : history'[Len(history) + j] = more[j]
    BY DEF Grows

LEMMA HeadStays ==
    ASSUME NEW more, Grows(more), NEW i \in Int, i <= Len(history) PROVE IsHead(i)' <=> IsHead(i)
<1>1. i \in DOMAIN history' <=> i \in DOMAIN history
    BY GrowsHas
<1>2. i \in DOMAIN history => history'[i] = history[i]
    BY GrowsHas
<1> QED
    BY <1>1, <1>2 DEF IsHead

LEMMA ContinuesStays ==
    ASSUME NEW more, Grows(more), NEW i \in 1..Len(history) PROVE Continues(i)' <=> Continues(i)
<1>1. IsHead(i - 1)' <=> IsHead(i - 1)
    BY HeadStays, GrowsHas
<1>2. history'[i] = history[i]
    BY GrowsHas
<1>3. IsHead(i - 1) => history'[i - 1] = history[i - 1]
    BY GrowsHas DEF IsHead
<1> QED
    BY <1>1, <1>2, <1>3 DEF Continues

LEMMA FoundStays == ASSUME NEW more, Grows(more), NEW m, IsFound(m) PROVE IsFound(m)'
<1>1. PICK i \in DOMAIN history : history[i].of = m /\ Parses(i)
    BY DEF IsFound
<1>2. /\ i \in 1..Len(history) /\ i \in DOMAIN history' /\ history'[i] = history[i]
      /\ i - 1 \in Int /\ i - 1 <= Len(history) /\ i - 2 \in Int /\ i - 2 <= Len(history)
    BY GrowsHas
<1>3. (IsHead(i - 1)' <=> IsHead(i - 1)) /\ (IsHead(i - 2)' <=> IsHead(i - 2))
    BY <1>2, HeadStays
<1>4. Continues(i)' <=> Continues(i)
    BY <1>2, ContinuesStays
<1> QED
    BY <1>1, <1>2, <1>3, <1>4 DEF Parses, IsFound

LEMMA BrokenStays == ASSUME NEW more, Grows(more), Broken PROVE Broken'
<1>1. PICK i \in 1..(Len(history) - 1) : IsHead(i) /\ ~Continues(i + 1)
    BY DEF Broken
<1>2. /\ i \in Int /\ i <= Len(history) /\ i + 1 \in 1..Len(history)
      /\ i \in 1..(Len(history') - 1)
    BY GrowsHas
<1>3. IsHead(i)' /\ ~Continues(i + 1)'
    BY <1>1, <1>2, HeadStays, ContinuesStays
<1> QED
    BY <1>2, <1>3 DEF Broken

\* Something that does not continue it, after a line that was begun.
LEMMA OpenIsBroken ==
    ASSUME NEW more, Grows(more), Len(more) > 0, more[1].part # "tail", IsHead(Len(history))
    PROVE  Broken'
<1> SUFFICES ASSUME NEW n, n = Len(history) PROVE Broken'
    OBVIOUS
<1>1. n \in Nat /\ n \in 1..(Len(history') - 1) /\ history'[n + 1] = more[1]
    BY GrowsHas DEF IsHead
<1>2. IsHead(n)'
    <2>1. n \in Int /\ n <= Len(history) /\ IsHead(n)
        BY <1>1
    <2> QED
        BY <2>1, HeadStays
<1>3. history'[n] \in Pieces
    BY <1>1, GrowsHas
<1>4. [history'[n] EXCEPT !.part = "tail"].part = "tail"
    BY <1>3 DEF Pieces
<1>5. n + 1 - 1 = n /\ history'[n + 1].part # "tail"
    BY <1>1
<1>6. ~(history'[n + 1] = [history'[n + 1 - 1] EXCEPT !.part = "tail"])
    BY <1>4, <1>5
<1>7. ~Continues(n + 1)'
    BY <1>6 DEF Continues
<1> QED
    BY <1>1, <1>2, <1>7 DEF Broken

\* A whole line is found, unless a line was begun before it.
LEMMA WholeIsFound ==
    ASSUME NEW more, Grows(more), NEW j \in 1..Len(more), more[j].part = "whole",
           j = 1 => ~IsHead(Len(history)), j > 1 => more[j - 1].part # "head"
    PROVE  IsFound(more[j].of)'
<1> SUFFICES ASSUME NEW i, i = Len(history) + j PROVE IsFound(more[j].of)'
    OBVIOUS
<1>1. i \in DOMAIN history' /\ history'[i] = more[j] /\ j \in Nat /\ Len(history) \in Nat
    BY GrowsHas
<1>2. CASE j = 1
    <2>1. i - 1 = Len(history) /\ Len(history) \in Int
        BY <1>1, <1>2
    <2>2. ~IsHead(i - 1)'
        BY <1>2, <2>1, HeadStays
    <2> QED
        BY <1>1, <2>2 DEF Parses, IsFound
<1>3. CASE j > 1
    <2>1. history'[Len(history) + (j - 1)] = more[j - 1]
        BY <1>1, <1>3, GrowsHas
    <2>2. history'[i - 1] = more[j - 1]
        BY <1>1, <2>1
    <2>3. ~IsHead(i - 1)'
        BY <1>3, <2>2 DEF IsHead
    <2> QED
        BY <1>1, <2>3 DEF Parses, IsFound
<1> QED
    BY <1>1, <1>2, <1>3

LEMMA PieceHas ==
    ASSUME NEW line \in Lines, NEW part \in Parts
    PROVE  Piece(line, part) \in Pieces /\ Piece(line, part).of = line.of /\ Piece(line, part).part = part
    BY DEF Piece, Lines, Pieces

LEMMA LineIs ==
    ASSUME NEW a, IsAppend(a), NEW i \in 1..Len(a.lines)
    PROVE  a.lines[i] \in Lines /\ a.lines[i].of \in DOMAIN Who
<1>1. a.lines \in Seq(Lines)
    BY DEF IsAppend
<1>2. a.lines[i] \in Lines
    BY <1>1
<1> QED
    BY <1>2 DEF Lines

LEMMA AppendedPart ==
    ASSUME Appended, NEW a \in appends, AppendPart(a) PROVE Appended'
<1>1. IsAppend(a) /\ a.written = 0 /\ Len(a.lines) \in Nat /\ DOMAIN a.lines = 1..Len(a.lines)
    BY DEF AppendPart, Appended, IsAppend
<1>2. PICK i \in 1..Len(a.lines) :
          /\ history' = history
                \o [j \in 1..i |-> Piece(a.lines[j], IF j = i THEN "head" ELSE "whole")]
          /\ appends' = (appends \ {a}) \cup {[a EXCEPT !.written = i]}
    BY <1>1 DEF AppendPart
<1>3. i \in Nat /\ i >= 1 /\ i <= Len(a.lines) /\ kept' = kept
    BY <1>1 DEF AppendPart
<1> SUFFICES ASSUME NEW more, more = [j \in 1..i |-> Piece(a.lines[j], IF j = i THEN "head" ELSE "whole")],
                    NEW b, b = [a EXCEPT !.written = i]
             PROVE  Appended'
    OBVIOUS
<1>4. b = [chunk |-> a.chunk, written |-> i, lines |-> a.lines]
    BY <1>1 DEF IsAppend
<1>5. IsAppend(b)
    BY <1>1, <1>3, <1>4 DEF IsAppend
<1>6. \A j \in 1..i : /\ more[j] = Piece(a.lines[j], IF j = i THEN "head" ELSE "whole")
                      /\ more[j] \in Pieces /\ more[j].of = a.lines[j].of
                      /\ more[j].part = IF j = i THEN "head" ELSE "whole"
    <2> SUFFICES ASSUME NEW j \in 1..i
                 PROVE  LET part == IF j = i THEN "head" ELSE "whole" IN
                        /\ more[j] = Piece(a.lines[j], part)
                        /\ more[j] \in Pieces /\ more[j].of = a.lines[j].of /\ more[j].part = part
        OBVIOUS
    <2>1. a.lines[j] \in Lines
        BY <1>1, <1>3, LineIs
    <2> QED
        BY <2>1, PieceHas DEF Parts
<1>7. more \in Seq(Pieces) /\ Len(more) = i
    BY <1>3, <1>6
<1>8. Grows(more)
    BY <1>2, <1>7 DEF Grows, Appended
<1>9. \A c \in appends' : IsAppend(c)
    BY <1>2, <1>5 DEF Appended
<1>10. ASSUME ~Broken'
       PROVE  /\ \A m \in kept' : IsFound(m)'
              /\ \A c \in appends' : c.written # 0 => Cut(c)'
              /\ \A c, e \in appends' : c.written # 0 /\ e.written # 0 => c = e
    <2>1. ~Broken
        BY <1>8, <1>10, BrokenStays
    <2>2. \A m \in kept' : IsFound(m)'
        BY <1>3, <1>8, <2>1, FoundStays DEF Appended
    <2>3. ~IsHead(Len(history))
        <3>1. more[1].part # "tail" /\ Len(more) > 0
            BY <1>3, <1>6, <1>7
        <3> QED
            BY <1>8, <1>10, <3>1, OpenIsBroken
    <2>4. ASSUME NEW c \in appends PROVE c.written = 0
        <3>1. SUFFICES ASSUME c.written # 0 PROVE FALSE
            OBVIOUS
        <3>2. Cut(c)
            BY <2>1, <3>1 DEF Appended
        <3>3. c.lines[c.written] \in Lines
            <4>1. IsAppend(c)
                BY DEF Appended
            <4>2. c.written \in 1..Len(c.lines)
                BY <3>1, <4>1 DEF IsAppend
            <4> QED
                BY <4>1, <4>2, LineIs
        <3>4. Len(history) \in DOMAIN history
            BY <3>2, <1>8, GrowsHas DEF Cut
        <3> QED
            BY <2>3, <3>2, <3>3, <3>4, PieceHas DEF Cut, IsHead, Parts
    <2>5. \A c \in appends' : c.written # 0 => c = b
        BY <1>2, <2>4
    <2>6. Cut(b)'
        <3>1. Len(history') = Len(history) + i /\ history'[Len(history) + i] = more[i] /\ Len(history) \in Nat
            BY <1>3, <1>7, <1>8, GrowsHas
        <3>2. Len(history') > 0 /\ history'[Len(history')] = Piece(b.lines[b.written], "head")
            BY <1>3, <1>4, <1>6, <3>1
        <3>3. ASSUME NEW j \in 1..(i - 1) PROVE IsFound(a.lines[j].of)'
            <4>1. /\ j \in 1..Len(more) /\ more[j].part = "whole" /\ more[j].of = a.lines[j].of
                  /\ j > 1 => more[j - 1].part # "head"
                BY <1>3, <1>6, <1>7
            <4> QED
                BY <1>8, <2>3, <4>1, WholeIsFound
        <3> QED
            BY <1>4, <3>2, <3>3 DEF Cut
    <2> QED
        BY <2>2, <2>5, <2>6
<1> QED
    BY <1>3, <1>8, <1>9, <1>10, GrowsHas DEF Appended

LEMMA JoinHas ==
    ASSUME NEW S, NEW s \in Seq(S), NEW t \in Seq(S)
    PROVE  /\ s \o t \in Seq(S) /\ Len(s \o t) = Len(s) + Len(t)
           /\ \A j \in 1..Len(s) : (s \o t)[j] = s[j]
           /\ \A j \in 1..Len(t) : (s \o t)[Len(s) + j] = t[j]
    OBVIOUS

\* What is left of an append: a tail if it was cut, and whole lines.
LEMMA LeftHas ==
    ASSUME NEW a, IsAppend(a), NEW k, k = IF a.written = 0 THEN 0 ELSE 1,
           NEW more, more = LeftOf(a)
    PROVE  /\ more \in Seq(Pieces) /\ Len(more) = k + (Len(a.lines) - a.written)
           /\ k = 1 => more[1] = Piece(a.lines[a.written], "tail")
           /\ \A j \in 1..(Len(a.lines) - a.written) :
                 more[k + j].of = a.lines[a.written + j].of /\ more[k + j].part = "whole"
<1> DEFINE w == a.written
           n == Len(a.lines) - w
           first == IF w = 0 THEN <<>> ELSE <<Piece(a.lines[w], "tail")>>
           rest == [j \in 1..n |-> Piece(a.lines[w + j], "whole")]
<1>1. Len(a.lines) \in Nat /\ w \in Nat /\ n \in Nat /\ w + n = Len(a.lines) /\ w <= Len(a.lines)
    BY DEF IsAppend
<1>2. ASSUME NEW j \in 1..n
      PROVE  /\ rest[j] \in Pieces /\ rest[j].of = a.lines[w + j].of /\ rest[j].part = "whole"
    <2>1. w + j \in 1..Len(a.lines)
        BY <1>1
    <2>2. a.lines[w + j] \in Lines
        BY <2>1, LineIs
    <2> QED
        BY <2>2, PieceHas DEF Parts
<1>3. rest \in Seq(Pieces) /\ Len(rest) = n
    <2>1. rest \in [1..n -> Pieces]
        BY <1>2
    <2> HIDE DEF rest, n
    <2> QED
        BY <1>1, <2>1
<1>4. /\ first \in Seq(Pieces) /\ Len(first) = k
      /\ k = 1 => first[1] = Piece(a.lines[w], "tail")
    <2>1. CASE w = 0
        BY <2>1
    <2>2. CASE w # 0
        <3>1. w \in 1..Len(a.lines)
            BY <1>1, <2>2
        <3>2. Piece(a.lines[w], "tail") \in Pieces
            BY <3>1, LineIs, PieceHas DEF Parts
        <3> QED
            BY <2>2, <3>2
    <2> QED
        BY <2>1, <2>2
<1>5. more = first \o rest
    BY DEF LeftOf
<1> HIDE DEF first, rest
<1>6. /\ first \o rest \in Seq(Pieces) /\ Len(first \o rest) = Len(first) + Len(rest)
      /\ \A j \in 1..Len(first) : (first \o rest)[j] = first[j]
      /\ \A j \in 1..Len(rest) : (first \o rest)[Len(first) + j] = rest[j]
    BY <1>3, <1>4, JoinHas
<1> HIDE DEF w, n
<1>7. /\ more \in Seq(Pieces) /\ Len(more) = k + n
      /\ k = 1 => more[1] = first[1]
      /\ \A j \in 1..n : more[k + j] = rest[j]
    BY <1>3, <1>4, <1>5, <1>6
<1> QED
    BY <1>2, <1>4, <1>7 DEF w, n

LEMMA AppendedRest ==
    ASSUME Appended, NEW a \in appends, AppendRest(a) PROVE Appended'
<1>1. /\ IsAppend(a) /\ Len(a.lines) \in Nat /\ Len(a.lines) > 0 /\ DOMAIN a.lines = 1..Len(a.lines)
      /\ a.written \in 0..Len(a.lines)
    BY DEF Appended, IsAppend
<1> SUFFICES ASSUME NEW more, more = LeftOf(a), NEW k, k = IF a.written = 0 THEN 0 ELSE 1
             PROVE  Appended'
    OBVIOUS
<1>2. /\ history' = history \o more /\ appends' = appends \ {a}
      /\ kept' = kept \cup {a.lines[i].of : i \in DOMAIN a.lines}
    BY DEF AppendRest
<1>3. /\ more \in Seq(Pieces) /\ Len(more) = k + (Len(a.lines) - a.written)
      /\ k = 1 => more[1] = Piece(a.lines[a.written], "tail")
      /\ \A j \in 1..(Len(a.lines) - a.written) :
            more[k + j].of = a.lines[a.written + j].of /\ more[k + j].part = "whole"
    <2>1. IsAppend(a) /\ k = (IF a.written = 0 THEN 0 ELSE 1) /\ more = LeftOf(a)
        BY <1>1
    <2> QED
        BY <2>1, LeftHas
<1>4. Grows(more)
    BY <1>2, <1>3 DEF Grows, Appended
<1>5. kept' \subseteq DOMAIN Who
    BY <1>1, <1>2, LineIs DEF Appended
<1>6. a.written # 0 => Piece(a.lines[a.written], "tail").part = "tail" /\ Piece(a.lines[a.written], "tail").of = a.lines[a.written].of
    <2>1. a.written # 0 => a.written \in 1..Len(a.lines)
        BY <1>1
    <2> QED
        BY <1>1, <2>1, LineIs, PieceHas DEF Parts
<1>7. ASSUME ~Broken'
       PROVE  /\ \A m \in kept' : IsFound(m)'
              /\ \A c \in appends' : c.written # 0 => Cut(c)'
              /\ \A c, e \in appends' : c.written # 0 /\ e.written # 0 => c = e
    <2>1. ~Broken
        BY <1>4, <1>7, BrokenStays
    \* Who has begun a line is a.
    <2>2. ASSUME NEW c \in appends, c # a PROVE c.written = 0
        <3>1. SUFFICES ASSUME c.written # 0 PROVE FALSE
            OBVIOUS
        <3>2. a.written = 0
            BY <2>1, <2>2, <3>1 DEF Appended
        <3>3. Cut(c) /\ IsAppend(c)
            BY <2>1, <3>1 DEF Appended
        <3>4. c.written \in 1..Len(c.lines)
            BY <3>1, <3>3 DEF IsAppend
        <3>5. IsHead(Len(history))
            <4>1. Len(history) \in DOMAIN history
                BY <1>4, <3>3, GrowsHas DEF Cut
            <4>2. c.lines[c.written] \in Lines
                BY <3>3, <3>4, LineIs
            <4> QED
                BY <3>3, <4>1, <4>2, PieceHas DEF Cut, IsHead, Parts
        <3>6. more[1].part # "tail" /\ Len(more) > 0
            <4>1. 1 \in 1..(Len(a.lines) - a.written) /\ k + 1 = 1
                BY <1>1, <3>2
            <4>2. more[1].part = "whole"
                BY <1>3, <4>1
            <4> QED
                BY <1>1, <1>3, <3>2, <4>2
        <3> QED
            BY <1>4, <1>7, <3>5, <3>6, OpenIsBroken
    <2>3. \A m \in kept : IsFound(m)'
        BY <1>4, <2>1, FoundStays DEF Appended
    <2>4. ASSUME NEW i \in 1..Len(a.lines) PROVE IsFound(a.lines[i].of)'
        <3>1. CASE i > a.written
            <4> SUFFICES ASSUME NEW j, j = i - a.written, NEW q, q = k + j PROVE IsFound(a.lines[i].of)'
                OBVIOUS
            <4>6. /\ j \in 1..(Len(a.lines) - a.written) /\ a.written + j = i /\ k \in 0..1 /\ j \in Nat
                BY <1>1, <3>1
            <4>7. q \in 1..Len(more)
                <5>1. Len(more) = k + (Len(a.lines) - a.written) /\ a.written \in Nat /\ Len(a.lines) \in Nat
                    BY <1>1, <1>3
                <5>2. k \in Int /\ 0 <= k /\ j \in Int /\ 1 <= j /\ j <= Len(a.lines) - a.written
                    BY <4>6, <5>1
                <5>3. q \in Int /\ 1 <= q /\ q <= Len(more)
                    BY <5>1, <5>2
                <5> QED
                    BY <5>1, <5>2, <5>3
            <4>1. /\ j \in 1..(Len(a.lines) - a.written) /\ a.written + j = i /\ k \in 0..1 /\ j \in Nat
                  /\ q \in 1..Len(more)
                BY <4>6, <4>7
            <4>2. more[q].of = a.lines[i].of /\ more[q].part = "whole"
                <5>1. more[k + j].of = a.lines[a.written + j].of /\ more[k + j].part = "whole"
                    BY <1>3, <4>1
                <5> QED
                    BY <4>1, <5>1
            <4>3. q = 1 => ~IsHead(Len(history))
                <5>1. q = 1 => more[1].part # "tail" /\ Len(more) > 0
                    BY <1>1, <1>3, <4>1, <4>2
                <5> QED
                    BY <1>4, <1>7, <5>1, OpenIsBroken
            <4>4. q > 1 => more[q - 1].part # "head"
                <5>1. CASE j = 1
                    BY <1>3, <1>6, <4>1, <5>1
                <5>2. CASE j > 1
                    <6>3. j - 1 \in 1..(Len(a.lines) - a.written)
                        BY <1>1, <4>1, <5>2
                    <6>4. k + (j - 1) = q - 1
                        BY <4>1
                    <6>1. j - 1 \in 1..(Len(a.lines) - a.written) /\ k + (j - 1) = q - 1
                        BY <6>3, <6>4
                    <6>2. more[k + (j - 1)].part = "whole"
                        BY <1>3, <6>1
                    <6> QED
                        BY <6>1, <6>2
                <5> QED
                    BY <4>1, <5>1, <5>2
            <4>5. IsFound(more[q].of)'
                BY <1>4, <4>1, <4>2, <4>3, <4>4, WholeIsFound
            <4> QED
                BY <4>2, <4>5
        \* The line that was cut is whole again.
        <3>2. CASE i = a.written
            <4>1. /\ k = 1 /\ 1 \in 1..Len(more) /\ more[1] = Piece(a.lines[i], "tail")
                  /\ history[Len(history)] = Piece(a.lines[i], "head") /\ Len(history) > 0
                BY <1>1, <1>3, <2>1, <3>2 DEF Appended, Cut
            <4> SUFFICES ASSUME NEW n, n = Len(history) PROVE IsFound(a.lines[i].of)'
                OBVIOUS
            <4>2. /\ n \in Nat /\ n >= 1 /\ n + 1 \in DOMAIN history' /\ history'[n + 1] = Piece(a.lines[i], "tail")
                  /\ n \in DOMAIN history' /\ history'[n] = Piece(a.lines[i], "head")
                BY <1>4, <4>1, GrowsHas
            <4>3. a.lines[i] \in Lines
                BY <1>1, LineIs
            <4>4. /\ Piece(a.lines[i], "tail") = [Piece(a.lines[i], "head") EXCEPT !.part = "tail"]
                  /\ Piece(a.lines[i], "head").part = "head" /\ Piece(a.lines[i], "tail").part = "tail"
                  /\ Piece(a.lines[i], "tail").of = a.lines[i].of
                BY DEF Piece
            <4>5. n + 1 - 1 = n /\ n + 1 - 2 = n - 1
                BY <4>2
            <4>6. IsHead(n)' /\ Continues(n + 1)'
                BY <4>2, <4>4, <4>5 DEF IsHead, Continues
            <4>7. ~IsHead(n - 1)'
                <5>1. n - 1 \in Int /\ n - 1 <= Len(history)
                    BY <4>2
                <5>2. SUFFICES ASSUME IsHead(n - 1) PROVE FALSE
                    BY <1>4, <5>1, HeadStays
                <5>3. n - 1 \in 1..(Len(history) - 1) /\ n - 1 + 1 = n
                    BY <1>4, <4>2, <5>2, GrowsHas DEF IsHead
                <5>4. Continues(n)
                    BY <2>1, <5>2, <5>3 DEF Broken
                <5>7. history[n - 1] \in Pieces
                    BY <1>4, <5>3 DEF Grows
                <5>5. history[n] = [history[n - 1] EXCEPT !.part = "tail"]
                    BY <5>4 DEF Continues
                <5>6. history[n].part = "tail"
                    BY <5>5, <5>7 DEF Pieces
                <5> QED
                    BY <4>1, <4>4, <5>6
            <4> QED
                BY <4>2, <4>4, <4>5, <4>6, <4>7 DEF Parses, IsFound
        <3>3. CASE i < a.written
            <4>1. Cut(a) /\ i \in 1..(a.written - 1)
                BY <1>1, <2>1, <3>3 DEF Appended
            <4>2. IsFound(a.lines[i].of)
                BY <4>1 DEF Cut
            <4> QED
                BY <1>4, <4>2, FoundStays
        <3> QED
            BY <1>1, <3>1, <3>2, <3>3
    <2>5. \A c \in appends' : c.written = 0
        BY <1>2, <2>2
    <2>6. \A m \in kept' : IsFound(m)'
        BY <1>1, <1>2, <2>3, <2>4
    <2> QED
        BY <2>5, <2>6
<1>8. \A c \in appends' : IsAppend(c)
    BY <1>2 DEF Appended
<1> QED
    BY <1>4, <1>5, <1>7, <1>8, GrowsHas DEF Appended

\* A chunk that comes is an append that has not begun.
LEMMA AppendedComes == ASSUME Appended, HistoryComes PROVE Appended'
<1>1. PICK chunk \in Chunks, raw \in Forms, mapped \in BOOLEAN :
        LET first == engine[current].dir
            dir == IF mapped THEN LearnContact(first, Who[chunk[1]], Forms, {"pushName"}) ELSE first
        IN appends' = appends \cup {[chunk |-> chunk, written |-> 0,
               lines |-> [i \in DOMAIN chunk |->
                   [of |-> chunk[i], form |-> Resolve(dir, Who[chunk[i]], raw)]]]}
    BY DEF HistoryComes
<1> DEFINE first == engine[current].dir
           dir == IF mapped THEN LearnContact(first, Who[chunk[1]], Forms, {"pushName"}) ELSE first
<1>2. chunk \in Seq(DOMAIN Who) /\ chunk # <<>>
    BY InboundAssumption
<1> SUFFICES ASSUME NEW lines, lines = [i \in DOMAIN chunk |->
                        [of |-> chunk[i], form |-> Resolve(dir, Who[chunk[i]], raw)]],
                    NEW a, a = [chunk |-> chunk, written |-> 0, lines |-> lines]
             PROVE  Appended'
    OBVIOUS
<1>3. Len(chunk) \in Nat /\ Len(chunk) > 0 /\ DOMAIN chunk = 1..Len(chunk)
    BY <1>2
<1>4. ASSUME NEW i \in 1..Len(chunk) PROVE lines[i] \in Lines
    <2>1. chunk[i] \in DOMAIN Who /\ Resolve(dir, Who[chunk[i]], raw) \in Forms
        BY <1>2, ResolvesToForm
    <2> QED
        BY <1>3, <2>1 DEF Lines
<1>5. lines \in Seq(Lines) /\ Len(lines) = Len(chunk)
    <2>1. lines \in [1..Len(chunk) -> Lines]
        BY <1>3, <1>4
    <2> QED
        BY <1>3, <2>1
<1>6. IsAppend(a) /\ a.written = 0
    BY <1>3, <1>5 DEF IsAppend
<1>7. appends' = appends \cup {a} /\ UNCHANGED <<history, kept>>
    BY <1>1 DEF HistoryComes
<1>8. Broken' <=> Broken
    BY <1>7 DEF Broken, IsHead, Continues
<1>9. \A m : IsFound(m)' <=> IsFound(m)
    BY <1>7 DEF IsFound, Parses, IsHead, Continues
<1>10. \A c : Cut(c)' <=> Cut(c)
    BY <1>7, <1>9 DEF Cut
<1> QED
    BY <1>6, <1>7, <1>8, <1>9, <1>10 DEF Appended

\* A step that leaves the file and what is to come alone, or loses what is to come.
LEMMA AppendedSame ==
    ASSUME Appended, UNCHANGED <<history, kept>>, appends' \subseteq appends PROVE Appended'
<1>1. Broken' <=> Broken
    BY DEF Broken, IsHead, Continues
<1>2. \A m : IsFound(m)' <=> IsFound(m)
    BY DEF IsFound, Parses, IsHead, Continues
<1>3. \A c : Cut(c)' <=> Cut(c)
    BY <1>2 DEF Cut
<1> QED
    BY <1>1, <1>2, <1>3 DEF Appended

LEMMA AppendedInit == Init => Appended
<1> SUFFICES ASSUME Init PROVE Appended
    OBVIOUS
<1>1. history = <<>> /\ appends = {} /\ kept = {}
    BY DEF Init
<1> QED
    BY <1>1 DEF Appended

LEMMA AppendedStep == ASSUME Appended, [Next]_vars PROVE Appended'
<1>1. CASE HistoryComes
    BY <1>1, AppendedComes
<1>2. ASSUME NEW a \in appends, AppendPart(a) \/ AppendRest(a) PROVE Appended'
    BY <1>2, AppendedPart, AppendedRest
<1>3. CASE UNCHANGED <<history, appends, kept>>
    BY <1>3, AppendedSame
<1>4. CASE Dies
    BY <1>4, AppendedSame DEF Dies
<1>5. CASE Start \/ Destroy \/ Disconnect \/ Contact \/ GroupsCome
    BY <1>3, <1>5 DEF Start, Destroy, Disconnect, Contact, GroupsCome, incoming
<1>6. CASE Crash
    BY <1>4, <1>6 DEF Crash
<1>7. ASSUME NEW e \in Engines, Timer(e) PROVE Appended'
    BY <1>3, <1>7 DEF Timer, incoming
<1>8. ASSUME NEW s \in saves, Written(s) \/ Renamed(s) \/ SaveFails(s) PROVE Appended'
    BY <1>3, <1>4, <1>8 DEF Written, Renamed, SaveFails, incoming
<1>9. ASSUME NEW m \in Messages, Arrive(m) \/ Fetched(m) \/ Hooked(m) PROVE Appended'
    BY <1>3, <1>9 DEF Arrive, Fetched, Hooked
<1>10. CASE UNCHANGED vars
    BY <1>3, <1>10 DEF vars
<1> QED
    BY <1>1, <1>2, <1>5, <1>6, <1>7, <1>8, <1>9, <1>10 DEF Next


-----------------------------------------------------------------------------
(* What follows.                                                            *)

\* A set of numbers that are not too large has a largest one.
LEMMA HasMaximum ==
    ASSUME NEW n \in Nat, NEW S, S \subseteq 0..n, S # {}
    PROVE  \E i \in S : \A j \in S : j <= i
<1> DEFINE R == OpToRel(<, Nat)
           T == {n - i : i \in S}
<1>1. IsWellFoundedOn(R, Nat)
    BY NatLessThanWellFounded
<1>2. \A x, y \in Nat : <<x, y>> \in R <=> x < y
    BY DEF OpToRel
<1> HIDE DEF R
<1>7. T \subseteq Nat
    <2>1. \A i \in S : n - i \in Nat
        OBVIOUS
    <2> QED
        BY <2>1
<1>3. T \subseteq Nat /\ T # {}
    <2>1. PICK i \in S : TRUE
        OBVIOUS
    <2>2. n - i \in T
        BY <2>1
    <2> QED
        BY <1>7, <2>2
<1>4. PICK x \in T : \A y \in T : ~(<<y, x>> \in R)
    BY <1>1, <1>3, WFMin
<1>5. PICK i \in S : x = n - i
    BY <1>4
<1>6. ASSUME NEW j \in S PROVE j <= i
    <2>1. n - j \in T /\ n - j \in Nat /\ x \in Nat /\ i \in Nat /\ j \in Nat
        BY <1>3, <1>5
    <2>2. ~(n - j < x)
        BY <1>2, <1>4, <2>1
    <2> QED
        BY <1>5, <2>1, <2>2
<1> QED
    BY <1>6

LEMMA HoldsInit == Init => Holds
    BY DirectoryInit, MessagesInit, AppendedInit DEF Holds

LEMMA HoldsStep == ASSUME IInv, IInv', Holds, [Next]_vars PROVE Holds'
    BY DirectoryStep, MessagesStep, AppendedStep DEF Holds

LEMMA HoldsTypes == IInv /\ Holds => TypeOK
<1> SUFFICES ASSUME IInv, Holds PROVE TypeOK
    OBVIOUS
<1>1. current \in {0} \cup Engines /\ overlapped \in BOOLEAN
    BY InboundAssumption DEF IInv, Shape, Engines
<1>2. \A e \in Engines : /\ engine[e].dir \in Directories
                         /\ \A n \in engine[e].dir.names : n[1] \in engine[e].dir.there
    BY DEF Holds, Directory, IsDir
<1>3. ASSUME NEW m \in Messages PROVE message[m].by \in {0} \cup Engines /\ message[m].chat \in Forms
    <2>1. message[m] \in MessageRecords
        BY DEF Holds, Numbered
    <2> QED
        BY <2>1 DEF MessageRecords
<1>4. \A f \in {disk, tmp} : f.dir \in Directories /\ f.is \in {"missing", "torn", "whole"}
    BY DEF Holds, Directory, IsFile, IsDir
<1>5. \A s \in saves : s.by \in Engines /\ s.dir \in Directories
    <2>1. used.engines \in 0..MaxEngines /\ MaxEngines \in Nat
        BY InboundAssumption DEF IInv, Shape
    <2> QED
        BY <2>1 DEF IInv, Shape, Engines, Holds, Directory, IsDir
<1>6. ASSUME NEW i \in DOMAIN history PROVE history[i].part \in {"whole", "head", "tail"}
    <2>1. history[i] \in Pieces
        BY DEF Holds, Appended
    <2> QED
        BY <2>1 DEF Pieces, Parts
<1> QED
    BY <1>1, <1>2, <1>3, <1>4, <1>5, <1>6 DEF TypeOK

LEMMA HoldsReplies == Holds => RepliesFind
<1> SUFFICES ASSUME Holds, NEW m \in Messages, message[m].at = "dispatched", current # 0,
                    message[m].by = current
             PROVE  IsRemembered(m)
    BY DEF RepliesFind, IsRemembered, Later
<1>1. m \in Arrived
    BY DEF Arrived
<1> QED
    BY <1>1 DEF Holds, Remembered

LEMMA FinishedIsWhole == ASSUME Finished, history \in Seq(Pieces) PROVE ~Broken
<1> SUFFICES ASSUME NEW i \in 1..(Len(history) - 1), IsHead(i), ~Continues(i + 1) PROVE FALSE
    BY DEF Broken
<1>1. Len(history) \in Nat /\ DOMAIN history = 1..Len(history)
    OBVIOUS
<1>2. i \in DOMAIN history /\ i < Len(history)
    BY <1>1
<1> QED
    BY <1>2 DEF Finished

LEMMA HoldsHistory == Holds => HistoryAnswered
<1> SUFFICES ASSUME Holds, Finished, NEW m \in kept
             PROVE  /\ AnswerNow(m) # "none"
                    /\ Who[m] \in (IF current = 0 THEN Load ELSE engine[current].dir).known
                       => AnswerNow(m) = "pn"
    BY DEF HistoryAnswered
<1> DEFINE dir == IF current = 0 THEN Load ELSE engine[current].dir
           lines == {i \in DOMAIN history : history[i].of = m /\ Parses(i)}
           last == CHOOSE i \in lines : \A j \in lines : j <= i
<1>1. history \in Seq(Pieces) /\ Len(history) \in Nat /\ DOMAIN history = 1..Len(history)
    BY DEF Holds, Appended
<1>2. ~Broken
    BY <1>1, FinishedIsWhole
<1>3. IsFound(m)
    BY <1>2 DEF Holds, Appended
<1>4. lines # {} /\ lines \subseteq 0..Len(history)
    BY <1>1, <1>3 DEF IsFound
<1>5. AnswerNow(m) = Resolve(dir, Who[m], history[last].form)
    BY <1>4 DEF AnswerNow, Answer
<1>6. last \in lines
    <2> HIDE DEF lines
    <2>1. \E i \in lines : \A j \in lines : j <= i
        BY <1>1, <1>4, HasMaximum
    <2> QED
        BY <2>1
<1>7. history[last].form \in Forms
    <2> HIDE DEF last
    <2>1. history[last] \in Pieces
        BY <1>1, <1>6
    <2> QED
        BY <2>1 DEF Pieces
<1> HIDE DEF dir, last
<1> QED
    BY <1>5, <1>7 DEF Resolve, Forms, dir

\* The records of the messages, the directories of the engines and of the file, and the lines of
\* the history are what the code reads them as.
THEOREM InboundTypes == Spec => []TypeOK
<1>1. Init => IInv /\ Holds
    BY IInvInit, HoldsInit
<1>2. IInv /\ Holds /\ [Next]_vars => IInv' /\ Holds'
    BY IInvStep, HoldsStep
<1>3. IInv /\ Holds => TypeOK
    BY HoldsTypes
<1> QED
    BY <1>1, <1>2, <1>3, PTL DEF Spec

\* A reply finds the message it quotes until MaxPerChat have come after it in the chat, whatever
\* has been learned about its sender in between (baileys-session-store.ts).
THEOREM RepliesAreFound == Spec => []RepliesFind
<1>1. Init => IInv /\ Holds
    BY IInvInit, HoldsInit
<1>2. IInv /\ Holds /\ [Next]_vars => IInv' /\ Holds'
    BY IInvStep, HoldsStep
<1>3. Holds => RepliesFind
    BY HoldsReplies
<1> QED
    BY <1>1, <1>2, <1>3, PTL DEF Spec

\* While no line of the history is cut off, a backfill answers every message that was appended,
\* and under the phone number as soon as it is known.
THEOREM HistoryIsAnswered == Spec => []HistoryAnswered
<1>1. Init => IInv /\ Holds
    BY IInvInit, HoldsInit
<1>2. IInv /\ Holds /\ [Next]_vars => IInv' /\ Holds'
    BY IInvStep, HoldsStep
<1>3. Holds => HistoryAnswered
    BY HoldsHistory
<1> QED
    BY <1>1, <1>2, <1>3, PTL DEF Spec
==============================================================================
