-------------------------- MODULE Admission_proofs --------------------------
(***************************************************************************)
(* What Admission promises, for every set of consumers, instances and      *)
(* admissions, every capacity and any number of reloads.  The invariant    *)
(* has three parts that no step mixes: the record of each admission, the   *)
(* counts of the queues, and the engine's own state.                       *)
(***************************************************************************)
EXTENDS Admission, FiniteSetTheorems, TLAPS

-----------------------------------------------------------------------------
\* The record of an admission.  A consumer that the update was routed to is
\* still to be reserved in, or reserved in, or it got the update, or it may
\* go without.
Busy == {"check", "reserve", "commit", "late"}
MayMiss(r, n) == r.view[n].onFull = "DropOldest" \/ n \in r.big

RecordOK(r) ==
    /\ r \in Admitter
    /\ r.todo \subseteq r.routed
    /\ r.permits \subseteq r.routed \ r.todo
    /\ r.got \subseteq r.routed
    /\ r.pc \notin Busy => r.permits = {}
    /\ r.pc \in {"idle", "route"} => r.attempt < 2
    /\ r.pc \in {"idle", "route", "check", "reserve"} => r.got = {}
    /\ r.pc = "reserve" => r.at \in r.todo
    /\ r.pc \in {"commit", "late"} => r.todo = {}
    /\ r.pc = "late" => r.at \in r.got
    /\ r.pc \in Busy =>
          \A n \in r.routed :
              /\ r.view[n].slot \in Slots
              /\ n \in r.todo \cup r.permits \cup r.got \/ MayMiss(r, n)
    /\ r.pc # "done" => r.result = "None"
    /\ r.result \in {"Backpressure", "Unroutable"} => r.got = {}
    /\ r.result = "Admitted" =>
          \A n \in r.routed : n \in r.got \/ MayMiss(r, n)

RecordsOK == /\ adm \in [Admitters -> Admitter]
             /\ \A a \in Admitters : RecordOK(adm[a])

\* The queues.  The room that an admission holds is a pair of it and a name.
Held(i) == {an \in Admitters \X Names :
               an[2] \in adm[an[1]].permits /\ SlotOf(an[1], an[2]) = i}

Counts == [onFull : OnFull, available : Nat, leased : Nat, reserved : Int]

QueuesOK ==
    /\ queue \in [Slots -> Counts]
    /\ \A i \in Slots : /\ IsFiniteSet(Held(i))
                        /\ queue[i].reserved = Cardinality(Held(i))

\* The engine.  Every instance of the state that a reload is about to swap
\* in is as open as those of the current one, and a drain that was not
\* called off is the drain of a retired instance.
Open(i) == /\ i \notin closed
           /\ i \notin retired
           /\ [slot |-> i, live |-> TRUE] \notin drains

EngineTypeOK ==
    /\ state \in [Names -> Target]
    /\ made \subseteq Slots
    /\ kind \in [made -> [name : Names, mode : Modes]]
    /\ closed \subseteq made
    /\ retired \subseteq made
    /\ drains \subseteq [slot : Slots, live : BOOLEAN]
    /\ write \in {Free} \cup [op : {"swap"}, next : [Names -> Target]]
                        \cup [op : {"drain"}, slot : Slots]

EngineOK ==
    /\ EngineTypeOK
    /\ closed \cap retired = {}
    /\ \A d \in drains : d.live => d.slot \in retired
    /\ \A n \in Names : state[n].slot # NoSlot =>
          state[n].slot \in made /\ Open(state[n].slot)
    /\ write.op = "swap" =>
          \A n \in Names : write.next[n].slot # NoSlot =>
              write.next[n].slot \in made /\ Open(write.next[n].slot)

AdmissionInv == RecordsOK /\ QueuesOK /\ EngineOK /\ NothingStranded

-----------------------------------------------------------------------------
\* The records.
LEMMA IdleOK == RecordOK(Idle)
  BY DEF RecordOK, Idle, Admitter, Target, NoTarget, OnFull, Busy

LEMMA SetOK ==
    ASSUME RecordsOK, NEW a \in Admitters, NEW rec, RecordOK(rec), Set(a, rec)
    PROVE  RecordsOK'
  BY DEF RecordsOK, Set, RecordOK

\* The answer of an admission that holds no room any more.
LEMMA DoneOK ==
    ASSUME RecordsOK, NEW a \in Admitters, NEW rec \in Admitter,
           NEW result \in {"Admitted", "Backpressure", "Unroutable"},
           rec.got \subseteq rec.routed, rec.permits = {},
           result # "Admitted" => rec.got = {},
           result = "Admitted" =>
               \A n \in rec.routed : n \in rec.got \/ MayMiss(rec, n),
           Done(a, rec, result)
    PROVE  RecordsOK'
<1> DEFINE view == [n \in Names |-> [rec.view[n] EXCEPT !.slot = NoSlot]]
           new == [rec EXCEPT !.pc = "done", !.result = result, !.attempt = 0,
                              !.at = NoSlot, !.todo = {}, !.view = view]
<1>1. /\ view \in [Names -> Target]
      /\ \A n \in Names : view[n].onFull = rec.view[n].onFull
  BY DEF Admitter, Target
<1> HIDE DEF view
<1>a. new \in Admitter
  <2>1. 0 \in 0 .. 2
    OBVIOUS
  <2> QED
    BY <1>1, <2>1 DEF Admitter
<1>2. /\ new.pc = "done" /\ new.result = result
      /\ new.todo = {} /\ new.permits = {} /\ new.got = rec.got
      /\ new.routed = rec.routed /\ new.big = rec.big /\ new.view = view
  BY <1>1 DEF Admitter
<1>3. Set(a, new)
  BY DEF Done, view
<1> HIDE DEF new
<1>4. \A n \in Names : MayMiss(rec, n) => MayMiss(new, n)
  BY <1>1, <1>2 DEF MayMiss
<1>5. rec.routed \subseteq Names
  BY DEF Admitter
<1>6. RecordOK(new)
  BY <1>a, <1>2, <1>4, <1>5 DEF RecordOK, Busy
<1> QED
  BY <1>3, <1>6, SetOK

LEMMA RouteRecords ==
    ASSUME RecordsOK, EngineTypeOK, NEW a \in Admitters,
           NEW T \in SUBSET Names, Route(a, T)
    PROVE  RecordsOK'
<1> DEFINE view == [n \in Names |-> IF n \in T THEN state[n] ELSE NoTarget]
           rec == [adm[a] EXCEPT !.pc = "check", !.attempt = @ + 1, !.todo = T,
                                 !.routed = T, !.view = view]
<1>1. RecordOK(adm[a]) /\ adm[a].pc \in {"idle", "route"}
  BY DEF RecordsOK, Route
<1>2. /\ view \in [Names -> Target]
      /\ \A n \in T : view[n].slot \in Slots
  BY DEF EngineTypeOK, Target, NoTarget, OnFull, Route
<1> HIDE DEF view
<1>a. rec \in Admitter
  <2>1. adm[a].attempt + 1 \in 0 .. 2
    BY <1>1 DEF RecordOK, Admitter
  <2> QED
    BY <1>1, <1>2, <2>1 DEF RecordOK, Admitter
<1>3. /\ rec.permits = {} /\ rec.got = {}
      /\ rec.todo = T /\ rec.routed = T /\ rec.view = view /\ rec.pc = "check"
      /\ rec.result = "None"
  BY <1>1, <1>2 DEF RecordOK, Admitter, Busy
<1> HIDE DEF rec
<1>4. CASE T = {}
  BY <1>a, <1>3, <1>4, DoneOK DEF Route, rec, view
<1>5. CASE T # {}
  <2>1. RecordOK(rec)
    BY <1>a, <1>2, <1>3 DEF RecordOK, Busy
  <2>2. Set(a, rec)
    BY <1>5 DEF Route, rec, view
  <2> QED
    BY <2>1, <2>2, SetOK
<1> QED
  BY <1>4, <1>5

LEMMA PassOfTodo ==
    ASSUME NEW a \in Admitters, NEW n \in Pass(a)
    PROVE  n \in adm[a].todo
  BY DEF Pass

\* An admission that a target refuses holds nothing and delivered nothing.
LEMMA RefuseRecords ==
    ASSUME RecordsOK, NEW a \in Admitters, adm[a].got = {},
           Done(a, [adm[a] EXCEPT !.permits = {}], "Backpressure")
    PROVE  RecordsOK'
<1> DEFINE rec == [adm[a] EXCEPT !.permits = {}]
<1>1. /\ rec \in Admitter /\ rec.permits = {} /\ rec.got = {}
  BY DEF RecordsOK, RecordOK, Admitter
<1> HIDE DEF rec
<1> QED
  BY <1>1, DoneOK DEF rec

LEMMA CheckRecords ==
    ASSUME RecordsOK, NEW a \in Admitters, NEW n \in Names, Check(a, n)
    PROVE  RecordsOK'
<1>1. /\ RecordOK(adm[a]) /\ adm[a].pc = "check" /\ n \in adm[a].todo
      /\ adm[a].got = {}
  BY PassOfTodo DEF RecordsOK, RecordOK, Check
<1>2. CASE SlotOf(a, n) \notin closed
  <2> DEFINE rec == [adm[a] EXCEPT !.pc = "reserve", !.at = n]
  <2>1. /\ rec \in Admitter /\ rec.pc = "reserve" /\ rec.at = n
        /\ \A r \in {rec} : /\ r.todo = adm[a].todo /\ r.routed = adm[a].routed
                            /\ r.permits = adm[a].permits /\ r.got = {}
                            /\ r.view = adm[a].view /\ r.big = adm[a].big
                            /\ r.result = adm[a].result
    BY <1>1 DEF RecordOK, Admitter
  <2>2. Set(a, rec)
    BY <1>2 DEF Check
  <2> HIDE DEF rec
  <2>3. RecordOK(rec)
    BY <1>1, <2>1 DEF RecordOK, Busy, MayMiss
  <2> QED
    BY <2>2, <2>3, SetOK
<1>3. CASE SlotOf(a, n) \in closed /\ adm[a].attempt = 1
  <2> DEFINE rec == [Idle EXCEPT !.pc = "route", !.attempt = 1]
  <2>1. RecordOK(rec)
    <3>1. 1 \in 0 .. 2
      OBVIOUS
    <3>2. /\ rec \in Admitter /\ rec.pc = "route" /\ rec.attempt = 1
          /\ rec.todo = {} /\ rec.routed = {} /\ rec.permits = {}
          /\ rec.got = {} /\ rec.result = "None"
      BY <3>1, IdleOK DEF RecordOK, Idle, Admitter
    <3> HIDE DEF rec
    <3> QED
      BY <3>2 DEF RecordOK, Busy
  <2>2. Set(a, rec)
    BY <1>3 DEF Check
  <2> QED
    BY <2>1, <2>2, SetOK
<1>4. CASE SlotOf(a, n) \in closed /\ adm[a].attempt # 1
  BY <1>1, <1>4, RefuseRecords DEF Check
<1> QED
  BY <1>2, <1>3, <1>4

LEMMA ReservedRecords ==
    ASSUME RecordsOK, NEW a \in Admitters, adm[a].pc = "reserve",
           NEW permits, NEW big \in SUBSET Names,
           adm[a].permits \subseteq permits,
           permits \subseteq adm[a].permits \cup {adm[a].at},
           adm[a].big \subseteq big,
           \/ adm[a].at \in permits \cup big
           \/ adm[a].view[adm[a].at].onFull = "DropOldest",
           Reserved(a, permits, big)
    PROVE  RecordsOK'
<1> DEFINE r == adm[a]
           rec == [adm[a] EXCEPT !.todo = @ \ {adm[a].at}, !.at = NoSlot,
                                 !.permits = permits, !.big = big]
<1>1. RecordOK(r) /\ r.at \in r.todo /\ r.got = {} /\ r.result = "None"
  BY DEF RecordsOK, RecordOK
<1>2. /\ rec \in Admitter /\ rec.todo = r.todo \ {r.at} /\ rec.big = big
      /\ rec.permits = permits /\ rec.got = {} /\ rec.routed = r.routed
      /\ rec.view = r.view /\ rec.result = "None"
  BY <1>1 DEF RecordOK, Admitter
<1>3. \A n \in r.routed :
        /\ r.view[n].slot \in Slots
        /\ n \in rec.todo \cup rec.permits \/ MayMiss(rec, n)
  BY <1>1, <1>2 DEF RecordOK, Busy, MayMiss
<1>4. rec.permits \subseteq rec.routed \ rec.todo /\ rec.todo \subseteq rec.routed
  BY <1>1, <1>2 DEF RecordOK
<1>5. \/ rec.todo # {} /\ Set(a, [rec EXCEPT !.pc = "check"])
      \/ rec.todo = {} /\ permits # {} /\ Set(a, [rec EXCEPT !.pc = "commit"])
      \/ rec.todo = {} /\ permits = {} /\ Done(a, rec, "Admitted")
  BY DEF Reserved
<1> HIDE DEF rec, r
<1>6. ASSUME NEW pc \in {"check", "commit"}, pc = "commit" => rec.todo = {},
             Set(a, [rec EXCEPT !.pc = pc])
      PROVE  RecordsOK'
  <2> DEFINE new == [rec EXCEPT !.pc = pc]
  <2>1. /\ new \in Admitter /\ new.todo = rec.todo /\ new.big = rec.big
        /\ new.permits = rec.permits /\ new.got = {} /\ new.routed = rec.routed
        /\ new.view = rec.view /\ new.result = "None" /\ new.pc = pc
    BY <1>2 DEF Admitter
  <2> HIDE DEF new
  <2>2. RecordOK(new)
    BY <1>2, <1>3, <1>4, <1>6, <2>1 DEF RecordOK, Busy, MayMiss
  <2> QED
    BY <1>6, <2>2, SetOK DEF new
<1>7. ASSUME rec.todo = {}, permits = {}, Done(a, rec, "Admitted")
      PROVE  RecordsOK'
  BY <1>2, <1>3, <1>7, DoneOK
<1> QED
  BY <1>5, <1>6, <1>7

LEMMA ReserveRecords ==
    ASSUME RecordsOK, NEW a \in Admitters, NEW tooLarge \in BOOLEAN,
           Reserve(a, tooLarge)
    PROVE  RecordsOK'
<1> DEFINE r == adm[a]
<1>1. /\ RecordOK(r) /\ r.pc = "reserve" /\ r.at \in r.todo /\ r.got = {}
      /\ r.todo \subseteq Names /\ r.big \subseteq Names
      /\ r.view[r.at].onFull \in OnFull
  BY DEF RecordsOK, RecordOK, Reserve, Admitter, Target
<1>2. CASE Reserved(a, r.permits, r.big \cup {r.at})
  BY <1>1, <1>2, ReservedRecords
<1>3. CASE Reserved(a, r.permits \cup {r.at}, r.big)
  BY <1>1, <1>3, ReservedRecords
<1>4. CASE Done(a, [adm[a] EXCEPT !.permits = {}], "Backpressure")
  BY <1>1, <1>4, RefuseRecords
<1>5. CASE r.view[r.at].onFull # "Backpressure" /\ Reserved(a, r.permits, r.big)
  BY <1>1, <1>5, ReservedRecords DEF OnFull
<1> QED
  BY <1>2, <1>3, <1>4, <1>5 DEF Reserve

LEMMA CommitRecords ==
    ASSUME RecordsOK, NEW a \in Admitters, NEW n \in Names, Commit(a, n)
    PROVE  RecordsOK'
<1> DEFINE r == adm[a]
           rec == [adm[a] EXCEPT !.pc = "late", !.at = n,
                                 !.permits = @ \ {n}, !.got = @ \cup {n}]
<1>1. RecordOK(r) /\ r.pc = "commit" /\ n \in r.permits /\ Set(a, rec)
  BY DEF RecordsOK, Commit
<1>2. /\ rec \in Admitter /\ rec.pc = "late" /\ rec.at = n
      /\ rec.permits = r.permits \ {n} /\ rec.got = r.got \cup {n}
      /\ rec.todo = r.todo /\ rec.routed = r.routed /\ rec.view = r.view
      /\ rec.big = r.big /\ rec.result = r.result
  BY <1>1 DEF RecordOK, Admitter
<1> HIDE DEF rec
<1>3. RecordOK(rec)
  BY <1>1, <1>2 DEF RecordOK, Busy, MayMiss
<1> QED
  BY <1>1, <1>3, SetOK

LEMMA LateRecords ==
    ASSUME RecordsOK, NEW a \in Admitters, Late(a)
    PROVE  RecordsOK'
<1> DEFINE r == adm[a]
           rec == [adm[a] EXCEPT !.pc = "commit"]
<1>1. RecordOK(r) /\ r.pc = "late"
  BY DEF RecordsOK, Late
<1>2. CASE r.permits = {}
  <2>1. r \in Admitter /\ Done(a, r, "Admitted")
    BY <1>1, <1>2 DEF Late, Committed, RecordOK
  <2>2. \A n \in r.routed : n \in r.got \/ MayMiss(r, n)
    BY <1>1, <1>2 DEF RecordOK, Busy
  <2>3. r.got \subseteq r.routed
    BY <1>1 DEF RecordOK
  <2> QED
    BY <1>2, <2>1, <2>2, <2>3, DoneOK
<1>3. CASE r.permits # {}
  <2>1. Set(a, rec)
    BY <1>3 DEF Late, Committed
  <2>2. /\ rec \in Admitter /\ rec.pc = "commit" /\ rec.permits = r.permits
        /\ rec.got = r.got /\ rec.todo = r.todo /\ rec.routed = r.routed
        /\ rec.view = r.view /\ rec.big = r.big /\ rec.result = r.result
    BY <1>1 DEF RecordOK, Admitter
  <2> HIDE DEF rec
  <2>3. RecordOK(rec)
    BY <1>1, <2>2 DEF RecordOK, Busy, MayMiss
  <2> QED
    BY <2>1, <2>3, SetOK
<1> QED
  BY <1>2, <1>3

\* No step breaks the records: only an admission's own steps touch its own.
LEMMA RecordsStep == ASSUME RecordsOK, EngineTypeOK, [Next]_vars
                     PROVE  RecordsOK'
<1>1. CASE UNCHANGED adm
  BY <1>1 DEF RecordsOK, RecordOK
<1>2. ASSUME NEW a \in Admitters, AdmissionStep(a)
      PROVE  RecordsOK'
  BY <1>2, RouteRecords, CheckRecords, ReserveRecords, CommitRecords,
     LateRecords, IdleOK, SetOK DEF AdmissionStep, Return
<1>3. ASSUME NEW i \in Slots, Consume(i)
      PROVE  UNCHANGED adm
  BY <1>3 DEF Consume
<1>4. ASSUME NEW cfg, NEW assign, Reload(cfg, assign)
      PROVE  UNCHANGED adm
  BY <1>4 DEF Reload
<1>5. ASSUME NEW d, EndDrain(d) \/ Retire(d)
      PROVE  UNCHANGED adm
  BY <1>5 DEF EndDrain, Retire
<1>6. CASE Swap \/ FinishRetire
  BY <1>1, <1>6 DEF Swap, FinishRetire
<1> QED
  BY <1>1, <1>2, <1>3, <1>4, <1>5, <1>6 DEF Next, vars

-----------------------------------------------------------------------------
\* The engine.
LEMMA EngineSame == ASSUME EngineOK, UNCHANGED engineVars PROVE EngineOK'
  BY DEF EngineOK, EngineTypeOK, Open, engineVars

\* A config gives a mode to the names it defines.
LEMMA ModeOfDefined ==
    ASSUME NEW cfg \in Configs, NEW n \in Names, cfg[n].mode # "None"
    PROVE  cfg[n].mode \in Modes /\ cfg[n].onFull \in OnFull
  BY AdmissionAssumption DEF Configs, Undefined

LEMMA OnFullOfConfig ==
    ASSUME NEW cfg \in Configs, NEW n \in Names
    PROVE  cfg[n].onFull \in OnFull
  BY AdmissionAssumption DEF Configs, Undefined, OnFull

LEMMA TargetsOK ==
    ASSUME NEW cfg \in Configs, NEW assign \in [Names -> Slots \cup {NoSlot}]
    PROVE  /\ TargetsOf(cfg, assign) \in [Names -> Target]
           /\ \A n \in Names : TargetsOf(cfg, assign)[n].slot = assign[n]
  BY OnFullOfConfig DEF TargetsOf, Target, NoTarget, OnFull

\* What is recorded of the instances in use: a name and its mode.
LEMMA KindOK ==
    ASSUME NEW cfg \in Configs, NEW assign \in [Names -> Slots \cup {NoSlot}],
           \A n \in Names : assign[n] # NoSlot => cfg[n].mode # "None",
           NEW i \in Used(assign)
    PROVE  /\ NameOf(assign, i) \in Names
           /\ assign[NameOf(assign, i)] = i
           /\ KindOf(cfg, assign, i) \in [name : Names, mode : Modes]
<1>1. \E n \in Names : assign[n] = i
  BY DEF Used
<1>2. NameOf(assign, i) \in Names /\ assign[NameOf(assign, i)] = i
  BY <1>1 DEF NameOf
<1>3. i # NoSlot
  BY DEF Used
<1> QED
  BY <1>2, <1>3, ModeOfDefined DEF KindOf

LEMMA EngineInit ==
    ASSUME NEW cfg \in Configs, NEW assign \in [Names -> Slots \cup {NoSlot}],
           Start(cfg, assign), Init
    PROVE  EngineOK
<1>1. \A n \in Names : assign[n] # NoSlot => cfg[n].mode # "None"
  <2> SUFFICES ASSUME NEW n \in Names, cfg[n].mode = "None"
               PROVE  assign[n] = NoSlot
    OBVIOUS
  <2>1. cfg[n] = Undefined
    BY AdmissionAssumption DEF Configs, Modes, Undefined
  <2> QED
    BY <2>1 DEF Start
<1>2. /\ state \in [Names -> Target]
      /\ \A n \in Names : state[n].slot = assign[n]
  BY TargetsOK DEF Start
<1>3. made \subseteq Slots
  BY DEF Start, Used
<1>4. kind \in [made -> [name : Names, mode : Modes]]
  BY <1>1, KindOK DEF Start
<1>5. \A n \in Names : state[n].slot # NoSlot => state[n].slot \in made
  BY <1>2 DEF Start, Used
<1>6. /\ closed = {} /\ retired = {} /\ drains = {} /\ write = Free
  BY DEF Init
<1> QED
  BY <1>2, <1>3, <1>4, <1>5, <1>6 DEF EngineOK, EngineTypeOK, Open, Free

\* The instances that a reload may give to a name are open once the drains
\* of the revived ones are called off.
LEMMA InstanceOpen ==
    ASSUME EngineOK, NEW n \in Names, NEW mode, NEW used,
           NEW i \in InstanceFor(n, mode), i # NoSlot, i \in used, Revive(used),
           UNCHANGED closed
    PROVE  i \in Slots /\ Open(i)'
<1>1. i \in Slots /\ i \notin closed
  <2>1. CASE i = state[n].slot
    BY <2>1 DEF EngineOK, EngineTypeOK, Open
  <2>2. CASE i \in Draining(n, mode)
    BY <2>2 DEF EngineOK, EngineTypeOK, Draining
  <2>3. CASE i \in Slots \ made
    BY <2>3 DEF EngineOK, EngineTypeOK
  <2> QED
    BY <2>1, <2>2, <2>3 DEF InstanceFor
<1>2. i \notin retired'
  BY DEF Revive
<1>3. [slot |-> i, live |-> TRUE] \notin drains'
  <2> SUFFICES ASSUME NEW d \in drains,
                      [slot |-> i, live |-> TRUE] =
                          IF d.slot \in used THEN [d EXCEPT !.live = FALSE] ELSE d
               PROVE  FALSE
    BY DEF Revive
  <2>1. d \in [slot : Slots, live : BOOLEAN]
    BY DEF EngineOK, EngineTypeOK
  <2>2. CASE d.slot \in used
    BY <2>1, <2>2
  <2>3. CASE d.slot \notin used
    BY <2>3
  <2> QED
    BY <2>2, <2>3
<1> QED
  BY <1>1, <1>2, <1>3 DEF Open

LEMMA EngineReload ==
    ASSUME EngineOK, NEW cfg \in Configs,
           NEW assign \in [Names -> Slots \cup {NoSlot}], Reload(cfg, assign)
    PROVE  EngineOK'
<1> DEFINE used == Used(assign)
           swapped == TargetsOf(cfg, assign)
<1>1. /\ Revive(used) /\ UNCHANGED <<state, closed>>
      /\ made' = made \cup used
      /\ write' = [op |-> "swap", next |-> swapped]
      /\ \A n \in Names : assign[n] \in InstanceFor(n, cfg[n].mode)
  BY DEF Reload
<1>2. \A n \in Names : assign[n] # NoSlot => cfg[n].mode # "None"
  BY <1>1 DEF InstanceFor
<1>3. used \subseteq Slots
  BY DEF Used
<1>4. /\ swapped \in [Names -> Target]
      /\ \A n \in Names : swapped[n].slot = assign[n]
  BY TargetsOK
<1>5. kind' \in [made' -> [name : Names, mode : Modes]]
  <2>1. kind' = [i \in made' |->
            IF i \in made THEN kind[i] ELSE KindOf(cfg, assign, i)]
    BY DEF Reload
  <2>2. \A i \in made' : i \notin made =>
            KindOf(cfg, assign, i) \in [name : Names, mode : Modes]
    BY <1>1, <1>2, KindOK
  <2> QED
    BY <2>1, <2>2 DEF EngineOK, EngineTypeOK
<1>6. drains' \subseteq [slot : Slots, live : BOOLEAN]
  <2> SUFFICES ASSUME NEW d \in drains
               PROVE  (IF d.slot \in used THEN [d EXCEPT !.live = FALSE] ELSE d)
                          \in [slot : Slots, live : BOOLEAN]
    BY <1>1 DEF Revive
  <2> QED
    BY DEF EngineOK, EngineTypeOK
<1>7. EngineTypeOK'
  BY <1>1, <1>3, <1>4, <1>5, <1>6 DEF EngineOK, EngineTypeOK, Revive
<1>8. \A d \in drains' : d.live => d.slot \in retired'
  <2> SUFFICES ASSUME NEW e \in drains,
                      NEW d \in {IF e.slot \in used THEN [e EXCEPT !.live = FALSE]
                                 ELSE e}, d.live
               PROVE  d.slot \in retired'
    BY <1>1 DEF Revive
  <2>1. e \in [slot : Slots, live : BOOLEAN]
    BY DEF EngineOK, EngineTypeOK
  <2>2. e.slot \notin used /\ d = e
    BY <2>1
  <2> QED
    BY <1>1, <2>2 DEF EngineOK, Revive
<1>9. ASSUME NEW n \in Names, state[n].slot # NoSlot
      PROVE  state[n].slot \in made /\ Open(state[n].slot)'
  <2>1. state[n].slot \in made /\ Open(state[n].slot)
    BY <1>9 DEF EngineOK
  <2>2. [slot |-> state[n].slot, live |-> TRUE] \notin drains'
    <3> SUFFICES ASSUME NEW e \in drains,
                        [slot |-> state[n].slot, live |-> TRUE] =
                            IF e.slot \in used THEN [e EXCEPT !.live = FALSE] ELSE e
                 PROVE  FALSE
      BY <1>1 DEF Revive
    <3>1. e \in [slot : Slots, live : BOOLEAN]
      BY DEF EngineOK, EngineTypeOK
    <3>2. e = [slot |-> state[n].slot, live |-> TRUE]
      BY <3>1
    <3> QED
      BY <2>1, <3>2 DEF Open
  <2> QED
    BY <1>1, <2>1, <2>2 DEF Open, Revive
<1>10. ASSUME NEW n \in Names, swapped[n].slot # NoSlot
       PROVE  swapped[n].slot \in made' /\ Open(swapped[n].slot)'
  <2>1. /\ assign[n] = swapped[n].slot /\ assign[n] \in used
        /\ assign[n] \in InstanceFor(n, cfg[n].mode)
    BY <1>1, <1>4, <1>10 DEF Used
  <2> QED
    BY <1>1, <1>10, <2>1, InstanceOpen
<1>11. (closed \cap retired)' = {}
  BY <1>1 DEF Revive, EngineOK
<1> QED
  BY <1>1, <1>7, <1>8, <1>9, <1>10, <1>11 DEF EngineOK

LEMMA EngineSwap == ASSUME EngineOK, Swap PROVE EngineOK'
<1> DEFINE next == write.next
           retiring == Instances(state) \ Instances(next)
<1>1. /\ write.op = "swap" /\ state' = next /\ write' = Free
      /\ retired' = retired \cup retiring
      /\ drains' = drains \cup [slot : retiring, live : {TRUE}]
      /\ UNCHANGED <<kind, made, closed>>
  BY DEF Swap
<1>2. next \in [Names -> Target]
  BY <1>1 DEF EngineOK, EngineTypeOK, Free
<1>3. \A i \in retiring : i \in made /\ Open(i) /\ i \notin Instances(next)
  BY DEF Instances, EngineOK
<1>4. EngineTypeOK'
  BY <1>1, <1>2, <1>3 DEF EngineOK, EngineTypeOK
<1>5. (closed \cap retired)' = {}
  BY <1>1, <1>3 DEF EngineOK, Open
<1>6. \A d \in drains' : d.live => d.slot \in retired'
  BY <1>1 DEF EngineOK
<1>7. ASSUME NEW n \in Names, state'[n].slot # NoSlot
      PROVE  state'[n].slot \in made' /\ Open(state[n].slot)'
  <2> DEFINE i == next[n].slot
  <2>1. state'[n].slot = i /\ i \in made /\ Open(i)
    BY <1>1, <1>7 DEF EngineOK
  <2>2. i \notin retiring
    BY <1>1, <1>7 DEF Instances
  <2>3. [slot |-> i, live |-> TRUE] \notin [slot : retiring, live : {TRUE}]
    BY <2>2
  <2> HIDE DEF i, next, retiring
  <2> QED
    BY <1>1, <2>1, <2>2, <2>3 DEF Open
<1>8. write'.op # "swap"
  BY <1>1 DEF Free
<1> QED
  BY <1>1, <1>4, <1>5, <1>6, <1>7, <1>8 DEF EngineOK

LEMMA EngineDrains ==
    ASSUME EngineOK, NEW d \in drains, EndDrain(d) \/ Retire(d)
    PROVE  EngineOK'
<1>1. CASE EndDrain(d)
  BY <1>1 DEF EndDrain, EngineOK, EngineTypeOK, Open
<1>2. CASE Retire(d)
  <2>1. /\ d \in [slot : Slots, live : BOOLEAN] /\ d.live /\ d.slot \in retired
        /\ drains' = drains \ {d} /\ retired' = retired \ {d.slot}
        /\ closed' = closed \cup {d.slot}
        /\ write' = [op |-> "drain", slot |-> d.slot]
        /\ UNCHANGED <<state, kind, made>>
    BY <1>2 DEF Retire, EngineOK, EngineTypeOK
  <2>2. EngineTypeOK'
    BY <2>1 DEF EngineOK, EngineTypeOK
  <2>3. \A e \in drains' : e.live => e.slot \in retired'
    <3> SUFFICES ASSUME NEW e \in drains, e # d, e.live, e.slot = d.slot
                 PROVE  FALSE
      BY <2>1 DEF EngineOK
    <3>1. e \in [slot : Slots, live : BOOLEAN]
      BY DEF EngineOK, EngineTypeOK
    <3> QED
      BY <2>1, <3>1
  <2>4. \A n \in Names : state[n].slot # NoSlot =>
            state[n].slot \in made /\ Open(state[n].slot)'
    BY <2>1 DEF EngineOK, Open
  <2> QED
    BY <2>1, <2>2, <2>3, <2>4 DEF EngineOK
<1> QED
  BY <1>1, <1>2

LEMMA EngineFinish == ASSUME EngineOK, FinishRetire PROVE EngineOK'
  BY DEF FinishRetire, EngineOK, EngineTypeOK, Open, Free

\* No step breaks the engine: an admission and a consumer leave it alone.
LEMMA EngineStep == ASSUME EngineOK, [Next]_vars PROVE EngineOK'
<1>1. ASSUME NEW a \in Admitters, AdmissionStep(a)
      PROVE  UNCHANGED engineVars
  BY <1>1 DEF AdmissionStep, Route, Check, Reserve, Commit, Late, Return
<1>2. ASSUME NEW i \in Slots, Consume(i)
      PROVE  UNCHANGED engineVars
  BY <1>2 DEF Consume
<1> QED
  BY <1>1, <1>2, EngineSame, EngineReload, EngineSwap, EngineDrains,
     EngineFinish DEF Next, vars

-----------------------------------------------------------------------------
\* The queues.  The room held in a queue changes by the pairs of one
\* admission.
LEMMA PairsCount ==
    ASSUME NEW H, IsFiniteSet(H), NEW a, NEW P, {a} \X P \subseteq H
    PROVE  /\ IsFiniteSet(H \ ({a} \X P))
           /\ Cardinality(H \ ({a} \X P)) = Cardinality(H) - Cardinality(P)
<1> DEFINE X == {a} \X P
           second == [x \in X |-> x[2]]
<1>1. IsFiniteSet(X)
  BY FS_Subset
<1>2. ExistsBijection(X, P)
  <2>1. second \in [X -> P]
    OBVIOUS
  <2>2. \A x, y \in X : second[x] = second[y] => x = y
    OBVIOUS
  <2>3. \A p \in P : <<a, p>> \in X /\ second[<<a, p>>] = p
    OBVIOUS
  <2> HIDE DEF X, second
  <2>4. second \in Bijection(X, P)
    BY <2>1, <2>2, <2>3 DEF Bijection, Injection, Surjection, IsInjective
  <2> QED
    BY <2>4 DEF ExistsBijection
<1> HIDE DEF X, second
<1>3. Cardinality(P) = Cardinality(X)
  BY <1>1, <1>2, FS_Bijection
<1>4. H \cap X = X
  BY DEF X
<1>5. /\ IsFiniteSet(H \ X)
      /\ Cardinality(H \ X) = Cardinality(H) - Cardinality(H \cap X)
  BY FS_Difference
<1> QED
  BY <1>3, <1>4, <1>5 DEF X

LEMMA CardinalityNat ==
    ASSUME NEW S, IsFiniteSet(S) PROVE Cardinality(S) \in Nat
  BY FS_CardinalityType

\* The room held before and after a step of a that sets its record to rec:
\* the room of the others stays as it is.
LEMMA HeldAfter ==
    ASSUME RecordsOK, NEW a \in Admitters, NEW rec, Set(a, rec), NEW i
    PROVE  Held(i)' = {an \in Held(i) : an[1] # a}
                          \cup {an \in {a} \X Names :
                                   an[2] \in rec.permits /\ rec.view[an[2]].slot = i}
<1>1. adm' = [adm EXCEPT ![a] = rec] /\ adm \in [Admitters -> Admitter]
  BY DEF Set, RecordsOK
<1>2. adm'[a] = rec /\ \A b \in Admitters : b # a => adm'[b] = adm[b]
  BY <1>1
<1>3. \A an \in Admitters \X Names :
          an \in Held(i)' <=>
              IF an[1] = a
              THEN an[2] \in rec.permits /\ rec.view[an[2]].slot = i
              ELSE an \in Held(i)
  BY <1>2 DEF Held, SlotOf
<1> QED
  BY <1>3 DEF Held

LEMMA HeldSame ==
    ASSUME RecordsOK, NEW a \in Admitters, NEW rec, Set(a, rec),
           rec.permits = adm[a].permits,
           \A n \in rec.permits : rec.view[n].slot = adm[a].view[n].slot
    PROVE  \A i : Held(i)' = Held(i)
<1> SUFFICES ASSUME NEW i PROVE Held(i)' = Held(i)
  OBVIOUS
<1>1. {an \in {a} \X Names : an[2] \in rec.permits /\ rec.view[an[2]].slot = i}
          = {an \in Held(i) : an[1] = a}
  BY DEF Held, SlotOf
<1>2. Held(i) = {an \in Held(i) : an[1] # a} \cup {an \in Held(i) : an[1] = a}
  OBVIOUS
<1>3. Held(i)' = {an \in Held(i) : an[1] # a}
                    \cup {an \in {a} \X Names :
                             an[2] \in rec.permits /\ rec.view[an[2]].slot = i}
  BY HeldAfter
<1> QED
  BY <1>1, <1>2, <1>3

\* An answer keeps the permits of the record it ends with.
LEMMA DoneSet ==
    ASSUME NEW a \in Admitters, NEW rec \in Admitter, NEW result,
           Done(a, rec, result)
    PROVE  \E new : Set(a, new) /\ new.permits = rec.permits
<1> DEFINE new == [rec EXCEPT !.pc = "done", !.result = result, !.attempt = 0,
                     !.at = NoSlot, !.todo = {},
                     !.view = [n \in Names |-> [rec.view[n] EXCEPT !.slot = NoSlot]]]
<1>1. Set(a, new)
  BY DEF Done
<1>2. new.permits = rec.permits
  BY DEF Admitter
<1> HIDE DEF new
<1> QED
  BY <1>1, <1>2

\* After a target was dealt with, the admission holds the permits given and,
\* if any, still has its view.
LEMMA ReservedSet ==
    ASSUME RecordsOK, NEW a \in Admitters, NEW permits \in SUBSET Names,
           NEW big \in SUBSET Names, Reserved(a, permits, big)
    PROVE  \E new : /\ Set(a, new)
                    /\ new.permits = permits
                    /\ permits = {} \/ new.view = adm[a].view
<1> DEFINE rec == [adm[a] EXCEPT !.todo = @ \ {adm[a].at}, !.at = NoSlot,
                                 !.permits = permits, !.big = big]
<1>1. /\ rec \in Admitter /\ rec.permits = permits /\ rec.view = adm[a].view
  BY DEF RecordsOK, Admitter
<1>2. \/ Set(a, [rec EXCEPT !.pc = "check"])
      \/ Set(a, [rec EXCEPT !.pc = "commit"])
      \/ permits = {} /\ Done(a, rec, "Admitted")
  BY DEF Reserved
<1> HIDE DEF rec
<1>3. ASSUME NEW pc PROVE /\ [rec EXCEPT !.pc = pc].permits = permits
                          /\ [rec EXCEPT !.pc = pc].view = adm[a].view
  BY <1>1 DEF Admitter
<1> QED
  BY <1>1, <1>2, <1>3, DoneSet

\* Queues that get the same room are as sound as before.
LEMMA QueuesSame ==
    ASSUME QueuesOK, \A i : Held(i)' = Held(i), queue' \in [Slots -> Counts],
           \A i \in Slots : queue'[i].reserved = queue[i].reserved
    PROVE  QueuesOK'
  BY DEF QueuesOK

LEMMA QueuesStill == ASSUME QueuesOK, UNCHANGED <<queue, adm>> PROVE QueuesOK'
  BY DEF QueuesOK, Held, SlotOf

\* Every way out of an admission before its commits gives its room back.
LEMMA CancelQueues ==
    ASSUME RecordsOK, QueuesOK, NEW a \in Admitters, NEW rec, Set(a, rec),
           rec.permits = {}, CancelAll(a)
    PROVE  QueuesOK'
<1> DEFINE names(i) == {n \in adm[a].permits : SlotOf(a, n) = i}
<1>1. adm[a].permits \subseteq Names
  BY DEF RecordsOK, Admitter
<1>2. ASSUME NEW i \in Slots
      PROVE  /\ IsFiniteSet(Held(i)')
             /\ Cardinality(Held(i)') = queue[i].reserved - Cardinality(names(i))
  <2>1. {a} \X names(i) \subseteq Held(i)
    BY <1>1 DEF Held, SlotOf
  <2>2. Held(i)' = Held(i) \ ({a} \X names(i))
    <3>1. Held(i)' = {an \in Held(i) : an[1] # a}
      BY HeldAfter
    <3> QED
      BY <3>1 DEF Held, SlotOf
  <2>3. IsFiniteSet(Held(i)) /\ queue[i].reserved = Cardinality(Held(i))
    BY DEF QueuesOK
  <2> HIDE DEF names
  <2>4. /\ IsFiniteSet(Held(i) \ ({a} \X names(i)))
        /\ Cardinality(Held(i) \ ({a} \X names(i))) =
               Cardinality(Held(i)) - Cardinality(names(i))
    BY <2>1, <2>3, PairsCount
  <2> QED
    BY <2>2, <2>3, <2>4
<1>3. ASSUME NEW i \in Slots PROVE Cardinality(Held(i)') \in Int
  <2>1. IsFiniteSet(Held(i)')
    BY <1>2
  <2>2. Cardinality(Held(i)') \in Nat
    BY <2>1, CardinalityNat
  <2> QED
    BY <2>2
<1>4. queue' = [i \in Slots |-> [queue[i] EXCEPT !.reserved =
                                     queue[i].reserved - Cardinality(names(i))]]
  BY DEF CancelAll
<1> HIDE DEF names
<1>5. \A i \in Slots : queue'[i] = [queue[i] EXCEPT !.reserved = Cardinality(Held(i)')]
  BY <1>2, <1>4
<1>6. queue' \in [Slots -> Counts]
  <2>1. \A i \in Slots : queue'[i] \in Counts
    BY <1>3, <1>5 DEF QueuesOK, Counts
  <2> QED
    BY <1>4, <2>1
<1>7. \A i \in Slots : queue'[i].reserved = Cardinality(Held(i)')
  BY <1>5 DEF QueuesOK, Counts
<1> QED
  BY <1>2, <1>6, <1>7 DEF QueuesOK

LEMMA RouteQueues ==
    ASSUME RecordsOK, EngineTypeOK, QueuesOK, NEW a \in Admitters,
           NEW T \in SUBSET Names, Route(a, T)
    PROVE  QueuesOK'
<1> DEFINE rec == [adm[a] EXCEPT !.pc = "check", !.attempt = @ + 1, !.todo = T,
                     !.routed = T,
                     !.view = [n \in Names |-> IF n \in T THEN state[n] ELSE NoTarget]]
<1>1. adm[a].permits = {} /\ adm[a].attempt < 2 /\ adm[a] \in Admitter
  BY DEF RecordsOK, RecordOK, Route, Busy
<1>2. rec.permits = {} /\ rec \in Admitter
  <2>1. adm[a].attempt + 1 \in 0 .. 2
    BY <1>1 DEF Admitter
  <2>2. [n \in Names |-> IF n \in T THEN state[n] ELSE NoTarget] \in [Names -> Target]
    BY DEF EngineTypeOK, Target, NoTarget, OnFull
  <2> QED
    BY <1>1, <2>1, <2>2 DEF Admitter
<1>3. queue' = queue /\ (Set(a, rec) \/ Done(a, rec, "Unroutable"))
  BY DEF Route
<1> HIDE DEF rec
<1>4. PICK new : Set(a, new) /\ new.permits = {}
  BY <1>2, <1>3, DoneSet
<1>5. \A i : Held(i)' = Held(i)
  BY <1>1, <1>4, HeldSame
<1> QED
  BY <1>3, <1>5, QueuesSame DEF QueuesOK

LEMMA CheckQueues ==
    ASSUME RecordsOK, QueuesOK, NEW a \in Admitters, NEW n \in Names, Check(a, n)
    PROVE  QueuesOK'
<1> DEFINE on == [adm[a] EXCEPT !.pc = "reserve", !.at = n]
           again == [Idle EXCEPT !.pc = "route", !.attempt = 1]
           none == [adm[a] EXCEPT !.permits = {}]
<1>1. adm[a] \in Admitter
  BY DEF RecordsOK
<1>2. \/ UNCHANGED queue /\ Set(a, on)
      \/ CancelAll(a) /\ Set(a, again)
      \/ CancelAll(a) /\ Done(a, none, "Backpressure")
  BY DEF Check
<1>3. on.permits = adm[a].permits /\ on.view = adm[a].view
  BY <1>1 DEF Admitter
<1>4. again.permits = {}
  BY DEF Idle
<1>5. none \in Admitter /\ none.permits = {}
  BY <1>1 DEF Admitter
<1> HIDE DEF on, again, none
<1>6. CASE UNCHANGED queue /\ Set(a, on)
  BY <1>3, <1>6, HeldSame, QueuesSame DEF QueuesOK
<1>7. CASE CancelAll(a) /\ Set(a, again)
  BY <1>4, <1>7, CancelQueues
<1>8. CASE CancelAll(a) /\ Done(a, none, "Backpressure")
  <2>1. PICK new : Set(a, new) /\ new.permits = {}
    BY <1>5, <1>8, DoneSet
  <2> QED
    BY <1>8, <2>1, CancelQueues
<1> QED
  BY <1>2, <1>6, <1>7, <1>8

\* Room for one more is reserved in one queue, and counted there.
LEMMA PermitQueues ==
    ASSUME RecordsOK, QueuesOK, NEW a \in Admitters, NEW n \in Names,
           n \notin adm[a].permits, NEW i \in Slots, SlotOf(a, n) = i,
           NEW new, Set(a, new),
           new.permits = adm[a].permits \cup {n}, new.view = adm[a].view,
           queue' \in [Slots -> Counts],
           \A j \in Slots : queue'[j].reserved =
               IF j = i THEN queue[j].reserved + 1 ELSE queue[j].reserved
    PROVE  QueuesOK'
<1>1. Held(i)' = Held(i) \cup {<<a, n>>} /\ <<a, n>> \notin Held(i)
  <2>1. Held(i)' = {an \in Held(i) : an[1] # a}
                      \cup {an \in {a} \X Names :
                               an[2] \in new.permits /\ new.view[an[2]].slot = i}
    BY HeldAfter
  <2>2. {an \in {a} \X Names : an[2] \in new.permits /\ new.view[an[2]].slot = i}
            = {an \in Held(i) : an[1] = a} \cup {<<a, n>>}
    BY DEF Held, SlotOf
  <2>3. <<a, n>> \notin Held(i)
    BY DEF Held
  <2> QED
    BY <2>1, <2>2, <2>3
<1>2. ASSUME NEW j \in Slots, j # i PROVE Held(j)' = Held(j)
  <2>1. Held(j)' = {an \in Held(j) : an[1] # a}
                      \cup {an \in {a} \X Names :
                               an[2] \in new.permits /\ new.view[an[2]].slot = j}
    BY HeldAfter
  <2>2. {an \in {a} \X Names : an[2] \in new.permits /\ new.view[an[2]].slot = j}
            = {an \in Held(j) : an[1] = a}
    BY <1>2 DEF Held, SlotOf
  <2> QED
    BY <2>1, <2>2
<1>3. IsFiniteSet(Held(i)') /\ Cardinality(Held(i)') = Cardinality(Held(i)) + 1
  <2>1. IsFiniteSet(Held(i))
    BY DEF QueuesOK
  <2>2. /\ IsFiniteSet(Held(i) \cup {<<a, n>>})
        /\ Cardinality(Held(i) \cup {<<a, n>>}) = Cardinality(Held(i)) + 1
    BY <1>1, <2>1, FS_AddElement
  <2> QED
    BY <1>1, <2>2
<1> QED
  BY <1>2, <1>3 DEF QueuesOK

LEMMA QueueWith ==
    ASSUME queue \in [Slots -> Counts], NEW i \in Slots,
           NEW reserved \in Int, NEW available \in Nat,
           queue' = [queue EXCEPT ![i].reserved = reserved,
                                  ![i].available = available]
    PROVE  /\ queue' \in [Slots -> Counts]
           /\ \A j \in Slots : j # i => queue'[j] = queue[j]
           /\ queue'[i].reserved = reserved
           /\ queue'[i].available = available
           /\ queue'[i].leased = queue[i].leased
  BY DEF Counts

LEMMA ReserveQueues ==
    ASSUME RecordsOK, QueuesOK, NEW a \in Admitters, NEW tooLarge \in BOOLEAN,
           Reserve(a, tooLarge)
    PROVE  QueuesOK'
<1> DEFINE n == adm[a].at
           i == SlotOf(a, n)
           none == [adm[a] EXCEPT !.permits = {}]
<1>1. /\ adm[a] \in Admitter /\ n \in Names /\ n \notin adm[a].permits /\ i \in Slots
      /\ adm[a].permits \subseteq Names /\ adm[a].big \subseteq Names
  BY DEF RecordsOK, RecordOK, Reserve, Busy, SlotOf, Admitter
<1>2. ASSUME NEW big \in SUBSET Names, Reserved(a, adm[a].permits, big),
             UNCHANGED queue
      PROVE  QueuesOK'
  <2>1. PICK new : /\ Set(a, new) /\ new.permits = adm[a].permits
                   /\ new.permits = {} \/ new.view = adm[a].view
    BY <1>1, <1>2, ReservedSet
  <2> QED
    BY <1>2, <2>1, HeldSame, QueuesSame DEF QueuesOK
<1>3. CASE /\ CancelAll(a) /\ Done(a, none, "Backpressure")
  <2>1. none \in Admitter /\ none.permits = {}
    BY <1>1 DEF Admitter
  <2> HIDE DEF none
  <2>2. PICK new : Set(a, new) /\ new.permits = {}
    BY <1>3, <2>1, DoneSet
  <2> QED
    BY <1>3, <2>2, CancelQueues
<1>4. CASE /\ Room(queue[i]) \/ CanEvict(queue[i])
           /\ queue' = [queue EXCEPT
                  ![i].reserved = @ + 1,
                  ![i].available = IF Room(queue[i]) THEN @ ELSE @ - 1]
           /\ Reserved(a, adm[a].permits \cup {n}, adm[a].big)
  <2>1. PICK new : /\ Set(a, new) /\ new.permits = adm[a].permits \cup {n}
                   /\ new.view = adm[a].view
    <3>1. adm[a].permits \cup {n} \in SUBSET Names
      BY <1>1
    <3> QED
      BY <1>1, <1>4, <3>1, ReservedSet
  <2>2. PICK j \in Slots : j = i
    BY <1>1
  <2>3. SlotOf(a, n) = j
    BY <2>2
  <2> HIDE DEF i
  <2>4. /\ queue[j] \in Counts
        /\ Room(queue[j]) \/ queue[j].available - 1 \in Nat
    BY <1>4, <2>2 DEF QueuesOK, Counts, CanEvict
  <2>5. /\ queue' \in [Slots -> Counts]
        /\ \A k \in Slots : queue'[k].reserved =
               IF k = j THEN queue[k].reserved + 1 ELSE queue[k].reserved
    <3>1. PICK r \in Int, v \in Nat :
              /\ r = queue[j].reserved + 1
              /\ v = IF Room(queue[j]) THEN queue[j].available
                     ELSE queue[j].available - 1
      BY <2>4 DEF Counts
    <3>2. queue' = [queue EXCEPT
              ![j].reserved = @ + 1,
              ![j].available = IF Room(queue[j]) THEN @ ELSE @ - 1]
      BY <1>4, <2>2
    <3>3. queue' = [queue EXCEPT ![j].reserved = r, ![j].available = v]
      BY <3>1, <3>2 DEF QueuesOK, Counts
    <3>4. queue \in [Slots -> Counts]
      BY DEF QueuesOK
    <3>5. /\ queue' \in [Slots -> Counts]
          /\ \A k \in Slots : k # j => queue'[k] = queue[k]
          /\ queue'[j].reserved = r
      BY <3>3, <3>4, QueueWith
    <3> QED
      BY <3>1, <3>5
  <2> QED
    BY <1>1, <2>1, <2>3, <2>5, PermitQueues
<1> QED
  BY <1>1, <1>2, <1>3, <1>4 DEF Reserve

LEMMA CommitQueues ==
    ASSUME RecordsOK, QueuesOK, NEW a \in Admitters, NEW n \in Names, Commit(a, n)
    PROVE  QueuesOK'
<1> DEFINE rec == [adm[a] EXCEPT !.pc = "late", !.at = n,
                                 !.permits = @ \ {n}, !.got = @ \cup {n}]
<1>1. PICK i \in Slots : SlotOf(a, n) = i
  BY DEF RecordsOK, RecordOK, Commit, Busy, SlotOf
<1>2. /\ n \in adm[a].permits /\ Set(a, rec) /\ adm[a] \in Admitter
  BY DEF Commit, RecordsOK
<1>3. rec.permits = adm[a].permits \ {n} /\ rec.view = adm[a].view
  BY <1>2 DEF Admitter
<1> HIDE DEF rec
<1>4. Held(i)' = Held(i) \ {<<a, n>>} /\ <<a, n>> \in Held(i)
  <2>1. Held(i)' = {an \in Held(i) : an[1] # a}
                      \cup {an \in {a} \X Names :
                               an[2] \in rec.permits /\ rec.view[an[2]].slot = i}
    BY <1>2, HeldAfter
  <2>2. {an \in {a} \X Names : an[2] \in rec.permits /\ rec.view[an[2]].slot = i}
            = {an \in Held(i) : an[1] = a} \ {<<a, n>>}
    BY <1>1, <1>3 DEF Held, SlotOf
  <2>3. <<a, n>> \in Held(i)
    BY <1>1, <1>2 DEF Held
  <2> QED
    BY <2>1, <2>2, <2>3
<1>5. ASSUME NEW j \in Slots, j # i PROVE Held(j)' = Held(j)
  <2>1. Held(j)' = {an \in Held(j) : an[1] # a}
                      \cup {an \in {a} \X Names :
                               an[2] \in rec.permits /\ rec.view[an[2]].slot = j}
    BY <1>2, HeldAfter
  <2>2. {an \in {a} \X Names : an[2] \in rec.permits /\ rec.view[an[2]].slot = j}
            = {an \in Held(j) : an[1] = a}
    BY <1>1, <1>3, <1>5 DEF Held, SlotOf
  <2> QED
    BY <2>1, <2>2
<1>6. IsFiniteSet(Held(i)') /\ Cardinality(Held(i)') = Cardinality(Held(i)) - 1
  <2>1. IsFiniteSet(Held(i))
    BY DEF QueuesOK
  <2>2. /\ IsFiniteSet(Held(i) \ {<<a, n>>})
        /\ Cardinality(Held(i) \ {<<a, n>>}) = Cardinality(Held(i)) - 1
    BY <1>4, <2>1, FS_RemoveElement
  <2> QED
    BY <1>4, <2>2
<1>7. queue \in [Slots -> Counts]
  BY DEF QueuesOK
<1>8. queue' = [queue EXCEPT ![i].reserved = @ - 1, ![i].available = @ + 1]
  BY <1>1 DEF Commit
<1>9. /\ queue' \in [Slots -> Counts]
      /\ \A j \in Slots : j # i => queue'[j] = queue[j]
      /\ queue'[i].reserved = queue[i].reserved - 1
  BY <1>7, <1>8 DEF Counts
<1> QED
  BY <1>5, <1>6, <1>9 DEF QueuesOK

LEMMA DrainedQueues ==
    ASSUME queue \in [Slots -> Counts], NEW i \in Slots, DrainAll(i)
    PROVE  /\ queue' \in [Slots -> Counts]
           /\ \A j \in Slots : j # i => queue'[j] = queue[j]
           /\ queue'[i].reserved = queue[i].reserved
           /\ queue'[i].available = 0 /\ queue'[i].leased = 0
  BY DEF DrainAll, Counts

\* What a late look drops, and the answer or the next commit after it.
LEMMA LateQueues ==
    ASSUME RecordsOK, QueuesOK, NEW a \in Admitters, Late(a)
    PROVE  QueuesOK'
<1>1. PICK i \in Slots : SlotOf(a, adm[a].at) = i
  BY DEF RecordsOK, RecordOK, Late, Busy, SlotOf
<1>2. queue \in [Slots -> Counts]
  BY DEF QueuesOK
<1>3. /\ queue' \in [Slots -> Counts]
      /\ \A j \in Slots : queue'[j].reserved = queue[j].reserved
  BY <1>1, <1>2, DrainedQueues DEF Late
<1>4. adm[a] \in Admitter
  BY DEF RecordsOK
<1>5. \A j : Held(j)' = Held(j)
  <2>1. CASE adm[a].permits = {} /\ Done(a, adm[a], "Admitted")
    <3>1. PICK new : Set(a, new) /\ new.permits = {}
      BY <1>4, <2>1, DoneSet
    <3> QED
      BY <2>1, <3>1, HeldSame
  <2>2. CASE Set(a, [adm[a] EXCEPT !.pc = "commit"])
    <3> DEFINE rec == [adm[a] EXCEPT !.pc = "commit"]
    <3>1. rec.permits = adm[a].permits /\ rec.view = adm[a].view
      BY <1>4 DEF Admitter
    <3> HIDE DEF rec
    <3> QED
      BY <2>2, <3>1, HeldSame DEF rec
  <2> QED
    BY <2>1, <2>2 DEF Late, Committed
<1> QED
  BY <1>3, <1>5, QueuesSame

LEMMA ReturnQueues ==
    ASSUME RecordsOK, QueuesOK, NEW a \in Admitters, Return(a)
    PROVE  QueuesOK'
<1>1. adm[a].permits = {} /\ Idle.permits = {}
  BY DEF RecordsOK, RecordOK, Return, Busy, Idle
<1>2. \A i : Held(i)' = Held(i)
  BY <1>1, HeldSame DEF Return
<1> QED
  BY <1>2, QueuesSame DEF Return, QueuesOK

LEMMA ConsumeQueues ==
    ASSUME QueuesOK, NEW i \in Slots, Consume(i)
    PROVE  /\ queue' \in [Slots -> Counts]
           /\ \A j \in Slots : j # i => queue'[j] = queue[j]
           /\ queue'[i].reserved = queue[i].reserved
           /\ queue[i].available + queue[i].leased # 0
<1>1. queue \in [Slots -> Counts]
  BY DEF QueuesOK
<1>2. CASE /\ queue[i].available > 0
           /\ queue' = [queue EXCEPT ![i].available = @ - 1, ![i].leased = @ + 1]
  BY <1>1, <1>2 DEF Counts
<1>3. CASE /\ queue[i].leased > 0
           /\ queue' = [queue EXCEPT ![i].leased = @ - 1]
  BY <1>1, <1>3 DEF Counts
<1>4. CASE /\ queue[i].leased > 0
           /\ queue' = [queue EXCEPT ![i].leased = @ - 1, ![i].available = @ + 1]
  BY <1>1, <1>4 DEF Counts
<1> QED
  BY <1>2, <1>3, <1>4 DEF Consume

\* A reload reconfigures queues and leaves their counts alone.
LEMMA ReconfigureQueues ==
    ASSUME queue \in [Slots -> Counts], NEW cfg \in Configs,
           NEW assign \in [Names -> Slots \cup {NoSlot}], Reconfigure(cfg, assign)
    PROVE  /\ queue' \in [Slots -> Counts]
           /\ \A i \in Slots : /\ queue'[i].reserved = queue[i].reserved
                               /\ queue'[i].available = queue[i].available
                               /\ queue'[i].leased = queue[i].leased
<1>1. ASSUME NEW i \in Slots, \E n \in Names : assign[n] = i
      PROVE  cfg[NameOf(assign, i)].onFull \in OnFull
  <2>1. NameOf(assign, i) \in Names
    BY <1>1 DEF NameOf
  <2> QED
    BY <2>1, OnFullOfConfig
<1>2. ASSUME NEW i \in Slots
      PROVE  /\ queue'[i] \in Counts
             /\ queue'[i].reserved = queue[i].reserved
             /\ queue'[i].available = queue[i].available
             /\ queue'[i].leased = queue[i].leased
  <2>1. CASE \E n \in Names : assign[n] = i
    <3>1. queue'[i] = [queue[i] EXCEPT !.onFull = cfg[NameOf(assign, i)].onFull]
      BY <2>1 DEF Reconfigure
    <3> QED
      BY <1>1, <2>1, <3>1 DEF Counts
  <2>2. CASE ~ \E n \in Names : assign[n] = i
    BY <2>2 DEF Reconfigure
  <2> QED
    BY <2>1, <2>2
<1>3. DOMAIN queue' = Slots /\ queue' = [i \in Slots |-> queue'[i]]
  BY DEF Reconfigure
<1> QED
  BY <1>2, <1>3

LEMMA HeldStill == ASSUME UNCHANGED adm PROVE \A i : Held(i)' = Held(i)
  BY DEF Held, SlotOf

\* No step breaks the queues.
LEMMA QueuesStep ==
    ASSUME RecordsOK, QueuesOK, EngineTypeOK, [Next]_vars
    PROVE  QueuesOK'
<1>1. ASSUME NEW a \in Admitters, AdmissionStep(a)
      PROVE  QueuesOK'
  BY <1>1, RouteQueues, CheckQueues, ReserveQueues, CommitQueues, LateQueues,
     ReturnQueues DEF AdmissionStep
<1>2. ASSUME NEW i \in Slots, Consume(i)
      PROVE  QueuesOK'
  <2>1. UNCHANGED adm
    BY <1>2 DEF Consume
  <2>2. /\ queue' \in [Slots -> Counts]
        /\ \A j \in Slots : queue'[j].reserved = queue[j].reserved
    BY <1>2, ConsumeQueues
  <2> QED
    BY <2>1, <2>2, HeldStill, QueuesSame
<1>3. ASSUME NEW cfg \in Configs, NEW assign \in [Names -> Slots \cup {NoSlot}],
             Reload(cfg, assign)
      PROVE  QueuesOK'
  <2>1. UNCHANGED adm /\ Reconfigure(cfg, assign) /\ queue \in [Slots -> Counts]
    BY <1>3 DEF Reload, QueuesOK
  <2> QED
    BY <2>1, ReconfigureQueues, HeldStill, QueuesSame
<1>4. CASE FinishRetire
  <2>1. write \in [op : {"drain"}, slot : Slots]
    BY <1>4 DEF FinishRetire, EngineTypeOK, Free
  <2>2. PICK i \in Slots : i = write.slot
    BY <2>1
  <2>3. UNCHANGED adm /\ DrainAll(i) /\ queue \in [Slots -> Counts]
    BY <1>4, <2>2 DEF FinishRetire, QueuesOK
  <2>4. /\ queue' \in [Slots -> Counts]
        /\ \A j \in Slots : queue'[j].reserved = queue[j].reserved
    BY <2>3, DrainedQueues
  <2> QED
    BY <2>3, <2>4, HeldStill, QueuesSame
<1>5. ASSUME NEW d, EndDrain(d) \/ Retire(d)
      PROVE  QueuesOK'
  BY <1>5, QueuesStill DEF EndDrain, Retire
<1>6. CASE Swap
  BY <1>6, QueuesStill DEF Swap
<1>7. CASE UNCHANGED vars
  BY <1>7, QueuesStill DEF vars
<1> QED
  BY <1>1, <1>2, <1>3, <1>4, <1>5, <1>6, <1>7 DEF Next

-----------------------------------------------------------------------------
\* What closed instances hold.
Empty(i) == queue[i].available + queue[i].leased = 0
LateIn(i) == \E a \in Admitters :
                 adm[a].pc = "late" /\ SlotOf(a, adm[a].at) = i

LEMMA OthersStill ==
    ASSUME RecordsOK, NEW a \in Admitters, AdmissionStep(a),
           NEW b \in Admitters, b # a
    PROVE  adm'[b] = adm[b]
<1>1. \A rec : Set(a, rec) => adm'[b] = adm[b]
  BY DEF Set, RecordsOK
<1>2. \A rec, result : Done(a, rec, result) => adm'[b] = adm[b]
  BY <1>1 DEF Done
<1>3. \A permits, big : Reserved(a, permits, big) => adm'[b] = adm[b]
  BY <1>1, <1>2 DEF Reserved
<1> QED
  BY <1>1, <1>2, <1>3 DEF AdmissionStep, Route, Check, Reserve, Commit, Late,
     Committed, Return

LEMMA LateStays ==
    ASSUME RecordsOK, NEW a \in Admitters, AdmissionStep(a), NEW i, LateIn(i),
           adm[a].pc # "late" \/ SlotOf(a, adm[a].at) # i
    PROVE  LateIn(i)'
  BY OthersStill DEF LateIn, SlotOf

\* An admission adds to a queue only by a commit.
LEMMA EmptyStays ==
    ASSUME QueuesOK, NEW a \in Admitters, AdmissionStep(a), adm[a].pc # "commit",
           NEW i \in Slots, Empty(i)
    PROVE  Empty(i)'
<1>1. queue \in [Slots -> Counts]
  BY DEF QueuesOK
<1>2. ASSUME CancelAll(a) PROVE Empty(i)'
  <2>1. queue'[i] = [queue[i] EXCEPT !.reserved =
                  @ - Cardinality({n \in adm[a].permits : SlotOf(a, n) = i})]
    BY <1>2 DEF CancelAll
  <2> QED
    BY <1>1, <2>1 DEF Empty, Counts
<1>3. ASSUME NEW tooLarge \in BOOLEAN, Reserve(a, tooLarge) PROVE Empty(i)'
  <2> DEFINE j == SlotOf(a, adm[a].at)
  <2>1. \/ UNCHANGED queue
        \/ CancelAll(a)
        \/ /\ Room(queue[j]) \/ CanEvict(queue[j])
           /\ queue' = [queue EXCEPT
                  ![j].reserved = @ + 1,
                  ![j].available = IF Room(queue[j]) THEN @ ELSE @ - 1]
    BY <1>3 DEF Reserve
  <2>2. CASE /\ Room(queue[j]) \/ CanEvict(queue[j])
             /\ queue' = [queue EXCEPT
                    ![j].reserved = @ + 1,
                    ![j].available = IF Room(queue[j]) THEN @ ELSE @ - 1]
    <3> HIDE DEF j
    <3>1. CASE j # i
      BY <1>1, <2>2, <3>1 DEF Empty
    <3>2. CASE j = i
      <4>1. ~CanEvict(queue[i])
        BY <1>1, <3>2 DEF CanEvict, Empty, Counts
      <4> QED
        BY <1>1, <2>2, <3>2, <4>1 DEF Empty, Counts
    <3> QED
      BY <3>1, <3>2
  <2> QED
    BY <1>2, <2>1, <2>2 DEF Empty
<1>4. ASSUME Late(a) PROVE Empty(i)'
  <2>1. CASE SlotOf(a, adm[a].at) = i
    BY <1>1, <1>4, <2>1, DrainedQueues DEF Late, Empty
  <2>2. CASE SlotOf(a, adm[a].at) # i
    BY <1>1, <1>4, <2>2 DEF Late, Empty, DrainAll
  <2> QED
    BY <2>1, <2>2
<1> QED
  BY <1>2, <1>3, <1>4 DEF AdmissionStep, Route, Check, Commit, Return, Empty

LEMMA StrandedStep ==
    ASSUME RecordsOK, QueuesOK, EngineTypeOK, NothingStranded, [Next]_vars
    PROVE  NothingStranded'
<1>1. queue \in [Slots -> Counts] /\ closed \subseteq Slots
  BY DEF QueuesOK, EngineTypeOK
<1>2. \A i \in closed :
          Empty(i) \/ write = [op |-> "drain", slot |-> i] \/ LateIn(i)
  BY DEF NothingStranded, Empty, LateIn
<1>3. ASSUME \A i \in closed' :
                 Empty(i)' \/ write' = [op |-> "drain", slot |-> i] \/ LateIn(i)'
      PROVE  NothingStranded'
  BY <1>3 DEF NothingStranded, Empty, LateIn
<1>4. ASSUME NEW a \in Admitters, AdmissionStep(a), NEW i \in closed'
      PROVE  Empty(i)' \/ write' = [op |-> "drain", slot |-> i] \/ LateIn(i)'
  <2>1. closed' = closed /\ write' = write /\ i \in closed /\ i \in Slots
    BY <1>1, <1>4 DEF AdmissionStep, Route, Check, Reserve, Commit, Late, Return,
       engineVars
  <2>2. CASE adm[a].pc = "commit"
    <3>1. PICK n \in Names : Commit(a, n)
      BY <1>4, <2>2 DEF AdmissionStep, Route, Check, Reserve, Commit, Late, Return
    <3>2. CASE SlotOf(a, n) = i
      <4>1. adm[a] \in Admitter /\ adm'[a] =
                [adm[a] EXCEPT !.pc = "late", !.at = n, !.permits = @ \ {n},
                               !.got = @ \cup {n}]
        BY <3>1 DEF Commit, Set, RecordsOK
      <4>2. adm'[a].pc = "late" /\ adm'[a].at = n /\ adm'[a].view = adm[a].view
        BY <4>1 DEF Admitter
      <4> QED
        BY <3>2, <4>2 DEF LateIn, SlotOf
    <3>3. CASE SlotOf(a, n) # i
      <4>1. queue'[i] = queue[i]
        BY <1>1, <2>1, <3>1, <3>3 DEF Commit
      <4> QED
        BY <1>2, <1>4, <2>1, <2>2, <4>1, LateStays DEF Empty
    <3> QED
      BY <3>2, <3>3
  <2>3. CASE adm[a].pc = "late" /\ SlotOf(a, adm[a].at) = i
    <3>1. Late(a)
      BY <1>4, <2>3 DEF AdmissionStep, Route, Check, Reserve, Commit, Late, Return
    <3>2. DrainAll(i)
      BY <2>1, <2>3, <3>1 DEF Late
    <3> QED
      BY <1>1, <2>1, <3>2, DrainedQueues DEF Empty
  <2>4. CASE /\ adm[a].pc # "commit"
             /\ adm[a].pc # "late" \/ SlotOf(a, adm[a].at) # i
    BY <1>2, <1>4, <2>1, <2>4, EmptyStays, LateStays
  <2> QED
    BY <2>2, <2>3, <2>4
<1>5. ASSUME UNCHANGED adm,
             \A i \in closed : Empty(i) => Empty(i)',
             \A i \in closed' \ closed : write' = [op |-> "drain", slot |-> i],
             \A i \in closed : write = [op |-> "drain", slot |-> i] =>
                 Empty(i)' \/ write' = write
      PROVE  NothingStranded'
  BY <1>2, <1>3, <1>5 DEF LateIn, SlotOf
<1>6. ASSUME NEW i \in Slots, Consume(i)
      PROVE  NothingStranded'
  <2>1. UNCHANGED <<adm, closed, write>>
    BY <1>6 DEF Consume, engineVars
  <2>2. \A j \in closed : Empty(j) => Empty(j)'
    BY <1>1, <1>6, ConsumeQueues DEF Empty
  <2> QED
    BY <1>5, <2>1, <2>2
<1>7. ASSUME NEW cfg \in Configs, NEW assign \in [Names -> Slots \cup {NoSlot}],
             Reload(cfg, assign)
      PROVE  NothingStranded'
  <2>1. UNCHANGED <<adm, closed>> /\ write = Free /\ Reconfigure(cfg, assign)
    BY <1>7 DEF Reload
  <2>2. \A j \in closed : Empty(j) => Empty(j)'
    BY <1>1, <2>1, ReconfigureQueues DEF Empty
  <2>3. \A j : write # [op |-> "drain", slot |-> j]
    BY <2>1 DEF Free
  <2> QED
    BY <1>5, <2>1, <2>2, <2>3
<1>8. CASE FinishRetire
  <2>1. write \in [op : {"drain"}, slot : Slots]
    BY <1>8 DEF FinishRetire, EngineTypeOK, Free
  <2>2. PICK i \in Slots : write = [op |-> "drain", slot |-> i]
    BY <2>1
  <2>3. UNCHANGED <<adm, closed>> /\ DrainAll(i)
    BY <1>8, <2>2 DEF FinishRetire
  <2>4. /\ \A j \in Slots : j # i => queue'[j] = queue[j]
        /\ queue'[i].available = 0 /\ queue'[i].leased = 0
    BY <1>1, <2>3, DrainedQueues
  <2>5. \A j \in closed : Empty(j) => Empty(j)'
    BY <1>1, <2>4 DEF Empty
  <2>6. Empty(i)'
    BY <2>4 DEF Empty
  <2> QED
    BY <1>5, <2>2, <2>3, <2>5, <2>6
<1>9. ASSUME NEW d, Retire(d)
      PROVE  NothingStranded'
  <2>1. /\ UNCHANGED <<adm, queue>> /\ closed' = closed \cup {d.slot}
        /\ write = Free /\ write' = [op |-> "drain", slot |-> d.slot]
    BY <1>9 DEF Retire
  <2>2. \A j : write # [op |-> "drain", slot |-> j]
    BY <2>1 DEF Free
  <2> QED
    BY <1>5, <2>1, <2>2 DEF Empty
<1>10. CASE Swap
  <2>1. UNCHANGED <<adm, queue, closed>> /\ write.op = "swap"
    BY <1>10 DEF Swap
  <2>2. \A j : write # [op |-> "drain", slot |-> j]
    BY <2>1
  <2> QED
    BY <1>5, <2>1, <2>2 DEF Empty
<1>11. ASSUME NEW d, EndDrain(d)
       PROVE  NothingStranded'
  <2>1. UNCHANGED <<adm, queue, closed, write>>
    BY <1>11 DEF EndDrain
  <2> QED
    BY <1>5, <2>1 DEF Empty
<1>12. CASE UNCHANGED vars
  <2>1. UNCHANGED <<adm, queue, closed, write>>
    BY <1>12 DEF vars, engineVars
  <2> QED
    BY <1>5, <2>1 DEF Empty
<1> QED
  BY <1>3, <1>4, <1>6, <1>7, <1>8, <1>9, <1>10, <1>11, <1>12 DEF Next

-----------------------------------------------------------------------------
\* The invariant holds at first: no admission is under way and every queue
\* is empty.
LEMMA InitInv == Init => AdmissionInv
<1> SUFFICES ASSUME Init PROVE AdmissionInv
  OBVIOUS
<1>1. PICK cfg \in Configs, assign \in [Names -> Slots \cup {NoSlot}] :
          Start(cfg, assign)
  BY DEF Init
<1>2. RecordsOK
  BY IdleOK DEF Init, RecordsOK, RecordOK
<1>3. \A n \in Names : assign[n] # NoSlot => cfg[n].mode # "None"
  <2> SUFFICES ASSUME NEW n \in Names, cfg[n].mode = "None"
               PROVE  assign[n] = NoSlot
    OBVIOUS
  <2>1. cfg[n] = Undefined
    BY AdmissionAssumption DEF Configs, Modes, Undefined
  <2> QED
    BY <1>1, <2>1 DEF Start
<1>4. ASSUME NEW i \in Slots
      PROVE  queue[i] \in Counts /\ queue[i].reserved = 0
  <2>1. made = Used(assign)
    BY <1>1 DEF Start
  <2>2. i \in made => cfg[NameOf(assign, i)].onFull \in OnFull
    BY <1>3, <2>1, KindOK, OnFullOfConfig
  <2>3. "Backpressure" \in OnFull
    BY DEF OnFull
  <2>4. PICK mode \in OnFull : queue[i] = EmptyQueue(mode)
    BY <1>1, <2>2, <2>3 DEF Start
  <2> QED
    BY <2>4 DEF EmptyQueue, Counts
<1>5. \A i : Held(i) = {}
  BY DEF Init, Held, Idle
<1>6. queue \in [Slots -> Counts]
  <2>1. queue = [i \in Slots |-> queue[i]]
    BY <1>1 DEF Start
  <2> QED
    BY <1>4, <2>1
<1>7. QueuesOK
  BY <1>4, <1>5, <1>6, FS_EmptySet DEF QueuesOK
<1>8. EngineOK
  BY <1>1, EngineInit
<1>9. NothingStranded
  BY DEF Init, NothingStranded
<1> QED
  BY <1>2, <1>7, <1>8, <1>9 DEF AdmissionInv

\* The invariant of the engine's admissions, reloads and drains.
THEOREM AdmissionInvariant == Spec => []AdmissionInv
<1>1. Init => AdmissionInv
  BY InitInv
<1>2. AdmissionInv /\ [Next]_vars => AdmissionInv'
  <2> SUFFICES ASSUME AdmissionInv, [Next]_vars PROVE AdmissionInv'
    OBVIOUS
  <2>1. EngineTypeOK
    BY DEF AdmissionInv, EngineOK
  <2> QED
    BY <2>1, RecordsStep, QueuesStep, EngineStep, StrandedStep DEF AdmissionInv
<1> QED
  BY <1>1, <1>2, PTL DEF Spec

\* An instance of the current state is open, in use, and has no drain that
\* could still retire it: Shared::apply revives it before a drain can take
\* the write lock, or finds it gone.
THEOREM CurrentIsOpen == Spec => []CurrentOpen
<1>1. AdmissionInv => CurrentOpen
  BY DEF AdmissionInv, EngineOK, CurrentOpen, Instances, Open
<1> QED
  BY <1>1, AdmissionInvariant, PTL

\* What an instance that is closed for good still holds is about to be
\* dropped, by retire or by the admission that committed it late.
THEOREM NothingIsStranded == Spec => []NothingStranded
<1>1. AdmissionInv => NothingStranded
  BY DEF AdmissionInv
<1> QED
  BY <1>1, AdmissionInvariant, PTL

\* The room reserved in a queue is the room that admissions hold, whatever
\* way each of them took out of admit.
THEOREM PermitsAreReturned == Spec => []PermitsReturned
<1>1. AdmissionInv => PermitsReturned
  BY DEF AdmissionInv, QueuesOK, PermitsReturned, Held
<1> QED
  BY <1>1, AdmissionInvariant, PTL

\* An update that admit refuses reached no consumer, and one it admits
\* reached every lossless consumer that could ever hold it.
THEOREM AdmitsAllOrNothing == Spec => []AllOrNothing
<1>1. AdmissionInv => AllOrNothing
  BY DEF AdmissionInv, RecordsOK, RecordOK, MayMiss, AllOrNothing
<1> QED
  BY <1>1, AdmissionInvariant, PTL
=============================================================================
