--------------------------- MODULE RegistryProofs ---------------------------
(***************************************************************************)
(* Proofs about Registry, for any set of goroutines, kinds, ids and        *)
(* factories.  The inductive invariant IndInv says who holds the lock,     *)
(* which call each goroutine is in, and that the test made by a RegisterX  *)
(* call still holds when it writes; the properties follow from it.         *)
(***************************************************************************)
EXTENDS Registry, TLAPS

\* The initial state: an empty registry, nobody inside a call.
LEMMA InitIndInv == NewComponentRegistry => IndInv
<1> SUFFICES ASSUME NewComponentRegistry PROVE IndInv
    OBVIOUS
<1> USE RegistryAssumption DEF NewComponentRegistry, AbsInit, EmptyTable
<1>1. TypeOK
    BY DEF TypeOK, Undecided, Result, Results, Statuses, Locations
<1>2. LockInv
    BY DEF LockInv, WriteSection, ReadSection
<1>3. CallInv
    BY DEF CallInv, ReadSection
<1>4. CheckInv /\ OutcomeHolds /\ KindsSeparate
    BY DEF CheckInv, OutcomeHolds, KindsSeparate
<1> QED
    BY <1>1, <1>2, <1>3, <1>4 DEF IndInv

\* A call in one of the three sets is told apart by its name.
LEMMA CallShapes ==
    /\ \A c \in RegisterCalls : c.name = "register" /\ c.fac \in Factories
    /\ \A c \in LookupCalls : c.name = "lookup" /\ c.kind \in Kinds /\ c.id \in IDs
    /\ FreezeCall.name = "freeze"
    /\ NoCall.name = "none"
  BY DEF RegisterCalls, LookupCalls, FreezeCall, NoCall

\* Every step keeps TypeOK (its hypotheses are the parts of IndInv it needs).
LEMMA TypeStep == IndInv /\ [Next]_vars => TypeOK'
<1> SUFFICES ASSUME IndInv, [Next]_vars PROVE TypeOK'
    OBVIOUS
<1> USE RegistryAssumption
<1>0. TypeOK /\ CallInv
    BY DEF IndInv
<1> DEFINE Shapes == Undecided \in Results
                  /\ (\A s \in Statuses : Result(s) \in Results)
                  /\ (\A f \in Factories : Found(f) \in Results)
<1>s. Shapes
    BY DEF Undecided, Result, Found, Results, Statuses
<1>1. ASSUME NEW p \in Procs, NEW c \in Calls, Call(p, c) PROVE TypeOK'
    BY <1>0, <1>1 DEF Call, AbsInvoke, Goto, TypeOK, Locations
<1>2. ASSUME NEW p \in Procs, Lock(p) PROVE TypeOK'
    BY <1>0, <1>2 DEF Lock, Goto, TypeOK, Locations
<1>3. ASSUME NEW p \in Procs, Drain(p) PROVE TypeOK'
    BY <1>0, <1>3 DEF Drain, Goto, TypeOK, Locations, WriteSection
<1>4. ASSUME NEW p \in Procs, RLock(p) PROVE TypeOK'
    BY <1>0, <1>4 DEF RLock, Goto, TypeOK, Locations, ReadSection
<1>5. ASSUME NEW p \in Procs, Check(p) PROVE TypeOK'
    <2>1. /\ Result("ErrRegistryFrozen") \in Results
          /\ Result("ErrDuplicate") \in Results
        BY <1>s DEF Statuses
    <2> QED
        BY <1>0, <1>5, <2>1
        DEF Check, Goto, Decide, TypeOK, Locations, WriteSection
<1>6. ASSUME NEW p \in Procs, Insert(p) PROVE TypeOK'
    <2>1. op[p].fac \in Factories /\ Result("nil") \in Results
        BY <1>0, <1>6, <1>s, CallShapes DEF Insert, CallInv, Statuses
    <2> QED
        BY <1>0, <1>6, <2>1
        DEF Insert, Goto, Decide, TypeOK, Locations, WriteSection
<1>7. ASSUME NEW p \in Procs, Freeze(p) PROVE TypeOK'
    <2>1. Result("nil") \in Results
        BY <1>s DEF Statuses
    <2> QED
        BY <1>0, <1>7, <2>1
        DEF Freeze, Goto, Decide, TypeOK, Locations, WriteSection
<1>8. ASSUME NEW p \in Procs, Unlock(p) PROVE TypeOK'
    BY <1>0, <1>8 DEF Unlock, TypeOK, Locations, ReadSection
<1>9. ASSUME NEW p \in Procs, Read(p) PROVE TypeOK'
    <2>1. op[p].kind \in Kinds /\ op[p].id \in IDs
        BY <1>0, <1>9, CallShapes DEF Read, CallInv, ReadSection
    <2>2. table[op[p].kind][op[p].id] \in Factories \cup {None}
        BY <1>0, <2>1 DEF TypeOK
    <2>3. Result("ErrNotFound") \in Results
        BY <1>s DEF Statuses
    <2> QED
        BY <1>0, <1>9, <1>s, <2>2, <2>3
        DEF Read, Goto, Decide, TypeOK, Locations, ReadSection
<1>10. ASSUME NEW p \in Procs, RUnlock(p) PROVE TypeOK'
    BY <1>0, <1>10 DEF RUnlock, Goto, TypeOK, Locations
<1>11. ASSUME NEW p \in Procs, Return(p) PROVE TypeOK'
    BY <1>0, <1>11, <1>s DEF Return, AbsReturn, Goto, TypeOK, Locations
<1>12. CASE UNCHANGED vars
    BY <1>0, <1>12 DEF vars, TypeOK
<1> QED
    BY <1>1, <1>2, <1>3, <1>4, <1>5, <1>6, <1>7, <1>8, <1>9, <1>10, <1>11, <1>12
    DEF Next, Step

\* Every step keeps the lock discipline.
LEMMA LockStep == IndInv /\ [Next]_vars => LockInv'
<1> SUFFICES ASSUME IndInv, [Next]_vars PROVE LockInv'
    OBVIOUS
<1> USE RegistryAssumption DEF LockInv, WriteSection, ReadSection
<1>0. TypeOK /\ LockInv /\ CallInv
    BY DEF IndInv
<1>t. /\ pc \in [Procs -> Locations]
      /\ writer \in Procs \cup {None}
      /\ readers \in SUBSET Procs
    BY <1>0 DEF TypeOK
<1>1. ASSUME NEW p \in Procs, NEW c \in Calls, Call(p, c) PROVE LockInv'
    BY <1>0, <1>t, <1>1 DEF Call, Goto
<1>2. ASSUME NEW p \in Procs, Lock(p) PROVE LockInv'
    BY <1>0, <1>t, <1>2 DEF Lock, Goto
<1>3. ASSUME NEW p \in Procs, Drain(p) PROVE LockInv'
    BY <1>0, <1>t, <1>3 DEF Drain, Goto
<1>4. ASSUME NEW p \in Procs, RLock(p) PROVE LockInv'
    BY <1>0, <1>t, <1>4 DEF RLock, Goto
<1>5. ASSUME NEW p \in Procs, Check(p) PROVE LockInv'
    BY <1>0, <1>t, <1>5 DEF Check, Goto
<1>6. ASSUME NEW p \in Procs, Insert(p) PROVE LockInv'
    BY <1>0, <1>t, <1>6 DEF Insert, Goto
<1>7. ASSUME NEW p \in Procs, Freeze(p) PROVE LockInv'
    BY <1>0, <1>t, <1>7 DEF Freeze, Goto
<1>8. ASSUME NEW p \in Procs, Unlock(p) PROVE LockInv'
    BY <1>0, <1>t, <1>8 DEF Unlock
<1>9. ASSUME NEW p \in Procs, Read(p) PROVE LockInv'
    BY <1>0, <1>t, <1>9 DEF Read, Goto
<1>10. ASSUME NEW p \in Procs, RUnlock(p) PROVE LockInv'
    BY <1>0, <1>t, <1>10 DEF RUnlock, Goto
<1>11. ASSUME NEW p \in Procs, Return(p) PROVE LockInv'
    BY <1>0, <1>t, <1>11 DEF Return, Goto
<1>12. CASE UNCHANGED vars
    BY <1>0, <1>12 DEF vars
<1> QED
    BY <1>1, <1>2, <1>3, <1>4, <1>5, <1>6, <1>7, <1>8, <1>9, <1>10, <1>11, <1>12
    DEF Next, Step

\* Every step keeps the agreement between program counter, call and result.
LEMMA CallStep == IndInv /\ [Next]_vars => CallInv'
<1> SUFFICES ASSUME IndInv, [Next]_vars PROVE CallInv'
    OBVIOUS
<1> USE RegistryAssumption, CallShapes DEF CallInv, ReadSection
<1>0. TypeOK /\ CallInv
    BY DEF IndInv
<1>t. /\ pc \in [Procs -> Locations]
      /\ op \in [Procs -> Calls \cup {NoCall}]
      /\ res \in [Procs -> Results]
    BY <1>0 DEF TypeOK
<1>r. /\ \A s : s # "undecided" => Result(s) # Undecided
      /\ \A f : Found(f) # Undecided
    BY DEF Result, Found, Undecided
<1>1. ASSUME NEW p \in Procs, NEW c \in Calls, Call(p, c) PROVE CallInv'
    BY <1>0, <1>t, <1>1 DEF Call, AbsInvoke, Goto, Calls
<1>2. ASSUME NEW p \in Procs, Lock(p) PROVE CallInv'
    BY <1>0, <1>t, <1>2 DEF Lock, Goto
<1>3. ASSUME NEW p \in Procs, Drain(p) PROVE CallInv'
    BY <1>0, <1>t, <1>3 DEF Drain, Goto
<1>4. ASSUME NEW p \in Procs, RLock(p) PROVE CallInv'
    BY <1>0, <1>t, <1>4 DEF RLock, Goto
<1>5. ASSUME NEW p \in Procs, Check(p) PROVE CallInv'
    BY <1>0, <1>t, <1>r, <1>5 DEF Check, Goto, Decide
<1>6. ASSUME NEW p \in Procs, Insert(p) PROVE CallInv'
    BY <1>0, <1>t, <1>r, <1>6 DEF Insert, Goto, Decide
<1>7. ASSUME NEW p \in Procs, Freeze(p) PROVE CallInv'
    BY <1>0, <1>t, <1>r, <1>7 DEF Freeze, Goto, Decide
<1>8. ASSUME NEW p \in Procs, Unlock(p) PROVE CallInv'
    BY <1>0, <1>t, <1>8 DEF Unlock, Calls
<1>9. ASSUME NEW p \in Procs, Read(p) PROVE CallInv'
    BY <1>0, <1>t, <1>r, <1>9 DEF Read, Goto, Decide
<1>10. ASSUME NEW p \in Procs, RUnlock(p) PROVE CallInv'
    BY <1>0, <1>t, <1>10 DEF RUnlock, Goto, Calls
<1>11. ASSUME NEW p \in Procs, Return(p) PROVE CallInv'
    BY <1>0, <1>t, <1>11 DEF Return, AbsReturn, Goto
<1>12. CASE UNCHANGED vars
    BY <1>0, <1>12 DEF vars
<1> QED
    BY <1>1, <1>2, <1>3, <1>4, <1>5, <1>6, <1>7, <1>8, <1>9, <1>10, <1>11, <1>12
    DEF Next, Step

\* An insertion fills an empty slot of an unfrozen registry and leaves every
\* other slot as it was.
LEMMA InsertEffect ==
    ASSUME IndInv, NEW p \in Procs, Insert(p)
    PROVE  /\ op[p] \in RegisterCalls /\ op[p].fac \in Factories
           /\ ~frozen /\ ~frozen'
           /\ Slot(op[p].fac) = None
           /\ \A k \in Kinds, id \in IDs :
                 table'[k][id] = IF k = FactoryKind[op[p].fac] /\ id = FactoryID[op[p].fac]
                                 THEN op[p].fac ELSE table[k][id]
<1>1. op[p] \in RegisterCalls /\ op[p].fac \in Factories
    BY CallShapes DEF IndInv, Insert, CallInv
<1>2. ~frozen /\ Slot(op[p].fac) = None /\ frozen' = frozen
    BY DEF IndInv, Insert, CheckInv
<1>3. FactoryKind[op[p].fac] \in Kinds /\ FactoryID[op[p].fac] \in IDs
    BY <1>1, RegistryAssumption
<1> QED
    BY <1>1, <1>2, <1>3 DEF IndInv, TypeOK, Insert

\* Every other step leaves the tables alone, and only Freeze touches frozen.
LEMMA DataStep ==
    ASSUME IndInv, [Next]_vars
    PROVE  \/ UNCHANGED <<frozen, table>>
           \/ \E p \in Procs : Insert(p)
           \/ (\E p \in Procs : Freeze(p)) /\ frozen' /\ table' = table
  BY DEF Next, Step, vars, Call, AbsInvoke, Lock, Drain, RLock, Check, Freeze,
         Unlock, Read, RUnlock, Return, AbsReturn

\* At most one goroutine is in a write section, and no reader is then inside.
LEMMA Exclusion ==
    ASSUME IndInv, NEW p \in Procs, NEW q \in Procs, pc[p] \in WriteSection
    PROVE  /\ pc[q] \in WriteSection => q = p
           /\ pc[q] \notin ReadSection
  BY RegistryAssumption DEF IndInv, LockInv

\* The test of a RegisterX call cannot go stale: nobody else writes.
LEMMA CheckStep == IndInv /\ [Next]_vars => CheckInv'
<1> SUFFICES ASSUME IndInv, [Next]_vars, NEW q \in Procs, pc'[q] = "insert"
             PROVE  ~frozen' /\ Slot(op[q].fac)' = None
    BY DEF CheckInv
<1>0. TypeOK /\ CheckInv
    BY DEF IndInv
<1>t. pc \in [Procs -> Locations] /\ op \in [Procs -> Calls \cup {NoCall}]
    BY <1>0 DEF TypeOK
<1>1. CASE pc[q] = "insert"
    <2>1. UNCHANGED <<frozen, table>>
        <3>1. ASSUME NEW p \in Procs, Insert(p) PROVE FALSE
            <4>1. p = q
                BY <1>1, <3>1, Exclusion DEF Insert, WriteSection
            <4> QED
                BY <1>t, <3>1, <4>1 DEF Insert, Goto
        <3>2. ASSUME NEW p \in Procs, Freeze(p) PROVE FALSE
            BY <1>1, <3>2, Exclusion DEF Freeze, WriteSection
        <3> QED
            BY <3>1, <3>2, DataStep
    <2>2. op'[q] = op[q]
        BY <1>1, <1>t DEF Next, Step, vars, Call, AbsInvoke, Lock, Drain, RLock, Check,
             Insert, Freeze, Unlock, Read, RUnlock, Return, AbsReturn
    <2> QED
        BY <1>0, <1>1, <2>1, <2>2 DEF CheckInv, Slot
<1>2. CASE pc[q] # "insert"
    <2>1. Check(q)
        BY <1>2, <1>t DEF Next, Step, vars, Call, Lock, Drain, RLock, Check,
             Insert, Freeze, Unlock, Read, RUnlock, Return, Goto
    <2> QED
        BY <1>t, <2>1 DEF Check, Goto, Slot
<1> QED
    BY <1>1, <1>2

\* A decided outcome stays true, whatever other goroutines do.
LEMMA OutcomeStep == IndInv /\ [Next]_vars => OutcomeHolds'
<1> SUFFICES ASSUME IndInv, [Next]_vars, NEW q \in Procs, res'[q] # Undecided
             PROVE  /\ op'[q] \in LookupCalls /\ res'[q].status = "nil" =>
                          /\ res'[q].fac # None
                          /\ table'[op'[q].kind][op'[q].id] = res'[q].fac
                    /\ op'[q] \in RegisterCalls =>
                          /\ res'[q].status = "nil" => Slot(op[q].fac)' = op'[q].fac
                          /\ res'[q].status = "ErrDuplicate" => Slot(op[q].fac)' # None
                          /\ res'[q].status = "ErrRegistryFrozen" => frozen'
                    /\ op'[q] = FreezeCall => frozen'
    BY DEF OutcomeHolds
<1> USE RegistryAssumption
<1>0. TypeOK /\ CallInv /\ OutcomeHolds /\ LockInv
    BY DEF IndInv
<1>t. /\ pc \in [Procs -> Locations] /\ op \in [Procs -> Calls \cup {NoCall}]
      /\ res \in [Procs -> Results]
      /\ table \in [Kinds -> [IDs -> Factories \cup {None}]]
    BY <1>0 DEF TypeOK
<1>m. ASSUME NEW k \in Kinds, NEW id \in IDs, table[k][id] # None
      PROVE  table'[k][id] = table[k][id]
    BY <1>m, DataStep, InsertEffect DEF Slot
<1>f. frozen => frozen'
    BY DataStep, InsertEffect
<1>1. CASE res[q] # Undecided
    <2>1. op'[q] = op[q] /\ res'[q] = res[q]
        BY <1>0, <1>1, <1>t DEF Next, Step, vars, Call, AbsInvoke, Lock, Drain, RLock,
             Check, Insert, Freeze, Unlock, Read, RUnlock, Return, AbsReturn, Decide,
             CallInv, ReadSection
    <2>2. ASSUME op[q] \in LookupCalls, res[q].status = "nil"
          PROVE  res[q].fac # None /\ table'[op[q].kind][op[q].id] = res[q].fac
        <3>1. op[q].kind \in Kinds /\ op[q].id \in IDs
            BY <2>2, CallShapes
        <3>2. res[q].fac # None /\ table[op[q].kind][op[q].id] = res[q].fac
            BY <1>0, <1>1, <2>2 DEF OutcomeHolds
        <3> QED
            BY <1>m, <3>1, <3>2
    <2>3. ASSUME op[q] \in RegisterCalls
          PROVE  /\ res[q].status = "nil" => Slot(op[q].fac)' = op'[q].fac
                 /\ res[q].status = "ErrDuplicate" => Slot(op[q].fac)' # None
                 /\ res[q].status = "ErrRegistryFrozen" => frozen'
        <3>1. op[q].fac \in Factories
            BY <2>3, CallShapes
        <3>2. FactoryKind[op[q].fac] \in Kinds /\ FactoryID[op[q].fac] \in IDs
            BY <3>1
        <3>3. Slot(op[q].fac) # None => Slot(op[q].fac)' = Slot(op[q].fac)
            BY <1>m, <2>1, <3>2 DEF Slot
        <3>4. /\ res[q].status = "nil" => Slot(op[q].fac) = op[q].fac
              /\ res[q].status = "ErrDuplicate" => Slot(op[q].fac) # None
              /\ res[q].status = "ErrRegistryFrozen" => frozen
            BY <1>0, <1>1, <2>3 DEF OutcomeHolds
        <3> QED
            BY <1>f, <2>1, <3>1, <3>3, <3>4
    <2>4. op[q] = FreezeCall => frozen'
        BY <1>0, <1>1, <1>f DEF OutcomeHolds
    <2> QED
        BY <2>1, <2>2, <2>3, <2>4
<1>2. CASE res[q] = Undecided
    <2>1. Check(q) \/ Insert(q) \/ Freeze(q) \/ Read(q)
        <3>1. ASSUME NEW p \in Procs, Check(p) \/ Insert(p) \/ Freeze(p) \/ Read(p)
              PROVE  p = q
            BY <1>2, <1>t, <3>1 DEF Check, Insert, Freeze, Read, Decide
        <3>2. ASSUME NEW p \in Procs, Return(p) PROVE FALSE
            BY <1>2, <1>t, <3>2 DEF Return, AbsReturn
        <3>3. ASSUME res' = res PROVE FALSE
            BY <1>2, <3>3
        <3> QED
            BY <3>1, <3>2, <3>3 DEF Next, Step, vars, Call, AbsInvoke, Lock, Drain,
                 RLock, Unlock, RUnlock
    <2>c. /\ op'[q] = op[q]
          /\ \A c \in RegisterCalls : c \notin LookupCalls /\ c # FreezeCall
          /\ \A c \in LookupCalls : c # FreezeCall
        BY <2>1, CallShapes DEF Check, Insert, Freeze, Read
    <2>2. CASE Check(q)
        <3>1. op[q] \in RegisterCalls
            BY <1>0, <2>2 DEF Check, CallInv
        <3>2. \/ res'[q].status = "ErrRegistryFrozen" /\ frozen
              \/ res'[q].status = "ErrDuplicate" /\ Slot(op[q].fac) # None
            BY <1>2, <1>t, <2>2 DEF Check, Decide, Result
        <3>3. UNCHANGED <<frozen, table, op>>
            BY <2>2 DEF Check
        <3> QED
            BY <2>c, <3>1, <3>2, <3>3 DEF Slot
    <2>3. CASE Insert(q)
        <3>1. op[q] \in RegisterCalls /\ op[q].fac \in Factories
            BY <2>3, InsertEffect
        <3>2. FactoryKind[op[q].fac] \in Kinds /\ FactoryID[op[q].fac] \in IDs
            BY <3>1
        <3>3. Slot(op[q].fac)' = op[q].fac
            BY <2>3, <2>c, <3>2, InsertEffect DEF Slot
        <3>4. res'[q].status = "nil"
            BY <1>t, <2>3 DEF Insert, Decide, Result
        <3> QED
            BY <2>c, <3>1, <3>3, <3>4
    <2>4. CASE Freeze(q)
        <3>1. op[q] = FreezeCall /\ frozen'
            BY <1>0, <2>4 DEF Freeze, CallInv
        <3> QED
            BY <2>c, <3>1
    <2>5. CASE Read(q)
        <3>1. op[q] \in LookupCalls
            BY <1>0, <2>5 DEF Read, CallInv, ReadSection
        <3>2. res'[q].status = "nil" =>
                 res'[q].fac # None /\ res'[q].fac = table[op[q].kind][op[q].id]
            BY <1>t, <2>5 DEF Read, Decide, Result, Found
        <3>3. table' = table
            BY <2>5 DEF Read
        <3> QED
            BY <2>c, <3>1, <3>2, <3>3
    <2> QED
        BY <2>1, <2>2, <2>3, <2>4, <2>5
<1> QED
    BY <1>1, <1>2

\* An entry is always a factory of the table's own kind, under its own id.
LEMMA KindsStep == IndInv /\ [Next]_vars => KindsSeparate'
<1> SUFFICES ASSUME IndInv, [Next]_vars, NEW k \in Kinds, NEW id \in IDs,
                    table'[k][id] # None
             PROVE  FactoryKind[table'[k][id]] = k /\ FactoryID[table'[k][id]] = id
    BY DEF KindsSeparate
<1>1. CASE table' = table
    BY <1>1 DEF IndInv, KindsSeparate
<1>2. CASE \E p \in Procs : Insert(p)
    BY <1>2, InsertEffect DEF IndInv, KindsSeparate
<1> QED
    BY <1>1, <1>2, DataStep

\* IndInv holds in every reachable state.
THEOREM Invariance == Spec => []IndInv
<1>1. IndInv /\ [Next]_vars => IndInv'
    BY TypeStep, LockStep, CallStep, CheckStep, OutcomeStep, KindsStep DEF IndInv
<1> QED
    BY InitIndInv, <1>1, PTL DEF Spec

\* Type correctness, for any number of goroutines, kinds, ids and factories.
THEOREM TypeCorrect == Spec => []TypeOK
  BY Invariance, PTL DEF IndInv

\* What RegisterX, Freeze or a lookup reports is never undone by a concurrent
\* call: of two goroutines that register the same id at most one is told nil.
THEOREM OutcomesHold == Spec => []OutcomeHolds
  BY Invariance, PTL DEF IndInv

\* The 14 per-kind maps never mix: an entry has its table's kind and its own id.
THEOREM KindsStaySeparate == Spec => []KindsSeparate
  BY Invariance, PTL DEF IndInv

\* After Freeze no step of any goroutine changes the tables or thaws them.
THEOREM FreezeIsFinal == Spec => FrozenIsFinal
<1>1. IndInv /\ [Next]_vars => [frozen => frozen' /\ table' = table]_vars
    BY DataStep, InsertEffect
<1> QED
    BY <1>1, Invariance, PTL DEF Spec, FrozenIsFinal

\* A registered factory is never replaced.
THEOREM RegisteredOnce == Spec => WriteOnce
<1>1. IndInv /\ [Next]_vars =>
        [\A k \in Kinds, id \in IDs :
            table[k][id] # None => table'[k][id] = table[k][id]]_vars
    BY DataStep, InsertEffect DEF Slot
<1> QED
    BY <1>1, Invariance, PTL DEF Spec, WriteOnce

\* The locked implementation refines the atomic registry: every step of the
\* code is a step of RegistrySpec or leaves its variables alone.
THEOREM Refinement == Spec => Atomic
<1> USE RegistryAssumption
<1>1. NewComponentRegistry => AbsInit
    BY DEF NewComponentRegistry
<1>2. ASSUME IndInv, [Next]_vars PROVE [AbsNext]_absVars
    <2>0. CallInv /\ CheckInv /\ TypeOK
        BY <1>2 DEF IndInv
    <2>1. ASSUME NEW p \in Procs, NEW c \in Calls, Call(p, c) PROVE AbsNext
        BY <2>1 DEF Call, AbsNext
    <2>2. ASSUME NEW p \in Procs, Check(p) PROVE [AbsNext]_absVars
        <3>1. op[p].name = "register" /\ res[p] = Undecided
            BY <2>0, <2>2, CallShapes DEF Check, CallInv
        <3>2. CASE frozen
            BY <2>2, <3>1, <3>2 DEF Check, AbsNext, AbsRegister, Decide
        <3>3. CASE ~frozen /\ Slot(op[p].fac) # None
            BY <2>2, <3>1, <3>3 DEF Check, AbsNext, AbsRegister, Decide
        <3>4. CASE ~frozen /\ Slot(op[p].fac) = None
            BY <2>2, <3>4 DEF Check, absVars
        <3> QED
            BY <3>2, <3>3, <3>4
    <2>3. ASSUME NEW p \in Procs, Insert(p) PROVE AbsNext
        <3>1. op[p].name = "register" /\ res[p] = Undecided
            BY <2>0, <2>3, CallShapes DEF Insert, CallInv
        <3>2. ~frozen /\ Slot(op[p].fac) = None
            BY <2>3, InsertEffect, <1>2
        <3>3. AbsRegister(p)
            BY <2>3, <3>1, <3>2 DEF Insert, AbsRegister, Decide
        <3> QED
            BY <3>3 DEF AbsNext
    <2>4. ASSUME NEW p \in Procs, Freeze(p) PROVE AbsNext
        <3>1. op[p].name = "freeze" /\ res[p] = Undecided
            BY <2>0, <2>4, CallShapes DEF Freeze, CallInv
        <3> QED
            BY <2>4, <3>1 DEF Freeze, AbsFreeze, Decide, AbsNext
    <2>5. ASSUME NEW p \in Procs, Read(p) PROVE AbsNext
        <3>1. op[p].name = "lookup" /\ res[p] = Undecided
            BY <2>0, <2>5, CallShapes DEF Read, CallInv, ReadSection
        <3> QED
            BY <2>5, <3>1 DEF Read, AbsLookup, Decide, AbsNext
    <2>6. ASSUME NEW p \in Procs, Return(p) PROVE AbsNext
        BY <2>6 DEF Return, AbsNext
    <2>7. ASSUME NEW p \in Procs,
                 Lock(p) \/ Drain(p) \/ RLock(p) \/ Unlock(p) \/ RUnlock(p)
          PROVE  UNCHANGED absVars
        BY <2>7 DEF Lock, Drain, RLock, Unlock, RUnlock, absVars
    <2>8. CASE UNCHANGED vars
        BY <2>8 DEF vars, absVars
    <2> QED
        BY <1>2, <2>1, <2>2, <2>3, <2>4, <2>5, <2>6, <2>7, <2>8 DEF Next, Step
<1> QED
    BY <1>1, <1>2, Invariance, PTL DEF Spec, Atomic, AbsSpec
=============================================================================
