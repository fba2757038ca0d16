------------------------------ MODULE Registry ------------------------------
(***************************************************************************)
(* registry.ComponentRegistry as it is implemented: every method takes     *)
(* r.mu (Lock for RegisterX and Freeze, RLock for the lookups), runs its   *)
(* body, and releases the lock in a deferred call.  The body of RegisterX  *)
(* is three separate accesses to shared state (read frozen, read the map,  *)
(* write the map), which only the lock makes one.  The 14 RegisterX and    *)
(* the 14 lookup methods are the same code over 14 maps: one action each,  *)
(* with the map selected by the kind.                                      *)
(***************************************************************************)
EXTENDS RegistrySpec, FiniteSets

VARIABLES
    pc,           \* pc[p]: where goroutine p is inside its call
    writer,       \* the goroutine that holds or has announced r.mu.Lock, or None
    readers       \* the goroutines that hold r.mu for reading

vars == <<frozen, table, op, res, pc, writer, readers>>

WriteSection == {"check", "insert", "freeze", "unlock"}
ReadSection  == {"read", "runlock"}
Locations    == {"idle", "lock", "drain", "rlock", "rwait", "return"}
                    \cup WriteSection \cup ReadSection

TypeOK ==
    /\ frozen \in BOOLEAN
    /\ table \in [Kinds -> [IDs -> Factories \cup {None}]]
    /\ op \in [Procs -> Calls \cup {NoCall}]
    /\ res \in [Procs -> Results]
    /\ pc \in [Procs -> Locations]
    /\ writer \in Procs \cup {None}
    /\ readers \in SUBSET Procs

NewComponentRegistry ==
    /\ AbsInit
    /\ pc = [p \in Procs |-> "idle"]
    /\ writer = None
    /\ readers = {}

Goto(p, l) == pc' = [pc EXCEPT ![p] = l]

Decide(p, r) == res' = [res EXCEPT ![p] = r]

-----------------------------------------------------------------------------
(* Mutated forms: the same steps with one plausible mistake each. *)

\* A method that takes RLock where it needs Lock: writers overlap.
LockShared(p) ==
    /\ pc[p] = "lock"
    /\ writer' = p
    /\ Goto(p, "drain")
    /\ UNCHANGED <<frozen, table, op, res, readers>>

\* RegisterX that forgets to test for an existing entry.
CheckNoDuplicate(p) ==
    /\ pc[p] = "check"
    /\ IF frozen
       THEN Decide(p, Result("ErrRegistryFrozen")) /\ Goto(p, "unlock")
       ELSE Goto(p, "insert") /\ UNCHANGED res
    /\ UNCHANGED <<frozen, table, op, writer, readers>>

\* RegisterX that forgets to test r.frozen.
CheckNoFrozen(p) ==
    /\ pc[p] = "check"
    /\ IF Slot(op[p].fac) # None
       THEN Decide(p, Result("ErrDuplicate")) /\ Goto(p, "unlock")
       ELSE Goto(p, "insert") /\ UNCHANGED res
    /\ UNCHANGED <<frozen, table, op, writer, readers>>

\* RegisterX that unlocks after its tests and writes the map without r.mu.
InsertUnlocked(p) ==
    /\ pc[p] = "insert"
    /\ \/ /\ writer = p
          /\ writer' = None
          /\ readers' = readers \cup {q \in Procs : pc[q] = "rwait"}
          /\ pc' = [q \in Procs |-> IF pc[q] = "rwait" THEN "read" ELSE pc[q]]
          /\ UNCHANGED <<table, res>>
       \/ /\ writer # p
          /\ LET f == op[p].fac IN
               table' = [table EXCEPT ![FactoryKind[f]][FactoryID[f]] = f]
          /\ Decide(p, Result("nil"))
          /\ Goto(p, "return")
          /\ UNCHANGED <<writer, readers>>
    /\ UNCHANGED <<frozen, op>>

\* RegisterX that unlocks where it writes, and not where it refuses a duplicate.
CheckKeepsLock(p) ==
    /\ pc[p] = "check"
    /\ IF frozen
       THEN Decide(p, Result("ErrRegistryFrozen")) /\ Goto(p, "unlock")
       ELSE IF Slot(op[p].fac) # None
       THEN Decide(p, Result("ErrDuplicate")) /\ Goto(p, "return")
       ELSE Goto(p, "insert") /\ UNCHANGED res
    /\ UNCHANGED <<frozen, table, op, writer, readers>>

-----------------------------------------------------------------------------
(* The steps of a call. *)

Call(p, c) ==
    /\ pc[p] = "idle"
    /\ AbsInvoke(p, c)
    /\ Goto(p, IF c.name = "lookup" THEN "rlock" ELSE "lock")
    /\ UNCHANGED <<writer, readers>>

\* r.mu.Lock(), first half: one writer at a time announces itself, and from
\* then on new readers queue behind it.
Lock(p) ==
    /\ pc[p] = "lock"
    /\ writer = None
    /\ writer' = p
    /\ Goto(p, "drain")
    /\ UNCHANGED <<frozen, table, op, res, readers>>

\* r.mu.Lock(), second half: the readers that were inside have left.
Drain(p) ==
    /\ pc[p] = "drain"
    /\ readers = {}
    /\ Goto(p, IF op[p].name = "freeze" THEN "freeze" ELSE "check")
    /\ UNCHANGED <<frozen, table, op, res, writer, readers>>

\* if r.frozen ... ; if _, exists := r.xs[f.ID()]; exists ...
Check(p) ==
    /\ pc[p] = "check"
    /\ \/ /\ frozen
          /\ Decide(p, Result("ErrRegistryFrozen"))
          /\ Goto(p, "unlock")
       \/ /\ ~frozen
          /\ Slot(op[p].fac) # None
          /\ Decide(p, Result("ErrDuplicate"))
          /\ Goto(p, "unlock")
       \/ /\ ~frozen
          /\ Slot(op[p].fac) = None
          /\ Goto(p, "insert")
          /\ UNCHANGED res
    /\ UNCHANGED <<frozen, table, op, writer, readers>>

\* r.xs[f.ID()] = f
Insert(p) ==
    /\ pc[p] = "insert"
    /\ LET f == op[p].fac IN
         table' = [table EXCEPT ![FactoryKind[f]][FactoryID[f]] = f]
    /\ Decide(p, Result("nil"))
    /\ Goto(p, "unlock")
    /\ UNCHANGED <<frozen, op, writer, readers>>

Freeze(p) ==
    /\ pc[p] = "freeze"
    /\ frozen' = TRUE
    /\ Decide(p, Result("nil"))
    /\ Goto(p, "unlock")
    /\ UNCHANGED <<table, op, writer, readers>>

\* The deferred r.mu.Unlock(): admits every reader that queued meanwhile.
Unlock(p) ==
    /\ pc[p] = "unlock"
    /\ writer' = None
    /\ readers' = readers \cup {q \in Procs : pc[q] = "rwait"}
    /\ pc' = [q \in Procs |-> IF q = p THEN "return"
                              ELSE IF pc[q] = "rwait" THEN "read"
                              ELSE pc[q]]
    /\ UNCHANGED <<frozen, table, op, res>>

\* r.mu.RLock(): shared with other readers, queues behind a writer.
RLock(p) ==
    /\ pc[p] = "rlock"
    /\ \/ /\ writer = None
          /\ readers' = readers \cup {p}
          /\ Goto(p, "read")
       \/ /\ writer # None
          /\ Goto(p, "rwait")
          /\ UNCHANGED readers
    /\ UNCHANGED <<frozen, table, op, res, writer>>

\* f, ok := r.xs[id]
Read(p) ==
    /\ pc[p] = "read"
    /\ LET f == table[op[p].kind][op[p].id] IN
         Decide(p, IF f = None THEN Result("ErrNotFound") ELSE Found(f))
    /\ Goto(p, "runlock")
    /\ UNCHANGED <<frozen, table, op, writer, readers>>

RUnlock(p) ==
    /\ pc[p] = "runlock"
    /\ readers' = readers \ {p}
    /\ Goto(p, "return")
    /\ UNCHANGED <<frozen, table, op, res, writer>>

Return(p) ==
    /\ pc[p] = "return"
    /\ AbsReturn(p)
    /\ Goto(p, "idle")
    /\ UNCHANGED <<writer, readers>>

\* The steps goroutine p takes on its own once it has called.
Step(p) ==
    \/ Drain(p)
    \/ RLock(p)
    \/ Check(p)
    \/ Insert(p)
    \/ Freeze(p)
    \/ Unlock(p)
    \/ Read(p)
    \/ RUnlock(p)
    \/ Return(p)

Next ==
    \E p \in Procs :
        \/ \E c \in Calls : Call(p, c)
        \/ Lock(p)
        \/ Step(p)

Spec == NewComponentRegistry /\ [][Next]_vars

\* A goroutine inside a method is scheduled; the mutex writers queue on hands
\* over to a waiter that has starved (sync.Mutex's starvation mode).
Fairness == \A p \in Procs : WF_vars(Step(p)) /\ SF_vars(Lock(p))

FairSpec == Spec /\ Fairness

-----------------------------------------------------------------------------
(* Properties. *)

\* What a call was told stays true while it is still returning, whatever
\* other goroutines do meanwhile: a factory that was registered is the one
\* in the table (no concurrent registration of the same id overwrote it), a
\* factory a lookup handed out is still the registered one, and a caller
\* refused for a duplicate or a freeze was refused for a reason that lasts.
OutcomeHolds ==
    \A p \in Procs : res[p] # Undecided =>
        /\ op[p] \in LookupCalls /\ res[p].status = "nil" =>
               /\ res[p].fac # None
               /\ table[op[p].kind][op[p].id] = res[p].fac
        /\ op[p] \in RegisterCalls =>
               /\ res[p].status = "nil" => Slot(op[p].fac) = op[p].fac
               /\ res[p].status = "ErrDuplicate" => Slot(op[p].fac) # None
               /\ res[p].status = "ErrRegistryFrozen" => frozen
        /\ op[p] = FreezeCall => frozen

\* No method reaches into another kind's map: an entry is a factory of that
\* kind, filed under its own id.
KindsSeparate ==
    \A k \in Kinds, id \in IDs :
        table[k][id] # None =>
            FactoryKind[table[k][id]] = k /\ FactoryID[table[k][id]] = id

\* Once Freeze has run no step changes a table or thaws the registry, even
\* one of a RegisterX call that was already waiting for the lock: two builds
\* that share the registry resolve a ref to the same factory.
FrozenIsFinal == [][frozen => frozen' /\ table' = table]_vars

\* Before the freeze the tables only grow: an entry is never replaced.
WriteOnce ==
    [][\A k \in Kinds, id \in IDs :
          table[k][id] # None => table'[k][id] = table[k][id]]_vars

\* The locked methods implement the atomic object of RegistrySpec.
Atomic == AbsSpec

\* Every call on the registry returns: every path through a method releases
\* r.mu, so no caller waits for a lock that nobody gives back.
CallsReturn == \A p \in Procs : pc[p] # "idle" ~> pc[p] = "idle"

-----------------------------------------------------------------------------
(* The inductive invariant behind the safety properties. *)

\* Who holds the lock, read off the program counters.
LockInv ==
    /\ \A p \in Procs : pc[p] \in WriteSection \cup {"drain"} <=> writer = p
    /\ \A p \in Procs : pc[p] \in ReadSection <=> p \in readers
    /\ \A p \in Procs : pc[p] \in WriteSection => readers = {}

\* Which call a goroutine is in, and whether its result is decided.
CallInv ==
    \A p \in Procs :
        /\ pc[p] = "idle" => op[p] = NoCall
        /\ pc[p] \in {"check", "insert"} => op[p] \in RegisterCalls
        /\ pc[p] = "freeze" => op[p] = FreezeCall
        /\ pc[p] \in {"lock", "drain", "unlock"} =>
               op[p] \in RegisterCalls \cup {FreezeCall}
        /\ pc[p] \in {"rlock", "rwait"} \cup ReadSection => op[p] \in LookupCalls
        /\ pc[p] = "return" => op[p] \in Calls
        /\ res[p] # Undecided <=> pc[p] \in {"unlock", "runlock", "return"}

\* The test a RegisterX call made is still true when it writes.
CheckInv ==
    \A p \in Procs : pc[p] = "insert" => ~frozen /\ Slot(op[p].fac) = None

IndInv == TypeOK /\ LockInv /\ CallInv /\ CheckInv /\ OutcomeHolds /\ KindsSeparate
=============================================================================
