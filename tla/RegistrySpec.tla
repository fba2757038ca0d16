---------------------------- MODULE RegistrySpec ----------------------------
(***************************************************************************)
(* What registry.ComponentRegistry promises its callers: an object whose   *)
(* RegisterX, X(id) and Freeze calls each take effect at one instant       *)
(* between the call and its return.  A factory belongs to one kind and has *)
(* one id; the registry keeps one write-once table per kind; Freeze ends   *)
(* registration for good.  Module Registry is the locked implementation.   *)
(***************************************************************************)

CONSTANTS
    Procs,        \* the goroutines that share one *ComponentRegistry
    Kinds,        \* registry.Kind: provider, prompt_asset, tool_pack, ...
    IDs,          \* registry.ID values, "<dotted>@<semver>"
    Factories,    \* factory values, of any kind
    FactoryKind,  \* the kind whose RegisterX method accepts the factory
    FactoryID,    \* what the factory's ID() method returns
    None          \* "no entry", "no owner", "no factory"

ASSUME RegistryAssumption ==
    /\ FactoryKind \in [Factories -> Kinds]
    /\ FactoryID \in [Factories -> IDs]
    /\ None \notin Factories
    /\ None \notin Procs

VARIABLES
    frozen,       \* r.frozen
    table,        \* the per-kind maps: table[k][id] is a factory or None
    op,           \* op[p]: the call goroutine p is inside of, or NoCall
    res           \* res[p]: the value that call will return, once decided

absVars == <<frozen, table, op, res>>

-----------------------------------------------------------------------------
(* Calls and results. *)

NoCall       == [name |-> "none"]
FreezeCall   == [name |-> "freeze"]
RegisterCalls == [name : {"register"}, fac : Factories]
LookupCalls   == [name : {"lookup"}, kind : Kinds, id : IDs]
Calls         == RegisterCalls \cup LookupCalls \cup {FreezeCall}

Statuses == {"undecided", "nil", "ErrRegistryFrozen", "ErrDuplicate", "ErrNotFound"}
Results  == [status : Statuses, fac : Factories \cup {None}]

Result(status)  == [status |-> status, fac |-> None]
Found(f)        == [status |-> "nil", fac |-> f]
Undecided       == Result("undecided")

\* The entry a factory would occupy.
Slot(f) == table[FactoryKind[f]][FactoryID[f]]

-----------------------------------------------------------------------------
EmptyTable == [k \in Kinds |-> [id \in IDs |-> None]]

AbsInit ==
    /\ frozen = FALSE
    /\ table = EmptyTable
    /\ op = [p \in Procs |-> NoCall]
    /\ res = [p \in Procs |-> Undecided]

AbsInvoke(p, c) ==
    /\ op[p] = NoCall
    /\ op' = [op EXCEPT ![p] = c]
    /\ UNCHANGED <<frozen, table, res>>

\* A registration is refused once frozen, refused when the id is taken, and
\* otherwise enters the factory in the table of its kind.
AbsRegister(p) ==
    /\ op[p].name = "register"
    /\ res[p] = Undecided
    /\ LET f == op[p].fac IN
       \/ /\ frozen
          /\ res' = [res EXCEPT ![p] = Result("ErrRegistryFrozen")]
          /\ UNCHANGED table
       \/ /\ ~frozen
          /\ Slot(f) # None
          /\ res' = [res EXCEPT ![p] = Result("ErrDuplicate")]
          /\ UNCHANGED table
       \/ /\ ~frozen
          /\ Slot(f) = None
          /\ table' = [table EXCEPT ![FactoryKind[f]][FactoryID[f]] = f]
          /\ res' = [res EXCEPT ![p] = Result("nil")]
    /\ UNCHANGED <<frozen, op>>

AbsLookup(p) ==
    /\ op[p].name = "lookup"
    /\ res[p] = Undecided
    /\ LET f == table[op[p].kind][op[p].id] IN
         res' = [res EXCEPT ![p] = IF f = None THEN Result("ErrNotFound")
                                               ELSE Found(f)]
    /\ UNCHANGED <<frozen, table, op>>

AbsFreeze(p) ==
    /\ op[p].name = "freeze"
    /\ res[p] = Undecided
    /\ frozen' = TRUE
    /\ res' = [res EXCEPT ![p] = Result("nil")]
    /\ UNCHANGED <<table, op>>

AbsReturn(p) ==
    /\ op[p] # NoCall
    /\ res[p] # Undecided
    /\ op' = [op EXCEPT ![p] = NoCall]
    /\ res' = [res EXCEPT ![p] = Undecided]
    /\ UNCHANGED <<frozen, table>>

AbsNext ==
    \E p \in Procs :
        \/ \E c \in Calls : AbsInvoke(p, c)
        \/ AbsRegister(p)
        \/ AbsLookup(p)
        \/ AbsFreeze(p)
        \/ AbsReturn(p)

AbsSpec == AbsInit /\ [][AbsNext]_absVars
=============================================================================
