----------------------------- MODULE RecentFiles -----------------------------
(***************************************************************************)
(* The class MRU of the Package Editor (src/PackageEditor/MainForm.cs): the *)
(* recently edited packages, in the values "0", "1", ... of a registry key  *)
(* that all editors of the user share.  Every call on the key is a step,    *)
(* but for the read and the write that rename a value: the class takes no   *)
(* lock between the processes.                                              *)
(***************************************************************************)
EXTENDS Naturals, Sequences, FiniteSets

CONSTANTS
    Editor,     \* the editors that run
    File,       \* the packages, names that differ in case only being the same
    maxItems,   \* the length of the list
    None        \* no such value

ASSUME RecentAssumption == maxItems \in Nat \ {0} /\ None \notin File

VARIABLES
    regKey,     \* the values of the key
    step,       \* of each editor: "idle", "browse", "delete", "max", "holes", "rename", "top", "thrown"
    fileName,   \* of each editor: the file it adds
    items,      \* of each editor: the names it has still to browse
    i,          \* of each editor: the index of its loop
    shown       \* the list as the last AddFile left it

mruVars == <<regKey, step, fileName, items, i, shown>>

Slot == 0 .. maxItems - 1

MRUTypeOK ==
    /\ regKey \in [Slot -> File \cup {None}]
    /\ step \in [Editor -> {"idle", "browse", "delete", "max", "holes", "rename", "top", "thrown"}]
    /\ fileName \in [Editor -> File]
    /\ items \in [Editor -> SUBSET Slot]
    /\ i \in [Editor -> 0 .. maxItems]

\* The entries, as GetItems lists them: the values there are, in the order of the slots.
Entries(r) ==
    LET taken == {k \in Slot : r[k] # None}
    IN [n \in 1 .. Cardinality(taken) |->
            r[CHOOSE k \in taken : Cardinality({j \in taken : j < k}) = n - 1]]

\* A list of n packages that editors before have left: without holes, no file twice.
MRUInit ==
    /\ regKey \in [Slot -> File \cup {None}]
    /\ \E n \in 0 .. maxItems : \A k \in Slot : regKey[k] # None <=> k < n
    /\ \A j, k \in Slot : regKey[j] = regKey[k] /\ regKey[j] # None => j = k
    /\ step = [e \in Editor |-> "idle"]
    /\ fileName \in [Editor -> File]
    /\ items = [e \in Editor |-> {}]
    /\ i = [e \in Editor |-> 0]
    /\ shown = Entries(regKey)
-----------------------------------------------------------------------------
\* AddFile: the names of the values there are (GetValueNames, in any order).
AddFile(e, f) ==
    /\ step[e] = "idle"
    /\ step' = [step EXCEPT ![e] = "browse"]
    /\ fileName' = [fileName EXCEPT ![e] = f]
    /\ items' = [items EXCEPT ![e] = {k \in Slot : regKey[k] # None}]
    /\ UNCHANGED <<regKey, i, shown>>

\* A value with this file is read ("GetValue"); it is deleted by the next step.
Browses(e, k) ==
    /\ step[e] = "browse" /\ k \in items[e]
    /\ IF regKey[k] = fileName[e]
       THEN /\ step' = [step EXCEPT ![e] = "delete"]
            /\ i' = [i EXCEPT ![e] = k]
            /\ items' = [items EXCEPT ![e] = @ \ {k}]
       ELSE /\ items' = [items EXCEPT ![e] = @ \ {k}]
            /\ UNCHANGED <<step, i>>
    /\ UNCHANGED <<regKey, fileName, shown>>

\* DeleteValue throws when another editor has deleted the value.
Deletes(e) ==
    /\ step[e] = "delete"
    /\ IF regKey[i[e]] = None
       THEN step' = [step EXCEPT ![e] = "thrown"] /\ UNCHANGED regKey
       ELSE /\ regKey' = [regKey EXCEPT ![i[e]] = None]
            /\ step' = [step EXCEPT ![e] = "browse"]
    /\ UNCHANGED <<fileName, items, i, shown>>

Browsed(e) ==
    /\ step[e] = "browse" /\ items[e] = {}
    /\ step' = [step EXCEPT ![e] = "max"]
    /\ UNCHANGED <<regKey, fileName, items, i, shown>>

\* faulty variant: a list that is full stays so
DeletesMax_Not(e) ==
    /\ step[e] = "max"
    /\ step' = [step EXCEPT ![e] = "holes"]
    /\ i' = [i EXCEPT ![e] = 0]
    /\ UNCHANGED <<regKey, fileName, items, shown>>

\* InsertTopItem: Delete maximum entry, if it exists.
DeletesMax(e) ==
    /\ step[e] = "max"
    /\ regKey' = [regKey EXCEPT ![maxItems - 1] = None]
    /\ step' = [step EXCEPT ![e] = "holes"]
    /\ i' = [i EXCEPT ![e] = 0]
    /\ UNCHANGED <<fileName, items, shown>>

\* faulty variant: the last hole is taken, not the first
LooksForHole_Last(e) ==
    /\ step[e] = "holes"
    /\ step' = [step EXCEPT ![e] = "rename"]
    /\ i' = [i EXCEPT ![e] = CHOOSE k \in Slot :
                /\ regKey[k] = None
                /\ \A m \in Slot : m > k => regKey[m] # None]
    /\ UNCHANGED <<regKey, fileName, items, shown>>

\* Look for an empty hole: moveTo, or none at all.
LooksForHole(e) ==
    /\ step[e] = "holes"
    /\ IF i[e] = maxItems THEN step' = [step EXCEPT ![e] = "top"] /\ UNCHANGED i
       ELSE IF regKey[i[e]] = None
            THEN step' = [step EXCEPT ![e] = "rename"] /\ UNCHANGED i
            ELSE i' = [i EXCEPT ![e] = @ + 1] /\ UNCHANGED step
    /\ UNCHANGED <<regKey, fileName, items, shown>>

\* Rename #i - 1 to #i: it is read and written; SetValue throws if it was gone.
Renames(e) ==
    /\ step[e] = "rename"
    /\ IF i[e] = 0 THEN step' = [step EXCEPT ![e] = "top"] /\ UNCHANGED <<regKey, i>>
       ELSE IF regKey[i[e] - 1] = None
            THEN step' = [step EXCEPT ![e] = "thrown"] /\ UNCHANGED <<regKey, i>>
            ELSE /\ regKey' = [regKey EXCEPT ![i[e]] = regKey[i[e] - 1]]
                 /\ i' = [i EXCEPT ![e] = @ - 1]
                 /\ UNCHANGED step
    /\ UNCHANGED <<fileName, items, shown>>

SetsTop(e) ==
    /\ step[e] = "top"
    /\ regKey' = [regKey EXCEPT ![0] = fileName[e]]
    /\ step' = [step EXCEPT ![e] = "idle"]
    /\ shown' = Entries(regKey')
    /\ UNCHANGED <<fileName, items, i>>
-----------------------------------------------------------------------------
MRUStep(e) ==
    \/ \E k \in Slot : Browses(e, k)
    \/ Deletes(e) \/ Browsed(e) \/ DeletesMax(e) \/ LooksForHole(e) \/ Renames(e) \/ SetsTop(e)

MRUNext == \E e \in Editor : MRUStep(e) \/ \E f \in File : AddFile(e, f)

MRUSpec == MRUInit /\ [][MRUNext]_mruVars
-----------------------------------------------------------------------------
\* One editor keeps the list that is promised.
Recent == INSTANCE RecentList WITH list <- shown

ListImplemented == Recent!Spec

\* No call on the key throws: a value is there when it is deleted or moved.  An
\* exception would leave PackageOpen before its wait window is ended.
NeverThrows == \A e \in Editor : step[e] # "thrown"

\* No file is in the list twice: "First browse through MRU items, deleting those
\* that already contain this fileName".
NoneTwice ==
    (\A e \in Editor : step[e] = "idle") =>
        \A j, k \in Slot : regKey[j] = regKey[k] /\ regKey[j] # None => j = k
=============================================================================
