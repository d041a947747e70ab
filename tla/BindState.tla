----------------------------- MODULE BindState -----------------------------
(***************************************************************************)
(* The three PersistentStateManagers of the node-server (staging target    *)
(* paths, target paths, volume binds).  Each keeps a map in memory and one *)
(* JSON file per entry, and they are the same code three times.  What an   *)
(* entry says is a function of its key, so an entry is there or not.       *)
(*                                                                         *)
(* A Save is three steps (create, encode, remember) and a Delete two       *)
(* (remove, forget); only the access to the map is under the mutex.        *)
(***************************************************************************)
CONSTANTS
    Keys,       \* the entries, of all three managers
    Writers     \* the goroutines that save entries

VARIABLES
    file,       \* per key: "absent", "torn" (nothing to decode in it) or "valid"
    open,       \* per key, the writers whose descriptor is of the file at that path
    memory      \* per key, whether the map has the entry

BindStateTypeOK ==
    /\ file \in [Keys -> {"absent", "torn", "valid"}]
    /\ open \in [Keys -> SUBSET Writers]
    /\ memory \in [Keys -> BOOLEAN]

BindStateInit ==
    /\ file = [k \in Keys |-> "absent"]
    /\ open = [k \in Keys |-> {}]
    /\ memory = [k \in Keys |-> FALSE]

\* os.Create: makes the file or truncates it.
CreateFile(k, w) ==
    /\ file' = [file EXCEPT ![k] = "torn"]
    /\ open' = [open EXCEPT ![k] = @ \cup {w}]
    /\ UNCHANGED memory

\* Encode, one write.  If the file was removed since, the descriptor is of a
\* file that no longer has a name.
EncodeFile(k, w) ==
    /\ file' = [file EXCEPT ![k] = IF w \in open[k] THEN "valid" ELSE @]
    /\ open' = [open EXCEPT ![k] = @ \ {w}]
    /\ UNCHANGED memory

\* Encode failed (no space left): what is there cannot be decoded.
EncodeFails(k, w) ==
    /\ open' = [open EXCEPT ![k] = @ \ {w}]
    /\ UNCHANGED <<file, memory>>

Remember(k) ==
    /\ memory' = [memory EXCEPT ![k] = TRUE]
    /\ UNCHANGED <<file, open>>

\* os.Remove, for which a file that does not exist is as good as removed.
RemoveFile(k) ==
    /\ file' = [file EXCEPT ![k] = "absent"]
    /\ open' = [open EXCEPT ![k] = {}]
    /\ UNCHANGED memory

Forget(k) ==
    /\ memory' = [memory EXCEPT ![k] = FALSE]
    /\ UNCHANGED <<file, open>>

\* The process dies: the files stay as they are.
LoseMemory ==
    /\ memory' = [k \in Keys |-> FALSE]
    /\ open' = [k \in Keys |-> {}]
    /\ UNCHANGED file

\* Faulty variant: the files are parsed, and the map stays empty.
RecreateEmpty ==
    /\ \A k \in Keys : file[k] # "torn"
    /\ UNCHANGED <<file, open, memory>>

\* NewPersistentStateManager: one file it cannot decode is an error.
Recreate ==
    /\ \A k \in Keys : file[k] # "torn"
    /\ memory' = [k \in Keys |-> file[k] = "valid"]
    /\ UNCHANGED <<file, open>>
=============================================================================
