--------------------------- MODULE AtomicDocument ---------------------------
(***************************************************************************)
(* What internal/store promises its users: one document that concurrent    *)
(* Save and Load calls see as if each call took effect at one instant.  A  *)
(* Save either installs the whole document it was given or, when it fails  *)
(* or the process dies first, changes nothing; a Load sees a whole         *)
(* document.  JSONFile implements this with a mutex, a temporary file and  *)
(* a rename.                                                               *)
(***************************************************************************)

CONSTANTS
    Callers,      \* the goroutines that call Save and Load
    Documents,    \* the values a caller may save
    Missing,      \* no document: nothing saved yet
    Nothing       \* no argument, no result

VARIABLES
    doc,          \* the document now in force
    call,         \* call[c]: what caller c is doing
    value         \* value[c]: what c is saving, or what its Load returned

vars == <<doc, call, value>>

Init == /\ doc \in Documents \cup {Missing}
        /\ call = [c \in Callers |-> "idle"]
        /\ value = [c \in Callers |-> Nothing]

\* The calls begin.
InvokeSave(c) == /\ call[c] = "idle"
                 /\ call' = [call EXCEPT ![c] = "saving"]
                 /\ \E d \in Documents : value' = [value EXCEPT ![c] = d]
                 /\ UNCHANGED doc

InvokeLoad(c) == /\ call[c] = "idle"
                 /\ call' = [call EXCEPT ![c] = "loading"]
                 /\ UNCHANGED <<doc, value>>

\* The instant at which a call takes effect, or gives up without any.
Install(c) == /\ call[c] = "saving"
              /\ doc' = value[c]
              /\ call' = [call EXCEPT ![c] = "saved"]
              /\ UNCHANGED value

Fetch(c) == /\ call[c] = "loading"
            /\ value' = [value EXCEPT ![c] = doc]
            /\ call' = [call EXCEPT ![c] = "loaded"]
            /\ UNCHANGED doc

GiveUp(c) == /\ call[c] \in {"saving", "loading"}
             /\ call' = [call EXCEPT ![c] = "failed"]
             /\ UNCHANGED <<doc, value>>

Return(c) == /\ call[c] \in {"saved", "loaded", "failed"}
             /\ call' = [call EXCEPT ![c] = "idle"]
             /\ value' = [value EXCEPT ![c] = Nothing]
             /\ UNCHANGED doc

\* The process dies: the calls in progress vanish, the document survives.
Crash == /\ call' = [c \in Callers |-> "idle"]
         /\ value' = [c \in Callers |-> Nothing]
         /\ UNCHANGED doc

Next == \/ \E c \in Callers : \/ InvokeSave(c) \/ InvokeLoad(c)
                              \/ Install(c) \/ Fetch(c) \/ GiveUp(c)
                              \/ Return(c)
        \/ Crash

Spec == Init /\ [][Next]_vars
=============================================================================
