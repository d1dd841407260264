--------------------------- MODULE JSONFileProofs ---------------------------
(* The file discipline of JSONFile, for any number of callers and any set  *)
(* of documents: the mutex protects the temporary file, so the document's  *)
(* file is always whole, and Save and Load are atomic.                     *)
EXTENDS JSONFile, TLAPS

\* The inductive invariant: who holds the mutex, and what the files and the
\* arguments hold at each label.
Discipline ==
    /\ HolderIsInside
    /\ TmpIsMine
    /\ PathWhole
    /\ \A c \in Callers :
         pc[c] \in {"save", "prepare", "open", "write", "rename"} => arg[c] \in Documents

IInv == TypeOK /\ Discipline

LEMMA InitIInv == Init => IInv
  BY SentinelAssumption
  DEF Init, IInv, TypeOK, Discipline, HolderIsInside, TmpIsMine, PathWhole,
      Held, SaveHeld, LoadHeld, Labels, Files

\* Every step keeps the mutex discipline, the types and the contents.
LEMMA NextIInv == IInv /\ [Next]_vars => IInv'
<1> SUFFICES ASSUME IInv, [Next]_vars PROVE IInv'
  OBVIOUS
<1> USE SentinelAssumption
    DEF IInv, TypeOK, Discipline, HolderIsInside, TmpIsMine, PathWhole,
        Held, SaveHeld, LoadHeld, Labels, Files, Goto
<1>1. ASSUME NEW c \in Callers, CallSave(c) PROVE IInv'
  BY <1>1 DEF CallSave
<1>2. ASSUME NEW c \in Callers, CallLoad(c) PROVE IInv'
  BY <1>2 DEF CallLoad
<1>3. ASSUME NEW c \in Callers, Lock(c) PROVE IInv'
  BY <1>3 DEF Lock
<1>4. ASSUME NEW c \in Callers, Proceed(c) PROVE IInv'
  <2>1. CASE Prepare(c)
    BY <2>1 DEF Prepare
  <2>2. CASE OpenTmp(c)
    BY <2>2 DEF OpenTmp
  <2>3. CASE WriteTmp(c)
    BY <2>3 DEF WriteTmp
  <2>4. CASE Rename(c)
    BY <2>4 DEF Rename
  <2>5. CASE SaveError(c)
    BY <2>5 DEF SaveError
  <2>6. CASE ReadFile(c)
    BY <2>6 DEF ReadFile
  <2>7. CASE LoadError(c)
    BY <2>7 DEF LoadError
  <2>8. CASE Unlock(c)
    BY <2>8 DEF Unlock
  <2> QED
    BY <1>4, <2>1, <2>2, <2>3, <2>4, <2>5, <2>6, <2>7, <2>8 DEF Proceed
<1>5. CASE Crash
  BY <1>5 DEF Crash
<1>6. CASE UNCHANGED vars
  BY <1>6 DEF vars
<1> QED
  BY <1>1, <1>2, <1>3, <1>4, <1>5, <1>6 DEF Next

LEMMA InvariantIInv == Spec => []IInv
  BY InitIInv, NextIInv, PTL DEF Spec

\* Types hold in every reachable state (jsonfile.go:14-66).
THEOREM TypeCorrect == Spec => []TypeOK
  BY InvariantIInv, PTL DEF IInv

\* Whatever the callers, errors and crashes, <path> is never half written.
THEOREM AlwaysWhole == Spec => []PathWhole
  BY InvariantIInv, PTL DEF IInv, Discipline

\* A caller renames its own document, never another's (jsonfile.go:61-65).
THEOREM RenamesOwnDocument == Spec => []TmpIsMine
  BY InvariantIInv, PTL DEF IInv, Discipline

\* A mutex that is taken has its holder inside Save or Load, also after errors,
\* which leave through the deferred unlock, and after a crash: nobody waits for
\* a caller that has left (jsonfile.go:26-27, 49-50).  That the holder goes on is
\* CallsReturn, which needs fairness.
HolderExists == mu # Free => mu \in Callers /\ pc[mu] \in Held

\* See HolderExists: the mutex is never left locked behind.
THEOREM NobodyStranded == Spec => [](HolderIsInside /\ HolderExists)
<1>1. IInv => HolderIsInside /\ HolderExists
  BY DEF IInv, TypeOK, Discipline, HolderIsInside, HolderExists
<1> QED
  BY <1>1, InvariantIInv, PTL

-----------------------------------------------------------------------------
(* Refinement: JSONFile implements AtomicDocument.                         *)

LEMMA InitRefines == Init => Document!Init
  BY DEF Init, Document!Init, AbstractCall

LEMMA NextRefines == IInv /\ [Next]_vars => [Document!Next]_(Document!vars)
<1> SUFFICES ASSUME IInv, [Next]_vars PROVE [Document!Next]_(Document!vars)
  OBVIOUS
<1> USE DEF IInv, TypeOK, Labels, Held, SaveHeld, LoadHeld, Goto, AbstractCall
<1>1. ASSUME NEW c \in Callers, CallSave(c) PROVE Document!InvokeSave(c)
  BY <1>1 DEF CallSave, Document!InvokeSave
<1>2. ASSUME NEW c \in Callers, CallLoad(c) PROVE Document!InvokeLoad(c)
  BY <1>2 DEF CallLoad, Document!InvokeLoad
<1>3. ASSUME NEW c \in Callers, Rename(c) PROVE Document!Install(c)
  BY <1>3 DEF Rename, Document!Install, Discipline, TmpIsMine
<1>4. ASSUME NEW c \in Callers, ReadFile(c) PROVE Document!Fetch(c)
  BY <1>4 DEF ReadFile, Document!Fetch
<1>5. ASSUME NEW c \in Callers, SaveError(c) \/ LoadError(c)
      PROVE Document!GiveUp(c)
  BY <1>5 DEF SaveError, LoadError, Document!GiveUp
<1>6. ASSUME NEW c \in Callers, Unlock(c) PROVE Document!Return(c)
  BY <1>6 DEF Unlock, Document!Return
<1>7. ASSUME Crash PROVE Document!Crash
  BY <1>7 DEF Crash, Document!Crash
<1>8. ASSUME NEW c \in Callers,
             Lock(c) \/ Prepare(c) \/ OpenTmp(c) \/ WriteTmp(c)
      PROVE UNCHANGED Document!vars
  BY <1>8 DEF Lock, Prepare, OpenTmp, WriteTmp, Document!vars
<1>9. ASSUME UNCHANGED vars PROVE UNCHANGED Document!vars
  BY <1>9 DEF vars, Document!vars
<1> QED
  BY <1>1, <1>2, <1>3, <1>4, <1>5, <1>6, <1>7, <1>8, <1>9
  DEF Next, Proceed, Document!Next

\* Save and Load are atomic: JSONFile implements AtomicDocument ("replacing
\* the previous contents atomically", jsonfile.go:46-47).
THEOREM Refinement == Spec => Atomic
<1>1. Init => Document!Init
  BY InitRefines
<1>2. IInv /\ [Next]_vars => [Document!Next]_(Document!vars)
  BY NextRefines
<1> QED
  BY <1>1, <1>2, InvariantIInv, PTL DEF Spec, Atomic, Document!Spec
=============================================================================
