------------------------------ MODULE PidTable ------------------------------
(***************************************************************************)
(* The allocation of process table slots: process_shared_alloc of          *)
(* syscall/process.c.  Slot 0 is never used.                               *)
(***************************************************************************)
EXTENDS Naturals

CONSTANT MaxProcess          \* MAX_PROCESS_COUNT

Pid == 1 .. MaxProcess - 1

Status == {"NOTEXIST", "RUNNING", "ZOMBIE"}

ASSUME PidTableAssumption == MaxProcess \in Nat /\ MaxProcess > 1

(* The slot the i-th round of the search looks at. *)
Candidate(last, i) ==
  IF last + i >= MaxProcess THEN last + i - (MaxProcess - 1) ELSE last + i

HasFreePid(status) == \E p \in Pid : status[p] = "NOTEXIST"

(* The first free slot after the last allocated one, in a round.  The      *)
(* program stops in the debugger when there is none.                       *)
AllocPid(status, last) ==
  LET free == {i \in Pid : status[Candidate(last, i)] = "NOTEXIST"}
  IN  Candidate(last, CHOOSE i \in free : \A j \in free : i <= j)
=============================================================================
