------------------------------ MODULE SafeFile ------------------------------
(***************************************************************************)
(* What a driver that keeps one string and takes no lock still promises to *)
(* the programs that read, write and inspect it.  The string is known      *)
(* while no write is in progress and the last one to end was not disturbed *)
(* by another and did not fail.  A call that no write overlaps is given    *)
(* that string, from its file's position on; a call that a write overlaps  *)
(* may be given anything.  (Lamport's safe register, with positions,       *)
(* failures and several writers.)                                          *)
(***************************************************************************)
EXTENDS Integers, Sequences

CONSTANTS
  Procs,
  Unknown   (* not a string: the content that nobody is promised *)

VARIABLES
  content,  (* the string, or Unknown                                     *)
  last,     (* 0 after a read, 1 after a write, -1 before; or Unknown for *)
            (* a driver that does not keep it                             *)
  pos,      (* the position of each process's file                        *)
  phase,    (* idle, reading, asking or writing, then done or failed      *)
  torn,     (* the processes whose call a write overlaps                  *)
  data,     (* the string that each writing process writes                *)
  got       (* what each process's call has given it                      *)

store == <<content, last>>
vars  == <<content, last, pos, phase, torn, data, got>>

Init ==
  /\ content # Unknown
  /\ last \in {-1, Unknown}
  /\ pos = [p \in Procs |-> 0]
  /\ phase = [p \in Procs |-> "idle"]
  /\ torn = {}
  /\ data = [p \in Procs |-> <<>>]
  /\ got = [p \in Procs |-> <<>>]

-----------------------------------------------------------------------------
Writing == {p \in Procs : phase[p] = "writing"}
Calling == {p \in Procs : phase[p] \in {"reading", "asking", "writing"}}

Quiet(p) == p \notin torn /\ content # Unknown

(* The process's own entry of f changes, to whatever f' says. *)
Only(p, new, old) == new = [old EXCEPT ![p] = new[p]]

Begin(p, call) ==
  /\ phase[p] = "idle"
  /\ phase' = [phase EXCEPT ![p] = call]
  /\ UNCHANGED <<last, pos, got>>

End(p, call, outcome) ==
  /\ phase[p] = call
  /\ phase' = [phase EXCEPT ![p] = outcome]
  /\ torn' = torn \ {p}
  /\ data' = [data EXCEPT ![p] = <<>>]

Log(activity) == last' = IF last = Unknown THEN Unknown ELSE activity

-----------------------------------------------------------------------------
(* A file starts at position 0, and a program forgets what it was given.   *)
Rest(p) ==
  /\ phase[p] \notin {"reading", "asking", "writing"}
  /\ phase' = [phase EXCEPT ![p] = "idle"]
  /\ pos' \in {pos, [pos EXCEPT ![p] = 0]}
  /\ got' = [got EXCEPT ![p] = <<>>]
  /\ UNCHANGED <<store, torn, data>>

BeginLooking(p) ==
  /\ Begin(p, "reading") \/ Begin(p, "asking")
  /\ torn' = IF Writing = {} THEN torn ELSE torn \cup {p}
  /\ UNCHANGED <<content, data>>

(* Every call that is under way is now overlapped, and so is this one by   *)
(* any other write.                                                        *)
BeginWrite(p, s) ==
  /\ Begin(p, "writing")
  /\ torn' = torn \cup Calling \cup (IF Writing = {} THEN {} ELSE {p})
  /\ data' = [data EXCEPT ![p] = s]
  /\ content' = Unknown

(* A read gives a part of the rest of the string, none of it only when     *)
(* there is no rest, and moves the position behind what it gave.           *)
EndRead(p) ==
  /\ End(p, "reading", "done")
  /\ Only(p, got', got)
  /\ Only(p, pos', pos)
  /\ pos'[p] >= pos[p]
  /\ Quiet(p) =>
       \E k \in pos[p]..Len(content) :
         /\ got'[p] = SubSeq(content, pos[p] + 1, k)
         /\ k < Len(content) => k > pos[p] /\ pos'[p] = k
         /\ pos'[p] >= k
  /\ Log(0)
  /\ UNCHANGED content

(* At the end of the file there is nothing to give. *)
ReadNothing(p) ==
  /\ phase[p] = "idle"
  /\ Writing = {} /\ content # Unknown => pos[p] >= Len(content)
  /\ phase' = [phase EXCEPT ![p] = "done"]
  /\ UNCHANGED <<store, pos, torn, data, got>>

(* The string, its length and what the last call was, all of one moment.   *)
EndAsk(p) ==
  /\ End(p, "asking", "done")
  /\ Only(p, got', got)
  /\ Quiet(p) => got'[p] = <<Len(content), content, last>>
  /\ UNCHANGED <<store, pos>>

EndWrite(p) ==
  /\ End(p, "writing", "done")
  /\ content' = IF p \in torn THEN Unknown ELSE data[p]
  /\ Log(1)
  /\ UNCHANGED <<pos, got>>

(* A failed call gives nothing and moves nothing; of a write that fails    *)
(* half-way anything may be left.                                          *)
FailLooking(p) ==
  /\ End(p, "reading", "failed") \/ End(p, "asking", "failed")
  /\ UNCHANGED <<store, pos, got>>

FailWrite(p) ==
  /\ End(p, "writing", "failed")
  /\ content' = Unknown
  /\ UNCHANGED <<last, pos, got>>

Refuse(p) ==
  /\ phase[p] = "idle"
  /\ phase' = [phase EXCEPT ![p] = "failed"]
  /\ UNCHANGED <<store, pos, torn, data, got>>

-----------------------------------------------------------------------------
Next ==
  \E p \in Procs :
    \/ Rest(p)
    \/ BeginLooking(p) \/ BeginWrite(p, data'[p])
    \/ EndRead(p) \/ ReadNothing(p) \/ EndAsk(p) \/ EndWrite(p)
    \/ FailLooking(p) \/ FailWrite(p) \/ Refuse(p)

Spec == Init /\ [][Next]_vars

=============================================================================
