-------------------------- MODULE KernelSyncProofs --------------------------
(***************************************************************************)
(* What the steps on a semaphore do to SemInv, for any tasks T and any     *)
(* set H of them between their down and their up.  The drivers' proofs     *)
(* cite these lemmas with their own T and H.                               *)
(***************************************************************************)
EXTENDS KernelSync, TLAPS

(* t is on the list s, and a list without repetitions. *)
Listed(t, s) == \E k \in 1..Len(s) : s[k] = t
Once(s) == \A j, k \in 1..Len(s) : s[j] = s[k] => j = k

(* Whoever queues comes last. *)
LEMMA ListAppend ==
  ASSUME NEW T, NEW s \in Seq(T), NEW t \in T, Once(s), ~Listed(t, s)
  PROVE  /\ Append(s, t) \in Seq(T)
         /\ Once(Append(s, t))
         /\ \A u : Listed(u, Append(s, t)) <=> Listed(u, s) \/ u = t
<1> DEFINE a == Append(s, t)
<1>1. /\ a \in Seq(T) /\ Len(s) \in Nat
      /\ Len(a) = Len(s) + 1
      /\ a[Len(s) + 1] = t
      /\ \A k \in 1..Len(s) : a[k] = s[k]
  OBVIOUS
<1> HIDE DEF a
<1>2. Once(a)
  BY <1>1 DEF Once, Listed
<1>3. \A u : Listed(u, a) <=> Listed(u, s) \/ u = t
  BY <1>1 DEF Listed
<1> QED
  BY <1>1, <1>2, <1>3 DEF a

(* Whoever came first leaves first, and only that one. *)
LEMMA ListTail ==
  ASSUME NEW T, NEW s \in Seq(T), s # <<>>, Once(s)
  PROVE  /\ Head(s) \in T /\ Listed(Head(s), s)
         /\ Tail(s) \in Seq(T)
         /\ Once(Tail(s))
         /\ \A u : Listed(u, Tail(s)) <=> Listed(u, s) /\ u # Head(s)
<1> DEFINE h == Head(s)
           r == Tail(s)
<1>1. /\ r \in Seq(T) /\ Len(s) \in Nat \ {0} /\ Len(r) = Len(s) - 1
      /\ h = s[1] /\ h \in T
      /\ \A k \in 1..Len(r) : r[k] = s[k + 1]
  OBVIOUS
<1> HIDE DEF h, r
<1>2. Once(r)
  BY <1>1 DEF Once
<1>3. ASSUME NEW u, Listed(u, r) PROVE Listed(u, s) /\ u # h
  <2>1. PICK k \in 1..Len(r) : r[k] = u
    BY <1>3 DEF Listed
  <2>2. k + 1 \in 1..Len(s) /\ s[k + 1] = u /\ k + 1 # 1 /\ 1 \in 1..Len(s)
    BY <1>1, <2>1
  <2> QED
    BY <1>1, <2>2 DEF Listed, Once
<1>4. ASSUME NEW u, Listed(u, s), u # h PROVE Listed(u, r)
  <2>1. PICK k \in 1..Len(s) : s[k] = u
    BY <1>4 DEF Listed
  <2>2. k - 1 \in 1..Len(r) /\ r[k - 1] = u
    BY <1>1, <1>4, <2>1
  <2> QED
    BY <2>2 DEF Listed
<1>5. Listed(h, s)
  BY <1>1 DEF Listed
<1> QED
  BY <1>1, <1>2, <1>3, <1>4, <1>5 DEF h, r

(* A signal takes one task out of the middle. *)
LEMMA ListRemove ==
  ASSUME NEW T, NEW s \in Seq(T), Once(s), NEW k \in 1..Len(s), NEW r,
         r = [i \in 1..(Len(s) - 1) |-> s[IF i < k THEN i ELSE i + 1]]
  PROVE  /\ r \in Seq(T)
         /\ Once(r)
         /\ \A u : Listed(u, r) <=> Listed(u, s) /\ u # s[k]
<1>1. Len(s) \in Nat /\ Len(s) - 1 \in Nat
  OBVIOUS
<1>2. \A i \in 1..(Len(s) - 1) : s[IF i < k THEN i ELSE i + 1] \in T
  BY <1>1
<1>3. r \in Seq(T) /\ Len(r) = Len(s) - 1
  BY <1>1, <1>2
<1>4. \A i \in 1..Len(r) : r[i] = s[IF i < k THEN i ELSE i + 1]
  BY <1>3
<1>5. Once(r)
  BY <1>1, <1>3, <1>4 DEF Once
<1>6. ASSUME NEW u, Listed(u, r) PROVE Listed(u, s) /\ u # s[k]
  <2>1. PICK i \in 1..Len(r) : r[i] = u
    BY <1>6 DEF Listed
  <2> DEFINE j == IF i < k THEN i ELSE i + 1
  <2>2. j \in 1..Len(s) /\ j # k /\ s[j] = u
    BY <1>1, <1>3, <1>4, <2>1
  <2> HIDE DEF j
  <2> QED
    BY <2>2 DEF Listed, Once
<1>7. ASSUME NEW u, Listed(u, s), u # s[k] PROVE Listed(u, r)
  <2>1. PICK i \in 1..Len(s) : s[i] = u
    BY <1>7 DEF Listed
  <2> DEFINE j == IF i < k THEN i ELSE i - 1
  <2>2. i # k
    BY <1>7, <2>1
  <2>3. j \in 1..Len(r) /\ r[j] = u
    BY <1>1, <1>3, <1>4, <2>1, <2>2
  <2> HIDE DEF j
  <2> QED
    BY <2>3 DEF Listed
<1> QED
  BY <1>3, <1>5, <1>6, <1>7

-----------------------------------------------------------------------------
(* SemInv, with the list's part in these words. *)
LEMMA SemInvList ==
  ASSUME NEW T, NEW H
  PROVE  SemInv(T, H) <=>
           /\ \A t, u \in H : t = u
           /\ count = IF H = {} THEN 1 ELSE 0
           /\ waiters # <<>> => H # {}
           /\ \A t \in T : pc[t] = "down" <=> Listed(t, waiters)
           /\ Once(waiters)
BY DEF SemInv, Listed, Once

(* down: who gets a free semaphore is the only holder, who does not queues. *)
LEMMA SemDown ==
  ASSUME NEW T \in SUBSET DOMAIN pc, NEW H \in SUBSET T,
         waiters \in Seq(T), SemInv(T, H),
         NEW w \in T, pc[w] # "down", NEW next, next # "down", Down(w, next)
  PROVE  /\ waiters' \in Seq(T)
         /\ \/ pc' = [pc EXCEPT ![w] = next] /\ H = {} /\ SemInv(T, {w})'
            \/ pc' = [pc EXCEPT ![w] = "down"] /\ H # {} /\ SemInv(T, H)'
<1>1. CASE count > 0
  <2>1. count' = count - 1 /\ waiters' = waiters /\ pc' = [pc EXCEPT ![w] = next]
    BY <1>1 DEF Down, Goto
  <2>2. H = {} /\ count = 1 /\ waiters = <<>>
    BY <1>1 DEF SemInv
  <2>3. \A t \in T : pc'[t] = "down" <=> pc[t] = "down"
    BY <2>1
  <2>4. SemInv(T, {w})'
    BY <2>1, <2>2, <2>3 DEF SemInv
  <2> QED
    BY <2>1, <2>2, <2>4
<1>2. CASE count = 0
  <2>1. /\ count' = count /\ waiters' = Append(waiters, w)
        /\ pc' = [pc EXCEPT ![w] = "down"]
    BY <1>2 DEF Down, Goto
  <2>2. H # {}
    BY <1>2 DEF SemInv
  <2>3. ~Listed(w, waiters) /\ Once(waiters)
    BY SemInvList
  <2>4. /\ waiters' \in Seq(T) /\ Once(waiters')
        /\ \A u : Listed(u, waiters') <=> Listed(u, waiters) \/ u = w
    BY <2>1, <2>3, ListAppend
  <2>5. \A t \in T : pc'[t] = "down" <=> pc[t] = "down" \/ t = w
    BY <2>1
  <2>6. \A t \in T : pc'[t] = "down" <=> Listed(t, waiters')
    BY <2>4, <2>5, SemInvList
  <2>7. SemInv(T, H)'
    BY <2>1, <2>2, <2>4, <2>6 DEF SemInv, Listed, Once
  <2> QED
    BY <2>1, <2>2, <2>4, <2>7
<1> QED
  BY <1>1, <1>2 DEF Down

(* up with nobody waiting: the semaphore is free. *)
LEMMA SemUpFree ==
  ASSUME NEW T \in SUBSET DOMAIN pc, NEW H \in SUBSET T,
         waiters = <<>>, SemInv(T, H), NEW w \in H,
         NEW next, next # "down", NEW admitted, Up(w, next, admitted)
  PROVE  /\ waiters' = <<>> /\ H = {w}
         /\ pc' = [pc EXCEPT ![w] = next]
         /\ SemInv(T, {})'
<1>1. H = {w} /\ count = 0
  BY DEF SemInv
<1>2. count' = 1 /\ waiters' = <<>> /\ pc' = [pc EXCEPT ![w] = next]
  BY <1>1 DEF Up, Goto
<1>3. \A t \in T : pc[t] # "down"
  BY DEF SemInv
<1>4. \A t \in T : pc'[t] # "down"
  BY <1>2, <1>3
<1>5. SemInv(T, {})'
  BY <1>2, <1>4 DEF SemInv
<1> QED
  BY <1>1, <1>2, <1>5

(* up with somebody waiting: the longest waiter is the only holder. *)
LEMMA SemUpHandOver ==
  ASSUME NEW T \in SUBSET DOMAIN pc, NEW H \in SUBSET T,
         waiters \in Seq(T), waiters # <<>>, SemInv(T, H),
         NEW w \in H, pc[w] # "down",
         NEW next, next # "down", NEW admitted, admitted # "down",
         Up(w, next, admitted), NEW h, h = Head(waiters)
  PROVE  /\ waiters' \in Seq(T) /\ H = {w}
         /\ h \in T /\ h # w /\ pc[h] = "down"
         /\ SemInv(T, {h})'
<1>1. H = {w} /\ count = 0
  BY DEF SemInv
<1>2. /\ count' = count /\ waiters' = Tail(waiters)
      /\ pc' = [pc EXCEPT ![w] = next, ![h] = admitted]
  BY DEF Up
<1>3. /\ h \in T /\ Listed(h, waiters)
      /\ waiters' \in Seq(T) /\ Once(waiters')
      /\ \A u : Listed(u, waiters') <=> Listed(u, waiters) /\ u # h
  <2>1. Once(waiters)
    BY SemInvList
  <2> QED
    BY <1>2, <2>1, ListTail
<1>4. pc[h] = "down" /\ h # w
  BY <1>3, SemInvList
<1>5. \A t \in T : pc'[t] = "down" <=> pc[t] = "down" /\ t # h
  BY <1>2, <1>3, <1>4
<1>6. \A t \in T : pc'[t] = "down" <=> Listed(t, waiters')
  BY <1>3, <1>5, SemInvList
<1>7. SemInv(T, {h})'
  BY <1>1, <1>2, <1>3, <1>6 DEF SemInv, Listed, Once
<1> QED
  BY <1>1, <1>2, <1>3, <1>4, <1>7

(* A signalled task leaves the list, and nothing else changes. *)
LEMMA SemInterrupted ==
  ASSUME NEW T \in SUBSET DOMAIN pc, NEW H \in SUBSET T,
         waiters \in Seq(T), SemInv(T, H),
         NEW w \in T, NEW next, next # "down", DownInterrupted(w, next)
  PROVE  /\ waiters' \in Seq(T)
         /\ pc[w] = "down" /\ pc' = [pc EXCEPT ![w] = next]
         /\ SemInv(T, H)'
<1>1. pc[w] = "down" /\ count' = count /\ pc' = [pc EXCEPT ![w] = next]
  BY DEF DownInterrupted, Goto
<1>2. PICK k \in 1..Len(waiters) :
        /\ waiters[k] = w
        /\ waiters' = [i \in 1..(Len(waiters) - 1) |->
                         waiters[IF i < k THEN i ELSE i + 1]]
  BY DEF DownInterrupted
<1>3. Once(waiters) /\ waiters # <<>> /\ H # {}
  BY <1>2, SemInvList
<1>4. /\ waiters' \in Seq(T) /\ Once(waiters')
      /\ \A u : Listed(u, waiters') <=> Listed(u, waiters) /\ u # w
  BY <1>2, <1>3, ListRemove
<1>5. \A t \in T : pc'[t] = "down" <=> pc[t] = "down" /\ t # w
  <2>1. \A t \in DOMAIN pc : pc'[t] = IF t = w THEN next ELSE pc[t]
    BY <1>1
  <2> QED
    BY <2>1
<1>6. \A t \in T : pc'[t] = "down" <=> Listed(t, waiters')
  BY <1>4, <1>5, SemInvList
<1>7. SemInv(T, H)'
  BY <1>1, <1>3, <1>4, <1>6 DEF SemInv, Listed, Once
<1> QED
  BY <1>1, <1>4, <1>7

(* Any other step moves a task that does not wait for the semaphore.       *)
LEMMA SemOther ==
  ASSUME NEW T \in SUBSET DOMAIN pc, NEW H \in SUBSET T,
         SemInv(T, H),
         NEW t \in DOMAIN pc, pc[t] # "down", NEW next, next # "down", Goto(t, next),
         UNCHANGED <<count, waiters>>
  PROVE  SemInv(T, H)'
<1>1. \A u \in T : pc'[u] = "down" <=> pc[u] = "down"
  BY DEF Goto
<1> QED
  BY <1>1 DEF SemInv

=============================================================================
