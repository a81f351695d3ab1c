-------------------------- MODULE RingQueueProofs --------------------------
(***************************************************************************)
(* What holds of RingQueue for every number of producers and consumers,    *)
(* every set of values and every capacity.                                 *)
(***************************************************************************)
EXTENDS RingQueue, FiniteSetTheorems, SequenceTheorems, TLAPS

-----------------------------------------------------------------------------
(* Arithmetic of the ring: lines 36-37 and 47-48 move an index by one slot *)
(* and wrap it at _cap.                                                    *)
LEMMA ModWrap ==
  ASSUME NEW x \in Slots, NEW k \in 0 .. Cap
  PROVE  (x + k) % Cap = IF x + k < Cap THEN x + k ELSE x + k - Cap
<1>1. Cap \in Nat /\ Cap > 0 /\ x \in Nat /\ x < Cap /\ k \in Nat /\ k <= Cap
  BY CapAssumption DEF Slots
<1>2. CASE x + k < Cap
  BY <1>1, <1>2
<1>3. CASE x + k >= Cap
  <2>1. x + k - Cap \in 0 .. Cap - 1
    BY <1>1, <1>3
  <2> QED BY <1>1, <1>3, <2>1, Z3
<1> QED BY <1>1, <1>2, <1>3

LEMMA NextSlot ==
  ASSUME NEW x \in Slots
  PROVE  (x + 1) % Cap \in Slots
<1>1. (x + 1) % Cap = IF x + 1 < Cap THEN x + 1 ELSE x + 1 - Cap
  BY ModWrap, CapAssumption
<1> QED BY <1>1, CapAssumption DEF Slots

(* Two slots less than a whole turn apart are different.                   *)
LEMMA ModInjective ==
  ASSUME NEW x \in Slots, NEW j \in 0 .. Cap - 1, NEW k \in 0 .. Cap - 1,
         (x + j) % Cap = (x + k) % Cap
  PROVE  j = k
<1>1. j \in Nat /\ k \in Nat /\ j < Cap /\ k < Cap /\ j \in 0 .. Cap /\ k \in 0 .. Cap
  BY CapAssumption
<1>2. x \in Nat /\ x < Cap
  BY CapAssumption DEF Slots
<1>3. /\ (x + j) % Cap = IF x + j < Cap THEN x + j ELSE x + j - Cap
      /\ (x + k) % Cap = IF x + k < Cap THEN x + k ELSE x + k - Cap
  BY <1>1, ModWrap
<1>4. (IF x + j < Cap THEN x + j ELSE x + j - Cap) = (IF x + k < Cap THEN x + k ELSE x + k - Cap)
  BY <1>3
<1> QED BY <1>1, <1>2, <1>4, CapAssumption

(* Counting the threads at a set of statements.                            *)
LEMMA AtEnter ==
  ASSUME NEW T, IsFiniteSet(T), NEW S, NEW t \in T, NEW from, NEW to,
         T \subseteq Threads, pc \in [Threads -> Statements],
         Step(t, from, to), from \notin S, to \in S
  PROVE  Cardinality(At(T, S)') = Cardinality(At(T, S)) + 1
<1>1. At(T, S)' = At(T, S) \cup {t} /\ t \notin At(T, S)
  BY DEF At, Step
<1>2. IsFiniteSet(At(T, S))
  BY FS_Subset DEF At
<1> QED BY <1>1, <1>2, FS_AddElement

LEMMA AtLeave ==
  ASSUME NEW T, IsFiniteSet(T), NEW S, NEW t \in T, NEW from, NEW to,
         T \subseteq Threads, pc \in [Threads -> Statements],
         Step(t, from, to), from \in S, to \notin S
  PROVE  Cardinality(At(T, S)') = Cardinality(At(T, S)) - 1
<1>1. At(T, S)' = At(T, S) \ {t} /\ t \in At(T, S)
  BY DEF At, Step
<1>2. IsFiniteSet(At(T, S))
  BY FS_Subset DEF At
<1> QED BY <1>1, <1>2, FS_RemoveElement, FS_CardinalityType

LEMMA AtStay ==
  ASSUME NEW T, NEW S, NEW t, NEW from, NEW to,
         T \subseteq Threads, pc \in [Threads -> Statements],
         Step(t, from, to), t \notin T \/ (from \in S <=> to \in S)
  PROVE  At(T, S)' = At(T, S)
BY DEF At, Step

LEMMA AtCount ==
  ASSUME NEW T, IsFiniteSet(T), NEW S
  PROVE  IsFiniteSet(At(T, S)) /\ Cardinality(At(T, S)) \in Nat
BY FS_Subset, FS_CardinalityType DEF At

-----------------------------------------------------------------------------
LEMMA TypeInductive ==
  ASSUME TypeOK, [Next]_vars
  PROVE  TypeOK'
<1> USE DEF TypeOK, Step, Statements
<1>1. ASSUME NEW p \in Producers, Push(p) PROVE TypeOK'
  <2>1. (p_step + 1) % Cap \in Slots
    BY NextSlot
  <2>2. cdata_sem + 1 \in Nat /\ (pspace_sem > 0 => pspace_sem - 1 \in Nat)
    OBVIOUS
  <2>3. CASE PushWait(p)    BY <2>2, <2>3 DEF PushWait
  <2>4. CASE PushLock(p)    BY <2>4 DEF PushLock
  <2>5. CASE PushCopy(p)    BY <2>5 DEF PushCopy
  <2>6. CASE PushAdvance(p) BY <2>1, <2>6 DEF PushAdvance
  <2>7. CASE PushUnlock(p)  BY <2>7 DEF PushUnlock
  <2>8. CASE PushPost(p)    BY <2>2, <2>8 DEF PushPost
  <2> QED BY <1>1, <2>3, <2>4, <2>5, <2>6, <2>7, <2>8 DEF Push
<1>2. ASSUME NEW c \in Consumers, Pop(c) PROVE TypeOK'
  <2>1. (c_step + 1) % Cap \in Slots
    BY NextSlot
  <2>2. pspace_sem + 1 \in Nat /\ (cdata_sem > 0 => cdata_sem - 1 \in Nat)
    OBVIOUS
  <2>3. CASE PopWait(c)    BY <2>2, <2>3 DEF PopWait
  <2>4. CASE PopLock(c)    BY <2>4 DEF PopLock
  <2>5. CASE PopCopy(c)    BY <2>5 DEF PopCopy
  <2>6. CASE PopAdvance(c) BY <2>1, <2>6 DEF PopAdvance
  <2>7. CASE PopUnlock(c)  BY <2>7 DEF PopUnlock
  <2>8. CASE PopPost(c)    BY <2>2, <2>8 DEF PopPost
  <2> QED BY <1>2, <2>3, <2>4, <2>5, <2>6, <2>7, <2>8 DEF Pop
<1>3. CASE UNCHANGED vars
  BY <1>3 DEF vars
<1> QED BY <1>1, <1>2, <1>3 DEF Next

(* Every variable keeps to its range, whatever the threads do.             *)
THEOREM TypeCorrect == Spec => []TypeOK
<1>1. Init => TypeOK
  BY CapAssumption DEF Init, InitWith, TypeOK, Slots, Threads, Statements
<1>2. TypeOK /\ [Next]_vars => TypeOK'
  BY TypeInductive
<1> QED BY <1>1, <1>2, PTL DEF Spec

-----------------------------------------------------------------------------
(* The mutexes do what line 33 and line 44 use them for: the thread between *)
(* Lock and Unlock is the owner, so there is at most one on each side.     *)
Held == {"copy", "advance", "unlock"}

Mutexes == /\ \A p \in Producers : pc[p] \in Held <=> p_mutex = p
           /\ \A c \in Consumers : pc[c] \in Held <=> c_mutex = c

LEMMA MutexesInductive ==
  ASSUME TypeOK, Mutexes, [Next]_vars
  PROVE  Mutexes'
<1> USE DEF TypeOK, Mutexes, Held, Step, Threads, Statements
<1>1. ASSUME NEW p \in Producers, Push(p) PROVE Mutexes'
  <2> USE ThreadsAssumption
  <2>1. CASE PushWait(p)    BY <2>1 DEF PushWait
  <2>2. CASE PushLock(p)    BY <2>2 DEF PushLock
  <2>3. CASE PushCopy(p)    BY <2>3 DEF PushCopy
  <2>4. CASE PushAdvance(p) BY <2>4 DEF PushAdvance
  <2>5. CASE PushUnlock(p)  BY <2>5 DEF PushUnlock
  <2>6. CASE PushPost(p)    BY <2>6 DEF PushPost
  <2> QED BY <1>1, <2>1, <2>2, <2>3, <2>4, <2>5, <2>6 DEF Push
<1>2. ASSUME NEW c \in Consumers, Pop(c) PROVE Mutexes'
  <2> USE ThreadsAssumption
  <2>1. CASE PopWait(c)    BY <2>1 DEF PopWait
  <2>2. CASE PopLock(c)    BY <2>2 DEF PopLock
  <2>3. CASE PopCopy(c)    BY <2>3 DEF PopCopy
  <2>4. CASE PopAdvance(c) BY <2>4 DEF PopAdvance
  <2>5. CASE PopUnlock(c)  BY <2>5 DEF PopUnlock
  <2>6. CASE PopPost(c)    BY <2>6 DEF PopPost
  <2> QED BY <1>2, <2>1, <2>2, <2>3, <2>4, <2>5, <2>6 DEF Pop
<1>3. CASE UNCHANGED vars
  BY <1>3 DEF vars
<1> QED BY <1>1, <1>2, <1>3 DEF Next

-----------------------------------------------------------------------------
(* What each statement does to the tokens and to the ends of the ring.     *)
Counts == <<Claimed, Written, Taken, Returned>>
Ends   == <<NextRead, NextWrite>>

LEMMA CountsAreNat ==
  /\ Claimed \in Nat /\ Written \in Nat
  /\ Taken \in Nat   /\ Returned \in Nat
BY AtCount, ThreadsAssumption DEF Claimed, Written, Taken, Returned

LEMMA PushEffects ==
  ASSUME TypeOK, Mutexes, NEW p \in Producers
  PROVE  /\ PushWait(p)    => /\ Claimed' = Claimed + 1
                              /\ UNCHANGED <<Written, Taken, Returned, Ends>>
         /\ PushLock(p)    => UNCHANGED <<Counts, Ends>>
         /\ PushCopy(p)    => /\ Claimed' = Claimed - 1
                              /\ Written' = Written + 1
                              /\ UNCHANGED <<Taken, Returned, NextRead>>
                              /\ NextWrite = p_step
                              /\ NextWrite' = (p_step + 1) % Cap
         /\ PushAdvance(p) => UNCHANGED <<Counts, Ends>>
         /\ PushUnlock(p)  => UNCHANGED <<Counts, Ends>>
         /\ PushPost(p)    => /\ Written' = Written - 1
                              /\ UNCHANGED <<Claimed, Taken, Returned, Ends>>
<1> USE ThreadsAssumption DEF Claimed, Written, Taken, Returned, Counts, Ends
<1>1. /\ pc \in [Threads -> Statements]
      /\ Producers \subseteq Threads /\ Consumers \subseteq Threads
  BY DEF TypeOK, Threads
<1>2. p \notin Consumers
  OBVIOUS
<1>3. ASSUME PushWait(p)
      PROVE  Claimed' = Claimed + 1 /\ UNCHANGED <<Written, Taken, Returned, Ends>>
  <2>1. Step(p, "wait", "lock") /\ UNCHANGED <<c_step, p_step>>
    BY <1>3 DEF PushWait
  <2>2. Claimed' = Claimed + 1
    BY <1>1, <2>1, AtEnter
  <2>3. UNCHANGED <<Written, Taken, Returned>>
    BY <1>1, <1>2, <2>1, AtStay
  <2>4. UNCHANGED Ends
    <3>1. At(Producers, {"advance"})' = At(Producers, {"advance"})
      BY <1>1, <1>2, <2>1, AtStay
    <3>2. At(Consumers, {"advance"})' = At(Consumers, {"advance"})
      BY <1>1, <1>2, <2>1, AtStay
    <3> QED BY <2>1, <3>1, <3>2 DEF NextRead, NextWrite
  <2> QED BY <2>2, <2>3, <2>4
<1>4. ASSUME PushLock(p) PROVE UNCHANGED <<Counts, Ends>>
  <2>1. Step(p, "lock", "copy") /\ UNCHANGED <<c_step, p_step>>
    BY <1>4 DEF PushLock
  <2>2. UNCHANGED Counts
    BY <1>1, <1>2, <2>1, AtStay
  <2>3. UNCHANGED Ends
    <3>1. At(Producers, {"advance"})' = At(Producers, {"advance"})
      BY <1>1, <1>2, <2>1, AtStay
    <3>2. At(Consumers, {"advance"})' = At(Consumers, {"advance"})
      BY <1>1, <1>2, <2>1, AtStay
    <3> QED BY <2>1, <3>1, <3>2 DEF NextRead, NextWrite
  <2> QED BY <2>2, <2>3
<1>5. ASSUME PushCopy(p)
      PROVE  /\ Claimed' = Claimed - 1 /\ Written' = Written + 1
             /\ UNCHANGED <<Taken, Returned, NextRead>>
             /\ NextWrite = p_step /\ NextWrite' = (p_step + 1) % Cap
  <2>1. Step(p, "copy", "advance") /\ UNCHANGED <<c_step, p_step>>
    BY <1>5 DEF PushCopy
  <2>2. Claimed' = Claimed - 1
    BY <1>1, <2>1, AtLeave
  <2>3. Written' = Written + 1
    BY <1>1, <2>1, AtEnter
  <2>4. UNCHANGED <<Taken, Returned>>
    BY <1>1, <1>2, <2>1, AtStay
  <2>5. UNCHANGED NextRead
    <3>1. At(Consumers, {"advance"})' = At(Consumers, {"advance"})
      BY <1>1, <1>2, <2>1, AtStay
    <3> QED BY <2>1, <3>1 DEF NextRead
  <2>6. At(Producers, {"advance"}) = {}
    BY <2>1 DEF Mutexes, Held, At, Step
  <2>7. At(Producers, {"advance"})' # {}
    BY <1>1, <2>1 DEF At, Step
  <2> QED BY <2>1, <2>2, <2>3, <2>4, <2>5, <2>6, <2>7 DEF NextWrite
<1>6. ASSUME PushAdvance(p) PROVE UNCHANGED <<Counts, Ends>>
  <2>1. Step(p, "advance", "unlock") /\ p_step' = (p_step + 1) % Cap
        /\ UNCHANGED c_step
    BY <1>6 DEF PushAdvance
  <2>2. UNCHANGED Counts
    BY <1>1, <1>2, <2>1, AtStay
  <2>3. UNCHANGED NextRead
    <3>1. At(Consumers, {"advance"})' = At(Consumers, {"advance"})
      BY <1>1, <1>2, <2>1, AtStay
    <3> QED BY <2>1, <3>1 DEF NextRead
  <2>4. At(Producers, {"advance"}) # {}
    BY <2>1 DEF At, Step
  <2>5. At(Producers, {"advance"})' = {}
    BY <1>1, <2>1 DEF Mutexes, Held, At, Step
  <2> QED BY <2>1, <2>2, <2>3, <2>4, <2>5 DEF NextWrite
<1>7. ASSUME PushUnlock(p) PROVE UNCHANGED <<Counts, Ends>>
  <2>1. Step(p, "unlock", "post") /\ UNCHANGED <<c_step, p_step>>
    BY <1>7 DEF PushUnlock
  <2>2. UNCHANGED Counts
    BY <1>1, <1>2, <2>1, AtStay
  <2>3. UNCHANGED Ends
    <3>1. At(Producers, {"advance"})' = At(Producers, {"advance"})
      BY <1>1, <1>2, <2>1, AtStay
    <3>2. At(Consumers, {"advance"})' = At(Consumers, {"advance"})
      BY <1>1, <1>2, <2>1, AtStay
    <3> QED BY <2>1, <3>1, <3>2 DEF NextRead, NextWrite
  <2> QED BY <2>2, <2>3
<1>8. ASSUME PushPost(p)
      PROVE  Written' = Written - 1 /\ UNCHANGED <<Claimed, Taken, Returned, Ends>>
  <2>1. Step(p, "post", "wait") /\ UNCHANGED <<c_step, p_step>>
    BY <1>8 DEF PushPost
  <2>2. Written' = Written - 1
    BY <1>1, <2>1, AtLeave
  <2>3. UNCHANGED <<Claimed, Taken, Returned>>
    BY <1>1, <1>2, <2>1, AtStay
  <2>4. UNCHANGED Ends
    <3>1. At(Producers, {"advance"})' = At(Producers, {"advance"})
      BY <1>1, <1>2, <2>1, AtStay
    <3>2. At(Consumers, {"advance"})' = At(Consumers, {"advance"})
      BY <1>1, <1>2, <2>1, AtStay
    <3> QED BY <2>1, <3>1, <3>2 DEF NextRead, NextWrite
  <2> QED BY <2>2, <2>3, <2>4
<1> QED BY <1>3, <1>4, <1>5, <1>6, <1>7, <1>8

LEMMA PopEffects ==
  ASSUME TypeOK, Mutexes, NEW c \in Consumers
  PROVE  /\ PopWait(c)    => /\ Taken' = Taken + 1
                              /\ UNCHANGED <<Returned, Claimed, Written, Ends>>
         /\ PopLock(c)    => UNCHANGED <<Counts, Ends>>
         /\ PopCopy(c)    => /\ Taken' = Taken - 1
                              /\ Returned' = Returned + 1
                              /\ UNCHANGED <<Claimed, Written, NextWrite>>
                              /\ NextRead = c_step
                              /\ NextRead' = (c_step + 1) % Cap
         /\ PopAdvance(c) => UNCHANGED <<Counts, Ends>>
         /\ PopUnlock(c)  => UNCHANGED <<Counts, Ends>>
         /\ PopPost(c)    => /\ Returned' = Returned - 1
                              /\ UNCHANGED <<Taken, Claimed, Written, Ends>>
<1> USE ThreadsAssumption DEF Claimed, Written, Taken, Returned, Counts, Ends
<1>1. /\ pc \in [Threads -> Statements]
      /\ Producers \subseteq Threads /\ Consumers \subseteq Threads
  BY DEF TypeOK, Threads
<1>2. c \notin Producers
  OBVIOUS
<1>3. ASSUME PopWait(c)
      PROVE  Taken' = Taken + 1 /\ UNCHANGED <<Returned, Claimed, Written, Ends>>
  <2>1. Step(c, "wait", "lock") /\ UNCHANGED <<c_step, p_step>>
    BY <1>3 DEF PopWait
  <2>2. Taken' = Taken + 1
    BY <1>1, <2>1, AtEnter
  <2>3. UNCHANGED <<Returned, Claimed, Written>>
    BY <1>1, <1>2, <2>1, AtStay
  <2>4. UNCHANGED Ends
    <3>1. At(Producers, {"advance"})' = At(Producers, {"advance"})
      BY <1>1, <1>2, <2>1, AtStay
    <3>2. At(Consumers, {"advance"})' = At(Consumers, {"advance"})
      BY <1>1, <1>2, <2>1, AtStay
    <3> QED BY <2>1, <3>1, <3>2 DEF NextRead, NextWrite
  <2> QED BY <2>2, <2>3, <2>4
<1>4. ASSUME PopLock(c) PROVE UNCHANGED <<Counts, Ends>>
  <2>1. Step(c, "lock", "copy") /\ UNCHANGED <<c_step, p_step>>
    BY <1>4 DEF PopLock
  <2>2. UNCHANGED Counts
    BY <1>1, <1>2, <2>1, AtStay
  <2>3. UNCHANGED Ends
    <3>1. At(Producers, {"advance"})' = At(Producers, {"advance"})
      BY <1>1, <1>2, <2>1, AtStay
    <3>2. At(Consumers, {"advance"})' = At(Consumers, {"advance"})
      BY <1>1, <1>2, <2>1, AtStay
    <3> QED BY <2>1, <3>1, <3>2 DEF NextRead, NextWrite
  <2> QED BY <2>2, <2>3
<1>5. ASSUME PopCopy(c)
      PROVE  /\ Taken' = Taken - 1 /\ Returned' = Returned + 1
             /\ UNCHANGED <<Claimed, Written, NextWrite>>
             /\ NextRead = c_step /\ NextRead' = (c_step + 1) % Cap
  <2>1. Step(c, "copy", "advance") /\ UNCHANGED <<c_step, p_step>>
    BY <1>5 DEF PopCopy
  <2>2. Taken' = Taken - 1
    BY <1>1, <2>1, AtLeave
  <2>3. Returned' = Returned + 1
    BY <1>1, <2>1, AtEnter
  <2>4. UNCHANGED <<Claimed, Written>>
    BY <1>1, <1>2, <2>1, AtStay
  <2>5. UNCHANGED NextWrite
    <3>1. At(Producers, {"advance"})' = At(Producers, {"advance"})
      BY <1>1, <1>2, <2>1, AtStay
    <3> QED BY <2>1, <3>1 DEF NextWrite
  <2>6. At(Consumers, {"advance"}) = {}
    BY <2>1 DEF Mutexes, Held, At, Step
  <2>7. At(Consumers, {"advance"})' # {}
    BY <1>1, <2>1 DEF At, Step
  <2> QED BY <2>1, <2>2, <2>3, <2>4, <2>5, <2>6, <2>7 DEF NextRead
<1>6. ASSUME PopAdvance(c) PROVE UNCHANGED <<Counts, Ends>>
  <2>1. Step(c, "advance", "unlock") /\ c_step' = (c_step + 1) % Cap
        /\ UNCHANGED p_step
    BY <1>6 DEF PopAdvance
  <2>2. UNCHANGED Counts
    BY <1>1, <1>2, <2>1, AtStay
  <2>3. UNCHANGED NextWrite
    <3>1. At(Producers, {"advance"})' = At(Producers, {"advance"})
      BY <1>1, <1>2, <2>1, AtStay
    <3> QED BY <2>1, <3>1 DEF NextWrite
  <2>4. At(Consumers, {"advance"}) # {}
    BY <2>1 DEF At, Step
  <2>5. At(Consumers, {"advance"})' = {}
    BY <1>1, <2>1 DEF Mutexes, Held, At, Step
  <2> QED BY <2>1, <2>2, <2>3, <2>4, <2>5 DEF NextRead
<1>7. ASSUME PopUnlock(c) PROVE UNCHANGED <<Counts, Ends>>
  <2>1. Step(c, "unlock", "post") /\ UNCHANGED <<c_step, p_step>>
    BY <1>7 DEF PopUnlock
  <2>2. UNCHANGED Counts
    BY <1>1, <1>2, <2>1, AtStay
  <2>3. UNCHANGED Ends
    <3>1. At(Producers, {"advance"})' = At(Producers, {"advance"})
      BY <1>1, <1>2, <2>1, AtStay
    <3>2. At(Consumers, {"advance"})' = At(Consumers, {"advance"})
      BY <1>1, <1>2, <2>1, AtStay
    <3> QED BY <2>1, <3>1, <3>2 DEF NextRead, NextWrite
  <2> QED BY <2>2, <2>3
<1>8. ASSUME PopPost(c)
      PROVE  Returned' = Returned - 1 /\ UNCHANGED <<Taken, Claimed, Written, Ends>>
  <2>1. Step(c, "post", "wait") /\ UNCHANGED <<c_step, p_step>>
    BY <1>8 DEF PopPost
  <2>2. Returned' = Returned - 1
    BY <1>1, <2>1, AtLeave
  <2>3. UNCHANGED <<Taken, Claimed, Written>>
    BY <1>1, <1>2, <2>1, AtStay
  <2>4. UNCHANGED Ends
    <3>1. At(Producers, {"advance"})' = At(Producers, {"advance"})
      BY <1>1, <1>2, <2>1, AtStay
    <3>2. At(Consumers, {"advance"})' = At(Consumers, {"advance"})
      BY <1>1, <1>2, <2>1, AtStay
    <3> QED BY <2>1, <3>1, <3>2 DEF NextRead, NextWrite
  <2> QED BY <2>2, <2>3, <2>4
<1> QED BY <1>3, <1>4, <1>5, <1>6, <1>7, <1>8

-----------------------------------------------------------------------------
(* TokensConserved is inductive next to the type and the mutexes.          *)
LEMMA TokensInductive ==
  ASSUME TypeOK, Mutexes, TokensConserved, [Next]_vars
  PROVE  TokensConserved'
<1> USE DEF TokensConserved, Counts
<1>1. pspace_sem \in Nat /\ cdata_sem \in Nat /\ Cap \in Nat
  BY CapAssumption DEF TypeOK
<1>2. ASSUME NEW p \in Producers, Push(p) PROVE TokensConserved'
  <2>1. CASE PushWait(p)
    <3>1. /\ pspace_sem' = pspace_sem - 1 /\ Claimed' = Claimed + 1
          /\ Written' = Written /\ cdata_sem' = cdata_sem /\ Taken' = Taken /\ Returned' = Returned
      BY <2>1, PushEffects DEF PushWait
    <3> QED BY <3>1, <1>1, CountsAreNat
  <2>2. CASE PushLock(p)
    BY <2>2, PushEffects DEF PushLock
  <2>3. CASE PushCopy(p)
    <3>1. /\ pspace_sem' = pspace_sem /\ Claimed' = Claimed - 1 /\ Written' = Written + 1
          /\ cdata_sem' = cdata_sem /\ Taken' = Taken /\ Returned' = Returned
      BY <2>3, PushEffects DEF PushCopy
    <3> QED BY <3>1, <1>1, CountsAreNat
  <2>4. CASE PushAdvance(p)
    BY <2>4, PushEffects DEF PushAdvance
  <2>5. CASE PushUnlock(p)
    BY <2>5, PushEffects DEF PushUnlock
  <2>6. CASE PushPost(p)
    BY <2>6, <1>1, CountsAreNat, PushEffects DEF PushPost
  <2> QED BY <1>2, <2>1, <2>2, <2>3, <2>4, <2>5, <2>6 DEF Push
<1>3. ASSUME NEW c \in Consumers, Pop(c) PROVE TokensConserved'
  <2>1. CASE PopWait(c)
    BY <2>1, <1>1, CountsAreNat, PopEffects DEF PopWait
  <2>2. CASE PopLock(c)
    BY <2>2, PopEffects DEF PopLock
  <2>3. CASE PopCopy(c)
    <3>1. /\ pspace_sem' = pspace_sem /\ Claimed' = Claimed /\ Written' = Written
          /\ cdata_sem' = cdata_sem /\ Taken' = Taken - 1 /\ Returned' = Returned + 1
      BY <2>3, PopEffects DEF PopCopy
    <3> QED BY <3>1, <1>1, CountsAreNat
  <2>4. CASE PopAdvance(c)
    BY <2>4, PopEffects DEF PopAdvance
  <2>5. CASE PopUnlock(c)
    BY <2>5, PopEffects DEF PopUnlock
  <2>6. CASE PopPost(c)
    BY <2>6, <1>1, CountsAreNat, PopEffects DEF PopPost
  <2> QED BY <1>3, <2>1, <2>2, <2>3, <2>4, <2>5, <2>6 DEF Pop
<1>4. CASE UNCHANGED vars
  BY <1>4 DEF vars, Claimed, Written, Taken, Returned, At
<1> QED BY <1>2, <1>3, <1>4 DEF Next

-----------------------------------------------------------------------------
(* The shape of the ring: nothing, one slot more, or one slot less.        *)
LEMMA EndsAreSlots ==
  ASSUME TypeOK
  PROVE  NextRead \in Slots /\ NextWrite \in Slots
BY NextSlot DEF TypeOK, NextRead, NextWrite

LEMMA AheadValue ==
  ASSUME TypeOK, NEW k \in 0 .. Cap
  PROVE  Ahead(k) = IF NextRead + k < Cap THEN NextRead + k ELSE NextRead + k - Cap
BY EndsAreSlots, ModWrap DEF Ahead

LEMMA AheadShift ==
  ASSUME TypeOK, NEW k \in 0 .. Cap - 1
  PROVE  (((NextRead + 1) % Cap) + k) % Cap = Ahead(k + 1)
<1> DEFINE next == (NextRead + 1) % Cap
<1>1. /\ Cap \in Nat /\ NextRead \in Nat /\ NextRead < Cap
      /\ k \in Nat /\ k \in 0 .. Cap /\ k + 1 \in 0 .. Cap
  BY CapAssumption, EndsAreSlots DEF Slots
<1>2. next \in Slots /\ next = IF NextRead + 1 < Cap THEN NextRead + 1 ELSE NextRead + 1 - Cap
  BY EndsAreSlots, NextSlot, ModWrap, CapAssumption
<1>3. Ahead(k + 1) = IF NextRead + (k + 1) < Cap THEN NextRead + (k + 1) ELSE NextRead + (k + 1) - Cap
  BY <1>1, AheadValue
<1> HIDE DEF next
<1>4. (next + k) % Cap = IF next + k < Cap THEN next + k ELSE next + k - Cap
  BY <1>1, <1>2, ModWrap
<1>5. (next + k) % Cap = Ahead(k + 1)
  BY <1>1, <1>2, <1>3, <1>4
<1> QED BY <1>5 DEF next

LEMMA ShapeStays ==
  ASSUME RingShape, UNCHANGED <<Filled, unread, Ends>>
  PROVE  RingShape'
BY DEF RingShape, Ends, Ahead

LEMMA ShapeGrows ==
  ASSUME TypeOK, RingShape, Filled < Cap, Filled' = Filled + 1,
         NextRead' = NextRead, NextWrite' = (NextWrite + 1) % Cap,
         unread' = unread \cup {NextWrite}
  PROVE  RingShape'
<1>1. Filled \in Nat /\ Cap \in Nat /\ NextRead \in Nat /\ NextRead < Cap
  BY CapAssumption, EndsAreSlots DEF RingShape, Slots
<1>2. Filled' \in 0 .. Cap
  BY <1>1
<1>4. 0 .. Filled' - 1 = (0 .. Filled - 1) \cup {Filled}
  BY <1>1
<1>5. (unread = {Ahead(k) : k \in 0 .. Filled - 1})'
  <2>1. unread' = {Ahead(k) : k \in (0 .. Filled - 1) \cup {Filled}}
    BY DEF RingShape
  <2>2. unread' = {Ahead(k) : k \in 0 .. Filled' - 1}
    BY <1>4, <2>1
  <2> QED BY <2>2 DEF Ahead
<1>6. (NextWrite = Ahead(Filled))'
  <2>1. NextWrite = IF NextRead + Filled < Cap THEN NextRead + Filled ELSE NextRead + Filled - Cap
    BY AheadValue DEF RingShape
  <2>2. Ahead(Filled + 1) = IF NextRead + (Filled + 1) < Cap THEN NextRead + (Filled + 1)
                                                             ELSE NextRead + (Filled + 1) - Cap
    BY <1>1, AheadValue
  <2>3. (NextWrite + 1) % Cap = IF NextWrite + 1 < Cap THEN NextWrite + 1 ELSE NextWrite + 1 - Cap
    BY EndsAreSlots, ModWrap, CapAssumption
  <2>4. (NextWrite + 1) % Cap = Ahead(Filled + 1)
    BY <1>1, <2>1, <2>2, <2>3
  <2> QED BY <2>4 DEF Ahead
<1> QED BY <1>2, <1>5, <1>6 DEF RingShape

LEMMA ShapeShrinks ==
  ASSUME TypeOK, TypeOK', RingShape, Filled > 0, Filled' = Filled - 1,
         NextRead' = (NextRead + 1) % Cap, NextWrite' = NextWrite,
         unread' = unread \ {NextRead}
  PROVE  RingShape'
<1>1. Filled \in Nat /\ Filled <= Cap /\ Cap \in Nat /\ NextRead \in Nat /\ NextRead < Cap
  BY CapAssumption, EndsAreSlots DEF RingShape, Slots
<1>2. Filled' \in 0 .. Cap
  BY <1>1
<1>4. \A k \in 0 .. Filled - 1 : Ahead(k)' = Ahead(k + 1)
  BY <1>1, AheadShift DEF Ahead
<1>5. Ahead(0) = NextRead
  BY <1>1, AheadValue
<1>6. \A k \in 1 .. Filled - 1 : Ahead(k) # NextRead
  <2> SUFFICES ASSUME NEW k \in 1 .. Filled - 1 PROVE Ahead(k) # NextRead
    OBVIOUS
  <2>1. Ahead(k) = IF NextRead + k < Cap THEN NextRead + k ELSE NextRead + k - Cap
    BY <1>1, AheadValue
  <2> QED BY <1>1, <2>1
<1>7. (unread = {Ahead(k) : k \in 0 .. Filled - 1})'
  <2>1. 0 .. Filled - 1 = {0} \cup (1 .. Filled - 1)
    BY <1>1
  <2>2. unread = {Ahead(0)} \cup {Ahead(k) : k \in 1 .. Filled - 1}
    BY <2>1 DEF RingShape
  <2>3. unread' = {Ahead(k) : k \in 1 .. Filled - 1}
    BY <1>5, <1>6, <2>2
  <2>4. {Ahead(k) : k \in 1 .. Filled - 1} = {Ahead(k + 1) : k \in 0 .. Filled - 2}
    <3>1. \A k \in 1 .. Filled - 1 : k - 1 \in 0 .. Filled - 2 /\ k = (k - 1) + 1
      BY <1>1
    <3>2. \A k \in 0 .. Filled - 2 : k + 1 \in 1 .. Filled - 1
      BY <1>1
    <3> QED BY <3>1, <3>2
  <2>5. \A k \in 0 .. Filled - 2 : Ahead(k + 1) = Ahead(k)'
    BY <1>1, <1>4
  <2>6. unread' = {Ahead(k)' : k \in 0 .. Filled - 2}
    BY <2>3, <2>4, <2>5
  <2>7. 0 .. Filled' - 1 = 0 .. Filled - 2
    BY <1>1
  <2> QED BY <2>6, <2>7
<1>8. (NextWrite = Ahead(Filled))'
  <2>1. Filled - 1 \in 0 .. Filled - 1 /\ (Filled - 1) + 1 = Filled
    BY <1>1
  <2>2. Ahead(Filled - 1 + 1) = NextWrite'
    BY <2>1 DEF RingShape
  <2> DEFINE last == Filled - 1
  <2>3. (NextRead' + last) % Cap = Ahead(last + 1)
    BY <1>4, <2>1 DEF Ahead
  <2> QED BY <2>1, <2>2, <2>3 DEF Ahead
<1> QED BY <1>2, <1>7, <1>8 DEF RingShape

-----------------------------------------------------------------------------
(* The inductive invariant.  NoOverwrite, NoStaleRead and NoSlotRace speak *)
(* only of a thread at its copy; what carries them from one copy to the    *)
(* next is the shape of the ring, the shape needs the token count (there   *)
(* is room to grow and something to shrink), and both need the mutexes     *)
(* (the index moves once per copy).                                        *)
IInv == TypeOK /\ Mutexes /\ TokensConserved /\ RingShape

LEMMA FilledIsNat ==
  ASSUME TypeOK
  PROVE  Filled \in Nat
BY CountsAreNat DEF TypeOK, Filled

(* A producer at its copy holds a token, so there is room; the slot is the *)
(* next to be written.                                                     *)
LEMMA RoomAtCopy ==
  ASSUME TypeOK, Mutexes, TokensConserved, NEW p \in Producers, pc[p] = "copy"
  PROVE  Filled < Cap /\ NextWrite = p_step
<1>1. At(Producers, {"advance"}) = {}
  BY DEF Mutexes, Held, At
<1>2. Claimed # 0
  <2>1. p \in At(Producers, {"lock", "copy"})
    BY DEF At
  <2>2. IsFiniteSet(At(Producers, {"lock", "copy"}))
    BY AtCount, ThreadsAssumption
  <2> QED BY <2>1, <2>2, FS_EmptySet DEF Claimed
<1>3. pspace_sem \in Nat /\ cdata_sem \in Nat /\ Cap \in Nat
  BY CapAssumption DEF TypeOK
<1>4. Filled < Cap
  BY <1>2, <1>3, CountsAreNat DEF TokensConserved, Filled
<1> QED BY <1>1, <1>4 DEF NextWrite

(* A consumer at its copy holds a token, so there is something to read;    *)
(* the slot is the next to be read.                                        *)
LEMMA StockAtCopy ==
  ASSUME TypeOK, Mutexes, NEW c \in Consumers, pc[c] = "copy"
  PROVE  Filled > 0 /\ NextRead = c_step
<1>1. At(Consumers, {"advance"}) = {}
  BY DEF Mutexes, Held, At
<1>2. Taken # 0
  <2>1. c \in At(Consumers, {"lock", "copy"})
    BY DEF At
  <2>2. IsFiniteSet(At(Consumers, {"lock", "copy"}))
    BY AtCount, ThreadsAssumption
  <2> QED BY <2>1, <2>2, FS_EmptySet DEF Taken
<1>3. cdata_sem \in Nat
  BY DEF TypeOK
<1>4. Filled > 0
  BY <1>2, <1>3, CountsAreNat DEF Filled
<1> QED BY <1>1, <1>4 DEF NextRead

LEMMA ShapeInductive ==
  ASSUME IInv, [Next]_vars
  PROVE  RingShape'
<1> USE DEF IInv
<1>1. TypeOK'
  BY TypeInductive
<1>2. cdata_sem \in Nat
  BY DEF TypeOK
<1>3. ASSUME NEW p \in Producers, Push(p) PROVE RingShape'
  <2>1. CASE PushWait(p)
    BY <2>1, PushEffects, ShapeStays DEF PushWait, Filled
  <2>2. CASE PushLock(p)
    BY <2>2, PushEffects, ShapeStays DEF PushLock, Filled, Counts
  <2>3. CASE PushCopy(p)
    <3>1. Filled < Cap /\ NextWrite = p_step
      BY <2>3, RoomAtCopy DEF PushCopy, Step
    <3>2. /\ cdata_sem' = cdata_sem /\ Written' = Written + 1 /\ Taken' = Taken
          /\ NextRead' = NextRead /\ NextWrite' = (NextWrite + 1) % Cap
      BY <2>3, <3>1, PushEffects DEF PushCopy
    <3>3. Filled' = Filled + 1
      BY <1>2, <3>2, CountsAreNat DEF Filled
    <3>4. unread' = unread \cup {NextWrite}
      BY <2>3, <3>1 DEF PushCopy
    <3> QED BY <3>1, <3>2, <3>3, <3>4, ShapeGrows
  <2>4. CASE PushAdvance(p)
    BY <2>4, PushEffects, ShapeStays DEF PushAdvance, Filled, Counts
  <2>5. CASE PushUnlock(p)
    BY <2>5, PushEffects, ShapeStays DEF PushUnlock, Filled, Counts
  <2>6. CASE PushPost(p)
    <3>1. /\ cdata_sem' = cdata_sem + 1 /\ Written' = Written - 1 /\ Taken' = Taken
          /\ UNCHANGED <<unread, Ends>>
      BY <2>6, PushEffects DEF PushPost
    <3>2. Filled' = Filled
      BY <1>2, <3>1, CountsAreNat DEF Filled
    <3> QED BY <3>1, <3>2, ShapeStays
  <2> QED BY <1>3, <2>1, <2>2, <2>3, <2>4, <2>5, <2>6 DEF Push
<1>4. ASSUME NEW c \in Consumers, Pop(c) PROVE RingShape'
  <2>1. CASE PopWait(c)
    <3>1. /\ cdata_sem' = cdata_sem - 1 /\ Taken' = Taken + 1 /\ Written' = Written
          /\ UNCHANGED <<unread, Ends>>
      BY <2>1, PopEffects DEF PopWait
    <3>2. Filled' = Filled
      BY <1>2, <3>1, CountsAreNat DEF Filled
    <3> QED BY <3>1, <3>2, ShapeStays
  <2>2. CASE PopLock(c)
    BY <2>2, PopEffects, ShapeStays DEF PopLock, Filled, Counts
  <2>3. CASE PopCopy(c)
    <3>1. Filled > 0 /\ NextRead = c_step
      BY <2>3, StockAtCopy DEF PopCopy, Step
    <3>2. /\ cdata_sem' = cdata_sem /\ Taken' = Taken - 1 /\ Written' = Written
          /\ NextWrite' = NextWrite /\ NextRead' = (NextRead + 1) % Cap
      BY <2>3, <3>1, PopEffects DEF PopCopy
    <3>3. Filled' = Filled - 1
      BY <1>2, <3>2, CountsAreNat DEF Filled
    <3>4. unread' = unread \ {NextRead}
      BY <2>3, <3>1 DEF PopCopy
    <3> QED BY <1>1, <3>1, <3>2, <3>3, <3>4, ShapeShrinks
  <2>4. CASE PopAdvance(c)
    BY <2>4, PopEffects, ShapeStays DEF PopAdvance, Filled, Counts
  <2>5. CASE PopUnlock(c)
    BY <2>5, PopEffects, ShapeStays DEF PopUnlock, Filled, Counts
  <2>6. CASE PopPost(c)
    BY <2>6, PopEffects, ShapeStays DEF PopPost, Filled
  <2> QED BY <1>4, <2>1, <2>2, <2>3, <2>4, <2>5, <2>6 DEF Pop
<1>5. CASE UNCHANGED vars
  <2>1. UNCHANGED <<Filled, unread, Ends>>
    BY <1>5 DEF vars, Filled, Written, Taken, At, Ends, NextRead, NextWrite
  <2> QED BY <2>1, ShapeStays
<1> QED BY <1>3, <1>4, <1>5 DEF Next

LEMMA InitCounts ==
  ASSUME Init
  PROVE  /\ Claimed = 0 /\ Written = 0 /\ Taken = 0 /\ Returned = 0
         /\ NextRead = 0 /\ NextWrite = 0
<1>1. \A S : \A T \in {Producers, Consumers} :
        "wait" \notin S => At(T, S) = {}
  BY DEF Init, InitWith, At, Threads
<1> QED
  BY <1>1, FS_EmptySet DEF Claimed, Written, Taken, Returned, NextRead, NextWrite, Init, InitWith

LEMMA Invariant == Spec => []IInv
<1>1. Init => IInv
  <2> SUFFICES ASSUME Init PROVE IInv
    OBVIOUS
  <2>1. TypeOK
    BY CapAssumption DEF Init, InitWith, TypeOK, Slots, Threads, Statements
  <2>2. Mutexes
    BY ThreadsAssumption DEF Init, InitWith, Mutexes, Held, Threads
  <2>3. TokensConserved
    BY InitCounts, CapAssumption DEF Init, InitWith, TokensConserved
  <2>4. RingShape
    <3>1. Filled = 0
      BY InitCounts DEF Filled, Init, InitWith
    <3>2. 0 .. Filled - 1 = {}
      BY <3>1
    <3>3. Ahead(0) = 0
      BY <2>1, AheadValue, InitCounts, CapAssumption
    <3> QED BY <3>1, <3>2, <3>3, InitCounts, CapAssumption DEF RingShape, Init, InitWith
  <2> QED BY <2>1, <2>2, <2>3, <2>4 DEF IInv
<1>2. IInv /\ [Next]_vars => IInv'
  BY TypeInductive, MutexesInductive, TokensInductive, ShapeInductive DEF IInv
<1> QED BY <1>1, <1>2, PTL DEF Spec

-----------------------------------------------------------------------------
(* The tokens of the two semaphores, in the semaphores and in the hands of *)
(* the threads, always number _cap.                                        *)
THEOREM TokensAreConserved == Spec => []TokensConserved
<1>1. IInv => TokensConserved
  BY DEF IInv
<1> QED BY <1>1, Invariant, PTL

(* The semaphores agree with the indices at all times.                     *)
THEOREM RingKeepsShape == Spec => []RingShape
<1>1. IInv => RingShape
  BY DEF IInv
<1> QED BY <1>1, Invariant, PTL

(* Line 34 never overwrites an item that nobody has read.                  *)
THEOREM NothingOverwritten == Spec => []NoOverwrite
<1>1. IInv => NoOverwrite
  <2> SUFFICES ASSUME IInv, NEW p \in Producers, pc[p] = "copy"
               PROVE  p_step \notin unread
    BY DEF NoOverwrite
  <2>1. Filled < Cap /\ NextWrite = p_step
    BY RoomAtCopy DEF IInv
  <2>2. /\ Filled \in Nat /\ Cap \in Nat
        /\ NextWrite = Ahead(Filled)
        /\ unread = {Ahead(k) : k \in 0 .. Filled - 1}
    BY CapAssumption DEF IInv, RingShape
  <2>3. \A k \in 0 .. Filled - 1 : Ahead(k) # Ahead(Filled)
    <3> SUFFICES ASSUME NEW k \in 0 .. Filled - 1, Ahead(k) = Ahead(Filled) PROVE FALSE
      OBVIOUS
    <3>1. k \in 0 .. Cap - 1 /\ Filled \in 0 .. Cap - 1 /\ k # Filled
      BY <2>1, <2>2
    <3>2. NextRead \in Slots
      BY EndsAreSlots DEF IInv
    <3> QED BY <3>1, <3>2, ModInjective DEF Ahead
  <2> QED BY <2>1, <2>2, <2>3
<1> QED BY <1>1, Invariant, PTL

(* Line 45 only ever reads a slot that holds an item.                      *)
THEOREM NothingReadStale == Spec => []NoStaleRead
<1>1. IInv => NoStaleRead
  <2> SUFFICES ASSUME IInv, NEW c \in Consumers, pc[c] = "copy"
               PROVE  c_step \in unread
    BY DEF NoStaleRead
  <2>1. Filled > 0 /\ NextRead = c_step /\ Filled \in Nat
    BY StockAtCopy, FilledIsNat DEF IInv
  <2>2. Ahead(0) = NextRead
    BY AheadValue, EndsAreSlots, CapAssumption DEF IInv, Slots
  <2>3. 0 \in 0 .. Filled - 1
    BY <2>1
  <2> QED BY <2>1, <2>2, <2>3 DEF IInv, RingShape
<1> QED BY <1>1, Invariant, PTL

(* A producer and a consumer never hold the same slot at once, although    *)
(* they hold different mutexes.                                            *)
THEOREM NoRaceOnASlot == Spec => []NoSlotRace
<1>1. NoOverwrite /\ NoStaleRead => NoSlotRace
  BY DEF NoOverwrite, NoStaleRead, NoSlotRace
<1> QED BY <1>1, NothingOverwritten, NothingReadStale, PTL

-----------------------------------------------------------------------------
(* The refinement: PushCopy is Enqueue, PopCopy is Dequeue, every other    *)
(* statement is a stutter of BoundedFifo.                                  *)
Items == Values \cup {NoValue}

(* Between lines 32 and 34 a producer has an argument to store.            *)
Arguments == \A p \in Producers : pc[p] \in {"lock", "copy"} => in[p] \in Values

LEMMA ArgumentsInductive ==
  ASSUME TypeOK, Arguments, [Next]_vars
  PROVE  Arguments'
<1> USE DEF TypeOK, Arguments, Step, Threads
<1>1. ASSUME NEW p \in Producers, Push(p) PROVE Arguments'
  <2>1. CASE PushWait(p)    BY <2>1 DEF PushWait
  <2>2. CASE PushLock(p)    BY <2>2 DEF PushLock
  <2>3. CASE PushCopy(p)    BY <2>3 DEF PushCopy
  <2>4. CASE PushAdvance(p) BY <2>4 DEF PushAdvance
  <2>5. CASE PushUnlock(p)  BY <2>5 DEF PushUnlock
  <2>6. CASE PushPost(p)    BY <2>6 DEF PushPost
  <2> QED BY <1>1, <2>1, <2>2, <2>3, <2>4, <2>5, <2>6 DEF Push
<1>2. ASSUME NEW c \in Consumers, Pop(c) PROVE Arguments'
  <2> USE ThreadsAssumption
  <2>1. CASE PopWait(c)    BY <2>1 DEF PopWait
  <2>2. CASE PopLock(c)    BY <2>2 DEF PopLock
  <2>3. CASE PopCopy(c)    BY <2>3 DEF PopCopy
  <2>4. CASE PopAdvance(c) BY <2>4 DEF PopAdvance
  <2>5. CASE PopUnlock(c)  BY <2>5 DEF PopUnlock
  <2>6. CASE PopPost(c)    BY <2>6 DEF PopPost
  <2> QED BY <1>2, <2>1, <2>2, <2>3, <2>4, <2>5, <2>6 DEF Pop
<1>3. CASE UNCHANGED vars
  BY <1>3 DEF vars
<1> QED BY <1>1, <1>2, <1>3 DEF Next

LEMMA AheadInSlots ==
  ASSUME TypeOK, NEW k \in 0 .. Cap
  PROVE  Ahead(k) \in Slots
<1>1. NextRead \in Nat /\ NextRead < Cap /\ Cap \in Nat /\ k \in Nat /\ k <= Cap
  BY EndsAreSlots, CapAssumption DEF Slots
<1> QED BY <1>1, AheadValue DEF Slots

LEMMA ContentsIsSeq ==
  TypeOK /\ RingShape => Contents \in Seq(Items) /\ Len(Contents) = Filled
<1> SUFFICES ASSUME TypeOK, RingShape
             PROVE  Contents \in Seq(Items) /\ Len(Contents) = Filled
  OBVIOUS
<1>1. Filled \in Nat /\ Filled <= Cap /\ Cap \in Nat
  BY CapAssumption DEF RingShape
<1>2. \A i \in 1 .. Filled : ringqueue[Ahead(i - 1)] \in Items
  <2> SUFFICES ASSUME NEW i \in 1 .. Filled PROVE ringqueue[Ahead(i - 1)] \in Items
    OBVIOUS
  <2>1. i - 1 \in 0 .. Cap
    BY <1>1
  <2> QED BY <2>1, AheadInSlots DEF TypeOK, Items
<1>3. Contents \in [1 .. Filled -> Items]
  BY <1>2 DEF Contents
<1>4. Contents \in Seq(Items)
  BY <1>1, <1>3, SeqDef
<1> QED BY <1>1, <1>3, <1>4, LenProperties

LEMMA ContentsStay ==
  ASSUME UNCHANGED <<ringqueue, Filled, NextRead>>
  PROVE  Contents' = Contents
BY DEF Contents, Ahead

LEMMA ContentsGrow ==
  ASSUME TypeOK, TypeOK', RingShape, RingShape', NEW v \in Values,
         Filled < Cap, Filled' = Filled + 1, NextRead' = NextRead,
         ringqueue' = [ringqueue EXCEPT ![NextWrite] = v]
  PROVE  Contents' = Append(Contents, v)
<1>1. Filled \in Nat /\ Filled < Cap /\ Cap \in Nat
  BY CapAssumption DEF RingShape
<1>2. /\ Contents \in Seq(Items) /\ Len(Contents) = Filled
      /\ Contents' \in Seq(Items) /\ Len(Contents') = Filled + 1
  <2>1. (TypeOK /\ RingShape => Contents \in Seq(Items) /\ Len(Contents) = Filled)'
    BY ContentsIsSeq, PTL
  <2> QED BY <2>1, ContentsIsSeq
<1>3. /\ Append(Contents, v) \in Seq(Items)
      /\ Len(Append(Contents, v)) = Filled + 1
      /\ \A i \in 1 .. Filled : Append(Contents, v)[i] = Contents[i]
      /\ Append(Contents, v)[Filled + 1] = v
  <2>1. v \in Items
    BY DEF Items
  <2> QED BY <1>2, <2>1, AppendProperties
<1>4. \A i \in 1 .. Filled + 1 : Contents'[i] = ringqueue'[Ahead(i - 1)]
  BY DEF Contents, Ahead
<1>5. \A i \in 1 .. Filled : Contents'[i] = Contents[i]
  <2> SUFFICES ASSUME NEW i \in 1 .. Filled PROVE Contents'[i] = Contents[i]
    OBVIOUS
  <2>1. i - 1 \in 0 .. Cap - 1 /\ Filled \in 0 .. Cap - 1 /\ i - 1 # Filled /\ i - 1 \in 0 .. Cap
    BY <1>1
  <2>2. Ahead(i - 1) # Ahead(Filled)
    BY <2>1, EndsAreSlots, ModInjective DEF Ahead
  <2>3. Ahead(i - 1) # NextWrite /\ Ahead(i - 1) \in Slots
    BY <2>1, <2>2, AheadInSlots DEF RingShape
  <2>4. ringqueue'[Ahead(i - 1)] = ringqueue[Ahead(i - 1)]
    BY <2>3 DEF TypeOK
  <2>5. i \in 1 .. Filled + 1
    BY <1>1
  <2> QED BY <1>4, <2>4, <2>5 DEF Contents
<1>6. Contents'[Filled + 1] = v
  <2>1. NextWrite = Ahead(Filled) /\ NextWrite \in Slots
    BY EndsAreSlots DEF RingShape
  <2>2. (Filled + 1) - 1 = Filled /\ Filled + 1 \in 1 .. Filled + 1
    BY <1>1
  <2>3. Contents'[Filled + 1] = ringqueue'[Ahead(Filled)]
    BY <1>4, <2>2
  <2> QED BY <2>1, <2>3 DEF TypeOK
<1>7. \A i \in 1 .. Filled + 1 : Contents'[i] = Append(Contents, v)[i]
  <2>1. \A i \in 1 .. Filled + 1 : i \in 1 .. Filled \/ i = Filled + 1
    BY <1>1
  <2> QED BY <1>3, <1>5, <1>6, <2>1
<1> QED BY <1>2, <1>3, <1>7, SeqEqual

LEMMA ContentsShrink ==
  ASSUME TypeOK, TypeOK', RingShape, RingShape',
         Filled > 0, Filled' = Filled - 1,
         NextRead' = (NextRead + 1) % Cap, ringqueue' = ringqueue
  PROVE  /\ Contents # << >> /\ Head(Contents) = ringqueue[NextRead]
         /\ Contents' = Tail(Contents)
<1>1. Filled \in Nat /\ Filled <= Cap /\ Cap \in Nat
  BY CapAssumption DEF RingShape
<1>2. /\ Contents \in Seq(Items) /\ Len(Contents) = Filled
      /\ Contents' \in Seq(Items) /\ Len(Contents') = Filled - 1
  <2>1. (TypeOK /\ RingShape => Contents \in Seq(Items) /\ Len(Contents) = Filled)'
    BY ContentsIsSeq, PTL
  <2> QED BY <2>1, ContentsIsSeq
<1>3. Contents # << >>
  BY <1>1, <1>2, EmptySeq
<1>4. /\ Tail(Contents) \in Seq(Items) /\ Len(Tail(Contents)) = Filled - 1
      /\ \A i \in 1 .. Filled - 1 : Tail(Contents)[i] = Contents[i + 1]
  BY <1>2, <1>3, HeadTailProperties
<1>5. \A i \in 1 .. Filled - 1 : Contents'[i] = Contents[i + 1]
  <2> SUFFICES ASSUME NEW i \in 1 .. Filled - 1 PROVE Contents'[i] = Contents[i + 1]
    OBVIOUS
  <2> DEFINE k == i - 1
  <2>1. k \in 0 .. Filled - 1 /\ i + 1 \in 1 .. Filled /\ (i + 1) - 1 = k + 1
    BY <1>1
  <2>2. (((NextRead + 1) % Cap) + k) % Cap = Ahead(k + 1)
    BY <1>1, <2>1, AheadShift
  <2>3. Contents'[i] = ringqueue[(NextRead' + k) % Cap]
    BY DEF Contents, Ahead
  <2>4. Contents[i + 1] = ringqueue[Ahead(k + 1)]
    BY <2>1 DEF Contents
  <2> QED BY <2>2, <2>3, <2>4
<1>6. Head(Contents) = ringqueue[NextRead]
  <2>1. Ahead(0) = NextRead
    BY AheadValue, EndsAreSlots, CapAssumption DEF Slots
  <2>2. Contents[1] = ringqueue[Ahead(0)]
    BY <1>1 DEF Contents
  <2> QED BY <1>2, <1>3, <2>1, <2>2
<1> QED BY <1>2, <1>3, <1>4, <1>5, <1>6, SeqEqual

LEMMA StepRefines ==
  ASSUME IInv, IInv', Arguments, [Next]_vars
  PROVE  [Fifo!Next]_(Fifo!vars)
<1> USE DEF Fifo!vars
<1>1. cdata_sem \in Nat
  BY DEF IInv, TypeOK
<1>2. ASSUME UNCHANGED <<ringqueue, Filled, NextRead, out>>
      PROVE  UNCHANGED Fifo!vars
  BY <1>2, ContentsStay
<1>3. ASSUME NEW p \in Producers, Push(p) PROVE [Fifo!Next]_(Fifo!vars)
  <2> USE DEF IInv
  <2>1. CASE PushWait(p)
    BY <1>2, <2>1, PushEffects DEF PushWait, Filled, Ends
  <2>2. CASE PushLock(p)
    BY <1>2, <2>2, PushEffects DEF PushLock, Filled, Counts, Ends
  <2>3. CASE PushCopy(p)
    <3>1. Filled < Cap /\ NextWrite = p_step /\ in[p] \in Values
      BY <2>3, RoomAtCopy DEF PushCopy, Step, Arguments
    <3>2. /\ cdata_sem' = cdata_sem /\ Written' = Written + 1 /\ Taken' = Taken
          /\ NextRead' = NextRead
      BY <2>3, PushEffects DEF PushCopy
    <3>3. Filled' = Filled + 1
      BY <1>1, <3>2, CountsAreNat DEF Filled
    <3>4. ringqueue' = [ringqueue EXCEPT ![NextWrite] = in[p]] /\ UNCHANGED out
      BY <2>3, <3>1 DEF PushCopy
    <3>5. Contents' = Append(Contents, in[p])
      BY <3>1, <3>2, <3>3, <3>4, ContentsGrow
    <3>6. Len(Contents) < Cap
      BY <3>1, ContentsIsSeq
    <3>7. Fifo!Enqueue(in[p])
      BY <3>4, <3>5, <3>6 DEF Fifo!Enqueue
    <3> QED BY <3>1, <3>7 DEF Fifo!Next
  <2>4. CASE PushAdvance(p)
    BY <1>2, <2>4, PushEffects DEF PushAdvance, Filled, Counts, Ends
  <2>5. CASE PushUnlock(p)
    BY <1>2, <2>5, PushEffects DEF PushUnlock, Filled, Counts, Ends
  <2>6. CASE PushPost(p)
    <3>1. /\ cdata_sem' = cdata_sem + 1 /\ Written' = Written - 1 /\ Taken' = Taken
          /\ UNCHANGED <<ringqueue, NextRead, out>>
      BY <2>6, PushEffects DEF PushPost, Ends
    <3>2. Filled' = Filled
      BY <1>1, <3>1, CountsAreNat DEF Filled
    <3> QED BY <1>2, <3>1, <3>2
  <2> QED BY <1>3, <2>1, <2>2, <2>3, <2>4, <2>5, <2>6 DEF Push
<1>4. ASSUME NEW c \in Consumers, Pop(c) PROVE [Fifo!Next]_(Fifo!vars)
  <2> USE DEF IInv
  <2>1. CASE PopWait(c)
    <3>1. /\ cdata_sem' = cdata_sem - 1 /\ Taken' = Taken + 1 /\ Written' = Written
          /\ UNCHANGED <<ringqueue, NextRead, out>>
      BY <2>1, PopEffects DEF PopWait, Ends
    <3>2. Filled' = Filled
      BY <1>1, <3>1, CountsAreNat DEF Filled
    <3> QED BY <1>2, <3>1, <3>2
  <2>2. CASE PopLock(c)
    BY <1>2, <2>2, PopEffects DEF PopLock, Filled, Counts, Ends
  <2>3. CASE PopCopy(c)
    <3>1. Filled > 0 /\ NextRead = c_step
      BY <2>3, StockAtCopy DEF PopCopy, Step
    <3>2. /\ cdata_sem' = cdata_sem /\ Taken' = Taken - 1 /\ Written' = Written
          /\ NextRead' = (NextRead + 1) % Cap
      BY <2>3, <3>1, PopEffects DEF PopCopy
    <3>3. Filled' = Filled - 1
      BY <1>1, <3>2, CountsAreNat DEF Filled
    <3>4. ringqueue' = ringqueue /\ out' = [out EXCEPT ![c] = ringqueue[NextRead]]
      BY <2>3, <3>1 DEF PopCopy
    <3>5. /\ Contents # << >> /\ Head(Contents) = ringqueue[NextRead]
          /\ Contents' = Tail(Contents)
      BY <3>1, <3>2, <3>3, <3>4, ContentsShrink
    <3>6. Fifo!Dequeue(c)
      BY <3>4, <3>5 DEF Fifo!Dequeue
    <3> QED BY <3>6 DEF Fifo!Next
  <2>4. CASE PopAdvance(c)
    BY <1>2, <2>4, PopEffects DEF PopAdvance, Filled, Counts, Ends
  <2>5. CASE PopUnlock(c)
    BY <1>2, <2>5, PopEffects DEF PopUnlock, Filled, Counts, Ends
  <2>6. CASE PopPost(c)
    BY <1>2, <2>6, PopEffects DEF PopPost, Filled, Ends
  <2> QED BY <1>4, <2>1, <2>2, <2>3, <2>4, <2>5, <2>6 DEF Pop
<1>5. CASE UNCHANGED vars
  <2>1. UNCHANGED <<ringqueue, Filled, NextRead, out>>
    BY <1>5 DEF vars, Filled, Written, Taken, At, NextRead
  <2> QED BY <1>2, <2>1
<1> QED BY <1>3, <1>4, <1>5 DEF Next

(* Push and Pop together are a bounded FIFO for any number of threads: the *)
(* specification implements BoundedFifo.                                   *)
THEOREM RingRefinesFifo == Spec => ImplementsBoundedFifo
<1>1. Init => Fifo!Init
  <2> SUFFICES ASSUME Init PROVE Fifo!Init
    OBVIOUS
  <2>1. 1 .. Filled = {}
    <3>1. Filled = 0
      BY InitCounts DEF Filled, Init, InitWith
    <3> QED BY <3>1
  <2>2. Contents = << >>
    BY <2>1 DEF Contents
  <2> QED BY <2>2 DEF Fifo!Init, Init, InitWith
<1>2. Spec => []Arguments
  <2>1. Init => Arguments
    BY DEF Init, InitWith, Arguments, Threads
  <2>2. TypeOK /\ Arguments /\ [Next]_vars => Arguments'
    BY ArgumentsInductive
  <2> QED BY <2>1, <2>2, TypeCorrect, PTL DEF Spec
<1>3. IInv /\ IInv' /\ Arguments /\ [Next]_vars => [Fifo!Next]_(Fifo!vars)
  BY StepRefines
<1> QED BY <1>1, <1>2, <1>3, Invariant, PTL DEF Spec, ImplementsBoundedFifo, Fifo!Spec
=============================================================================
