--------------------------- MODULE SourceMaskLock ---------------------------
(***************************************************************************)
(* Preemption and resource locking on armv6-m, which has no BASEPRI: lock  *)
(* disables, in the NVIC, the interrupts between the task's priority and   *)
(* the ceiling (rticx-cortex-m/src/export.rs, mod source_mask; the mask    *)
(* table is generate_source_mask_globals of rticx-macro).  Handlers are    *)
(* not wrapped: wrap_task_execution returns None.                          *)
(***************************************************************************)
EXTENDS CoreAnalysis, Sequences

CONSTANTS
  MaxNest,  \* bound on the locks one task nests
  Nests     \* <<outer, inner>>: the application locks inner inside outer

ASSUME NestAssumption ==
  /\ MaxNest \in Nat \ {0}
  /\ Nests \subseteq Resources \X Resources

VARIABLES
  pending,  \* NVIC pending bits
  enabled,  \* NVIC ISER/ICER enable bits
  active,   \* interrupts being handled
  locks,    \* the calls of `lock` each actor is inside of, outermost first
  primask   \* PRIMASK, 1 masks everything

vars == <<pending, enabled, active, locks, primask>>

(* A call of `lock` whose closure is running: by no raise at all, by       *)
(* interrupt::free (saved is the PRIMASK to restore) or by disabling mask. *)
LockCall ==
  [res : Resources, how : {"none", "free", "mask"},
   saved : {0, 1}, mask : SUBSET Tasks]

(* Exceptions have no enable bit.                                          *)
Interrupts == Tasks \ Exceptions

TypeOK ==
  /\ pending \subseteq Tasks
  /\ enabled \subseteq Interrupts
  /\ active \subseteq Tasks
  /\ locks \in [Actors -> Seq(LockCall)]
  /\ primask \in {0, 1}

(* After post_init every bound interrupt is unmasked.                      *)
Init ==
  /\ pending = {}
  /\ enabled = Interrupts
  /\ active = {}
  /\ locks = [a \in Actors |-> <<>>]
  /\ primask = 0

-----------------------------------------------------------------------------
(* The processor (external).                                               *)

Active(a) == a = Idle \/ a \in active

Running(a) ==
  /\ Active(a)
  /\ \A b \in Actors : Active(b) /\ b # a => ExecPriority[a] < ExecPriority[b]

Takable(t) ==
  /\ t \in pending
  /\ primask = 0
  /\ t \in enabled \cup Exceptions
  /\ \A a \in Actors : Active(a) => ExecPriority[t] < ExecPriority[a]

Pend(t) ==
  /\ t \notin pending
  /\ pending' = pending \cup {t}
  /\ UNCHANGED <<enabled, active, locks, primask>>

Preempt(t) ==
  /\ Takable(t)
  /\ \A u \in Tasks : Takable(u) => ExecPriority[t] <= ExecPriority[u]
  /\ pending' = pending \ {t}
  /\ active' = active \cup {t}
  /\ UNCHANGED <<enabled, locks, primask>>

Return(t) ==
  /\ Running(t)
  /\ locks[t] = <<>>
  /\ active' = active \ {t}
  /\ UNCHANGED <<pending, enabled, locks, primask>>

-----------------------------------------------------------------------------
(* Mutant: exceptions are given a bit too.                                 *)
MASKSWithExceptions ==
  [level \in 1 .. 3 |-> {t \in Tasks : IrqPriority(t) = level}]

(* __rticx_internal_MASKS: one mask per priority level 1..3.               *)
MASKS == [level \in 1 .. 3 |-> {t \in Interrupts : IrqPriority(t) = level}]

(* Mutant: the range stops short of the ceiling.                           *)
mask_below_ceiling(from_prio, to_prio) ==
  UNION {MASKS[level] : level \in (from_prio + 1) .. (to_prio - 1)}

(* compute_mask: masks[from_prio .. to_prio] in Rust's half-open indices.  *)
compute_mask(from_prio, to_prio) ==
  UNION {MASKS[level] : level \in (from_prio + 1) .. to_prio}

(* Mutant: the whole enable register is written.                           *)
write_enable_mask(mask) == Interrupts \ mask

(* The enable bits after ICER, respectively ISER, is written.              *)
clear_enable_mask(mask) == enabled \ mask
set_enable_mask(mask) == enabled \cup mask

Last(s) == s[Len(s)]
ButLast(s) == SubSeq(s, 1, Len(s) - 1)

CanLock(a, r) ==
  /\ Running(a)
  /\ r \in Uses[a]
  /\ Len(locks[a]) < MaxNest
  /\ locks[a] # <<>> => <<Last(locks[a]).res, r>> \in Nests

Enter(a, r, how, saved, mask) ==
  locks' = [locks EXCEPT ![a] =
    Append(@, [res |-> r, how |-> how, saved |-> saved, mask |-> mask])]

(* current >= ceiling: the closure runs without raising the ceiling.       *)
LockNone(a, r) ==
  /\ CanLock(a, r)
  /\ CorePriority(a) >= Ceiling[r]
  /\ Enter(a, r, "none", 0, {})
  /\ UNCHANGED <<pending, enabled, active, primask>>

(* ceiling >= 4: interrupt::free.                                          *)
LockFree(a, r) ==
  /\ CanLock(a, r)
  /\ CorePriority(a) < Ceiling[r]
  /\ Ceiling[r] >= 4
  /\ Enter(a, r, "free", primask, {})
  /\ primask' = 1
  /\ UNCHANGED <<pending, enabled, active>>

(* clear_enable_mask(compute_mask(current, ceiling)), where current is the *)
(* static priority of the task and not the ceiling of an outer lock.       *)
LockMask(a, r) ==
  /\ CanLock(a, r)
  /\ CorePriority(a) < Ceiling[r]
  /\ Ceiling[r] < 4
  /\ LET mask == compute_mask(CorePriority(a), Ceiling[r]) IN
       /\ Enter(a, r, "mask", 0, mask)
       /\ enabled' = clear_enable_mask(mask)
  /\ UNCHANGED <<pending, active, primask>>

(* The closure returns: set_enable_mask(mask), or PRIMASK is restored.     *)
Unlock(a) ==
  /\ Running(a)
  /\ locks[a] # <<>>
  /\ LET call == Last(locks[a]) IN
       /\ enabled' = IF call.how = "mask" THEN set_enable_mask(call.mask) ELSE enabled
       /\ primask' = IF call.how = "free" THEN call.saved ELSE primask
  /\ locks' = [locks EXCEPT ![a] = ButLast(@)]
  /\ UNCHANGED <<pending, active>>

-----------------------------------------------------------------------------
Next ==
  \/ \E t \in Tasks : Pend(t) \/ Preempt(t) \/ Return(t)
  \/ \E a \in Actors, r \in Resources :
       LockNone(a, r) \/ LockFree(a, r) \/ LockMask(a, r)
  \/ \E a \in Actors : Unlock(a)

Spec == Init /\ [][Next]_vars

-----------------------------------------------------------------------------
Holds(a, r) == \E i \in 1 .. Len(locks[a]) : locks[a][i].res = r

(* README.md:116 "Data-race-free memory sharing": two actors are never     *)
(* inside closures of `lock` on the same resource.                         *)
MutualExclusion ==
  \A a, b \in Actors, r \in Resources : Holds(a, r) /\ Holds(b, r) => a = b

(* The enable bits that are off are exactly those of the closures now      *)
(* being run: a handler that preempts a closure and locks something itself *)
(* neither re-enables what the closure disabled nor leaves a bit off.      *)
MaskExact ==
  enabled = Interrupts \ UNION {UNION {locks[a][i].mask :
              i \in 1 .. Len(locks[a])} : a \in Actors}
=============================================================================
